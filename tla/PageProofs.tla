----------------------------- MODULE PageProofs -----------------------------
(***************************************************************************)
(* Proofs about the pages of the dashboard: what Array.filter does to a    *)
(* list, by induction over its length; then, page by page, the invariant   *)
(* that carries the property of the page, one lemma per action or group of *)
(* actions, and the theorem.  The pages after the stability analysis, and  *)
(* all pages together, are in RecordProofs.                                *)
(***************************************************************************)
EXTENDS JiraTicket, Chat, LiveView, TestLibrary, OrgSettings, ProjectSettings, LaunchForm,
        CyclePages, Stability, FiniteSetTheorems, SequenceTheorems, WellFoundedInduction, TLAPS

----------------------------------------------------------------------------
(********************************* Lists **********************************)

LEMMA LeastOfNaturals ==
    ASSUME NEW T \in SUBSET Nat, T # {}
    PROVE  \E x \in T : \A y \in T : x <= y
<1> DEFINE R == {p \in Nat \X Nat : p[1] < p[2]}
<1>1. \A x, y \in Nat : <<x, y>> \in R <=> x < y
  OBVIOUS
<1>2. IsWellFoundedOn(R, Nat)
  BY NatLessThanWellFounded DEF OpToRel
<1> HIDE DEF R
<1>3. \E x \in T : \A y \in T : ~(<<y, x>> \in R)
  BY <1>2, WFMin
<1>4. PICK x \in T : \A y \in T : ~(<<y, x>> \in R)
  BY <1>3
<1>5. \A y \in T : ~(y < x)
  BY <1>1, <1>4
<1> QED BY <1>5

\* A set of natural numbers with 0 and the successor of each of its members has them all.
LEMMA AllNaturals ==
    ASSUME NEW G, 0 \in G, \A n \in Nat : n \in G => n + 1 \in G
    PROVE  \A n \in Nat : n \in G
<1> DEFINE T == Nat \ G
<1>1. SUFFICES ASSUME T # {} PROVE FALSE
  OBVIOUS
<1>2. PICK x \in T : \A y \in T : x <= y
  BY <1>1, LeastOfNaturals
<1>3. x \in Nat /\ x # 0 /\ x \notin G
  OBVIOUS
<1>4. x - 1 \in Nat /\ ~(x <= x - 1)
  BY <1>3
<1>5. x - 1 \in G
  BY <1>2, <1>4
<1>6. (x - 1) + 1 \in G
  BY <1>4, <1>5
<1>7. (x - 1) + 1 = x
  BY <1>3
<1> QED BY <1>3, <1>6, <1>7

\* A set with the empty sequence and each of its members lengthened has every sequence.
LEMMA AllSequences ==
    ASSUME NEW S, NEW G,
           << >> \in G, \A s \in Seq(S) : \A e \in S : s \in G => Append(s, e) \in G
    PROVE  \A s \in Seq(S) : s \in G
<1> DEFINE L == {n \in Nat : \A s \in Seq(S) : Len(s) = n => s \in G}
<1>1. 0 \in L
  <2>1. \A s \in Seq(S) : Len(s) = 0 => s = << >>
    BY EmptySeq
  <2> QED BY <2>1
<1>2. ASSUME NEW n \in Nat, n \in L PROVE n + 1 \in L
  <2>1. ASSUME NEW s \in Seq(S), Len(s) = n + 1 PROVE s \in G
    <3> DEFINE r == SubSeq(s, 1, n)
    <3>1. r \in Seq(S) /\ Len(r) = n /\ s[n + 1] \in S /\ \A i \in 1..n : r[i] = s[i]
      BY <2>1
    <3>2. s = Append(r, s[n + 1])
      BY <2>1, <3>1
    <3> HIDE DEF r
    <3>3. r \in G
      BY <1>2, <3>1
    <3> QED BY <3>1, <3>2, <3>3
  <2> QED BY <2>1
<1> HIDE DEF L
<1>3. \A n \in Nat : n \in L
  BY <1>1, <1>2, AllNaturals
<1>4. ASSUME NEW s \in Seq(S) PROVE s \in G
  <2>1. Len(s) \in L
    BY <1>3, LenProperties
  <2> QED BY <2>1 DEF L
<1> QED BY <1>4

----
\* f tells what is kept of the first n elements of s, for every n up to m.
Sifting(f, s, keep, m) ==
    f = [n \in 0..m |-> IF n = 0 THEN << >>
                        ELSE IF s[n] \in keep THEN Append(f[n - 1], s[n]) ELSE f[n - 1]]

LEMMA SiftingExists ==
    ASSUME NEW s, NEW keep
    PROVE  \A m \in Nat : \E f : Sifting(f, s, keep, m)
<1> DEFINE G == {m \in Nat : \E f : Sifting(f, s, keep, m)}
<1>1. 0 \in G
  <2> DEFINE f == [n \in 0..0 |-> << >>]
  <2>1. Sifting(f, s, keep, 0)
    BY DEF Sifting
  <2> QED BY <2>1
<1>2. ASSUME NEW m \in Nat, m \in G PROVE m + 1 \in G
  <2>1. PICK f : Sifting(f, s, keep, m)
    BY <1>2
  <2> DEFINE last == IF s[m + 1] \in keep THEN Append(f[m], s[m + 1]) ELSE f[m]
             g == [n \in 0..(m + 1) |-> IF n = m + 1 THEN last ELSE f[n]]
             h == [n \in 0..(m + 1) |-> IF n = 0 THEN << >>
                        ELSE IF s[n] \in keep THEN Append(g[n - 1], s[n]) ELSE g[n - 1]]
  <2>2. ASSUME NEW n \in 0..(m + 1) PROVE g[n] = h[n]
    <3>1. CASE n = m + 1
      <4>1. g[n] = last /\ n # 0 /\ n - 1 = m /\ m \in 0..(m + 1) /\ m # m + 1
        BY <3>1
      <4>2. g[m] = f[m]
        BY <4>1
      <4> QED BY <3>1, <4>1, <4>2
    <3>2. CASE n = 0
      <4>1. f[0] = << >>
        BY <2>1 DEF Sifting
      <4> QED BY <3>2, <4>1
    <3>3. CASE n # 0 /\ n # m + 1
      <4>1. n \in 0..m /\ n - 1 \in 0..m /\ n - 1 # m + 1 /\ n - 1 \in 0..(m + 1)
        BY <3>3
      <4>2. g[n] = f[n] /\ g[n - 1] = f[n - 1]
        BY <3>3, <4>1
      <4>3. f[n] = IF s[n] \in keep THEN Append(f[n - 1], s[n]) ELSE f[n - 1]
        BY <2>1, <3>3, <4>1 DEF Sifting
      <4> QED BY <3>3, <4>2, <4>3
    <3> QED BY <3>1, <3>2, <3>3
  <2>3. g = h
    BY <2>2
  <2>4. Sifting(g, s, keep, m + 1)
    BY <2>3 DEF Sifting
  <2> QED BY <2>4
<1> HIDE DEF G
<1>3. \A m \in Nat : m \in G
  BY <1>1, <1>2, AllNaturals
<1> QED BY <1>3 DEF G

\* What is kept of a prefix does not depend on what comes after it.
LEMMA SiftingUnique ==
    ASSUME NEW s, NEW t, NEW keep, NEW f, NEW g, NEW m \in Nat, NEW k \in Nat,
           Sifting(f, s, keep, m), Sifting(g, t, keep, k),
           NEW b \in Nat, b <= m, b <= k, \A i \in 1..b : s[i] = t[i]
    PROVE  f[b] = g[b]
<1> DEFINE G == {n \in Nat : n <= b => f[n] = g[n]}
<1>1. 0 \in G
  BY DEF Sifting
<1>2. ASSUME NEW n \in Nat, n \in G PROVE n + 1 \in G
  <2>1. CASE n + 1 <= b
    <3>1. n + 1 \in 0..m /\ n + 1 \in 0..k /\ n + 1 # 0 /\ (n + 1) - 1 = n /\ n + 1 \in 1..b
      BY <2>1
    <3>2. f[n] = g[n]
      BY <1>2, <2>1
    <3>3. f[n + 1] = IF s[n + 1] \in keep THEN Append(f[n], s[n + 1]) ELSE f[n]
      BY <3>1 DEF Sifting
    <3>4. g[n + 1] = IF t[n + 1] \in keep THEN Append(g[n], t[n + 1]) ELSE g[n]
      BY <3>1 DEF Sifting
    <3>5. s[n + 1] = t[n + 1]
      BY <3>1
    <3> QED BY <3>2, <3>3, <3>4, <3>5
  <2> QED BY <2>1
<1> HIDE DEF G
<1>3. \A n \in Nat : n \in G
  BY <1>1, <1>2, AllNaturals
<1> QED BY <1>3 DEF G

LEMMA SiftedIs ==
    ASSUME NEW S, NEW s \in Seq(S), NEW keep
    PROVE  \E f : Sifting(f, s, keep, Len(s)) /\ Sifted(s, keep) = f[Len(s)]
<1>1. Len(s) \in Nat
  BY LenProperties
<1>2. \E f : Sifting(f, s, keep, Len(s))
  BY <1>1, SiftingExists
<1> QED BY <1>2 DEF Sifted, Sifting

LEMMA SiftedEmpty == ASSUME NEW keep PROVE Sifted(<< >>, keep) = << >>
<1>1. << >> \in Seq({}) /\ Len(<< >>) = 0
  BY EmptySeq
<1>2. PICK f : Sifting(f, << >>, keep, 0) /\ Sifted(<< >>, keep) = f[0]
  BY <1>1, SiftedIs
<1> QED BY <1>2 DEF Sifting

LEMMA SiftedAppend ==
    ASSUME NEW S, NEW s \in Seq(S), NEW e \in S, NEW keep
    PROVE  Sifted(Append(s, e), keep) =
               IF e \in keep THEN Append(Sifted(s, keep), e) ELSE Sifted(s, keep)
<1> DEFINE t == Append(s, e)
           m == Len(s)
<1>1. t \in Seq(S) /\ Len(t) = m + 1 /\ t[m + 1] = e /\ m \in Nat /\ \A i \in 1..m : t[i] = s[i]
  BY AppendProperties, LenProperties
<1> HIDE DEF t, m
<1>2. PICK f : Sifting(f, s, keep, m) /\ Sifted(s, keep) = f[m]
  BY SiftedIs DEF m
<1>3. PICK g : Sifting(g, t, keep, m + 1) /\ Sifted(t, keep) = g[m + 1]
  BY <1>1, SiftedIs
<1>4. f[m] = g[m]
  BY <1>1, <1>2, <1>3, SiftingUnique
<1>5. m + 1 \in 0..(m + 1) /\ m + 1 # 0 /\ (m + 1) - 1 = m
  BY <1>1
<1>6. g[m + 1] = IF t[m + 1] \in keep THEN Append(g[m], t[m + 1]) ELSE g[m]
  BY <1>3, <1>5 DEF Sifting
<1> QED BY <1>1, <1>2, <1>3, <1>4, <1>6 DEF t

LEMMA SiftedType ==
    ASSUME NEW S, NEW s \in Seq(S), NEW keep
    PROVE  Sifted(s, keep) \in Seq(S \cap keep)
<1> DEFINE G == {r \in Seq(S) : Sifted(r, keep) \in Seq(S \cap keep)}
<1>1. << >> \in G
  BY SiftedEmpty, EmptySeq
<1>2. ASSUME NEW r \in Seq(S), NEW e \in S, r \in G PROVE Append(r, e) \in G
  <2>1. Append(r, e) \in Seq(S)
    BY AppendProperties
  <2>2. Sifted(Append(r, e), keep) = IF e \in keep THEN Append(Sifted(r, keep), e) ELSE Sifted(r, keep)
    BY SiftedAppend
  <2>3. CASE e \in keep
    <3>1. Append(Sifted(r, keep), e) \in Seq(S \cap keep)
      BY <1>2, <2>3, AppendProperties
    <3> QED BY <2>1, <2>2, <2>3, <3>1
  <2> QED BY <1>2, <2>1, <2>2, <2>3
<1> HIDE DEF G
<1>3. \A r \in Seq(S) : r \in G
  BY <1>1, <1>2, AllSequences
<1> QED BY <1>3 DEF G

LEMMA SiftedConcat ==
    ASSUME NEW S, NEW s \in Seq(S), NEW t \in Seq(S), NEW keep
    PROVE  Sifted(s \o t, keep) = Sifted(s, keep) \o Sifted(t, keep)
<1> DEFINE G == {r \in Seq(S) : Sifted(s \o r, keep) = Sifted(s, keep) \o Sifted(r, keep)}
<1> USE SiftedType
<1>0. \A r \in Seq(S) : Sifted(r, keep) \in Seq(S)
  <2> TAKE r \in Seq(S)
  <2>1. Sifted(r, keep) \in Seq(S \cap keep)
    OBVIOUS
  <2> QED BY <2>1, SeqMonotonic
<1>1. << >> \in G
  <2>1. s \o << >> = s /\ Sifted(s, keep) \o << >> = Sifted(s, keep)
    BY <1>0, ConcatEmptySeq
  <2> QED BY <2>1, SiftedEmpty, EmptySeq
<1>2. ASSUME NEW r \in Seq(S), NEW e \in S, r \in G PROVE Append(r, e) \in G
  <2>1. Append(r, e) \in Seq(S) /\ s \o r \in Seq(S) /\ s \o Append(r, e) = Append(s \o r, e)
    BY AppendProperties, ConcatProperties
  <2>2. Sifted(Append(r, e), keep) = IF e \in keep THEN Append(Sifted(r, keep), e) ELSE Sifted(r, keep)
    BY SiftedAppend
  <2>3. Sifted(Append(s \o r, e), keep)
            = IF e \in keep THEN Append(Sifted(s \o r, keep), e) ELSE Sifted(s \o r, keep)
    BY <2>1, SiftedAppend
  <2>4. Sifted(s, keep) \o Append(Sifted(r, keep), e) = Append(Sifted(s, keep) \o Sifted(r, keep), e)
    BY <1>0
  <2> QED BY <1>2, <2>1, <2>2, <2>3, <2>4
<1> HIDE DEF G
<1>3. \A r \in Seq(S) : r \in G
  BY <1>1, <1>2, AllSequences
<1> QED BY <1>3 DEF G

\* Sifting what was sifted keeps what is in both sets.
LEMMA SiftedTwice ==
    ASSUME NEW S, NEW s \in Seq(S), NEW keep, NEW again
    PROVE  Sifted(Sifted(s, keep), again) = Sifted(s, keep \cap again)
<1> DEFINE G == {r \in Seq(S) : Sifted(Sifted(r, keep), again) = Sifted(r, keep \cap again)}
<1>0. \A r \in Seq(S) : Sifted(r, keep) \in Seq(S)
  <2> TAKE r \in Seq(S)
  <2>1. Sifted(r, keep) \in Seq(S \cap keep)
    BY SiftedType
  <2> QED BY <2>1, SeqMonotonic
<1>1. << >> \in G
  BY SiftedEmpty, EmptySeq
<1>2. ASSUME NEW r \in Seq(S), NEW e \in S, r \in G PROVE Append(r, e) \in G
  <2>1. Append(r, e) \in Seq(S)
    BY AppendProperties
  <2>2. Sifted(Append(r, e), keep) = IF e \in keep THEN Append(Sifted(r, keep), e) ELSE Sifted(r, keep)
    BY SiftedAppend
  <2>3. Sifted(Append(r, e), keep \cap again) =
            IF e \in keep \cap again THEN Append(Sifted(r, keep \cap again), e)
            ELSE Sifted(r, keep \cap again)
    BY SiftedAppend
  <2>4. Sifted(Append(Sifted(r, keep), e), again) =
            IF e \in again THEN Append(Sifted(Sifted(r, keep), again), e)
            ELSE Sifted(Sifted(r, keep), again)
    BY <1>0, SiftedAppend
  <2>5. Sifted(Sifted(r, keep), again) = Sifted(r, keep \cap again)
    BY <1>2
  <2>6. CASE e \in keep
    <3>1. e \in keep \cap again <=> e \in again
      BY <2>6
    <3> QED BY <2>1, <2>2, <2>3, <2>4, <2>5, <2>6, <3>1
  <2>7. CASE e \notin keep
    <3>1. e \notin keep \cap again
      BY <2>7
    <3> QED BY <2>1, <2>2, <2>3, <2>5, <2>7, <3>1
  <2> QED BY <2>6, <2>7
<1> HIDE DEF G
<1>3. \A r \in Seq(S) : r \in G
  BY <1>1, <1>2, AllSequences
<1> QED BY <1>3 DEF G

\* Only membership of the elements of the sequence matters.
LEMMA SiftedAlike ==
    ASSUME NEW S, NEW s \in Seq(S), NEW keep, NEW other,
           \A i \in 1..Len(s) : s[i] \in keep <=> s[i] \in other
    PROVE  Sifted(s, keep) = Sifted(s, other)
<1> DEFINE G == {r \in Seq(S) : (\A i \in 1..Len(r) : r[i] \in keep <=> r[i] \in other)
                                    => Sifted(r, keep) = Sifted(r, other)}
<1>1. << >> \in G
  BY SiftedEmpty, EmptySeq
<1>2. ASSUME NEW r \in Seq(S), NEW e \in S, r \in G PROVE Append(r, e) \in G
  <2> DEFINE t == Append(r, e)
  <2>1. t \in Seq(S) /\ Len(t) = Len(r) + 1 /\ t[Len(r) + 1] = e /\ Len(r) \in Nat
        /\ \A i \in 1..Len(r) : t[i] = r[i]
    BY AppendProperties, LenProperties
  <2>2. Sifted(t, keep) = IF e \in keep THEN Append(Sifted(r, keep), e) ELSE Sifted(r, keep)
    BY SiftedAppend
  <2>3. Sifted(t, other) = IF e \in other THEN Append(Sifted(r, other), e) ELSE Sifted(r, other)
    BY SiftedAppend
  <2> HIDE DEF t
  <2>4. ASSUME \A i \in 1..Len(t) : t[i] \in keep <=> t[i] \in other
        PROVE  Sifted(t, keep) = Sifted(t, other)
    <3>1. \A i \in 1..Len(r) : i \in 1..Len(t)
      BY <2>1
    <3>2. \A i \in 1..Len(r) : r[i] \in keep <=> r[i] \in other
      BY <2>1, <2>4, <3>1
    <3>3. Len(r) + 1 \in 1..Len(t)
      BY <2>1
    <3>4. e \in keep <=> e \in other
      BY <2>1, <2>4, <3>3
    <3> QED BY <1>2, <2>2, <2>3, <3>2, <3>4
  <2>5. t \in G
    BY <2>1, <2>4
  <2> QED BY <2>5 DEF t
<1> HIDE DEF G
<1>3. \A r \in Seq(S) : r \in G
  BY <1>1, <1>2, AllSequences
<1> QED BY <1>3 DEF G

\* What is sifted was in the sequence.
LEMMA SiftedFrom ==
    ASSUME NEW S, NEW s \in Seq(S), NEW keep, NEW i \in 1..Len(Sifted(s, keep))
    PROVE  \E j \in 1..Len(s) : s[j] = Sifted(s, keep)[i]
<1> DEFINE E == {s[j] : j \in 1..Len(s)}
<1>1. s \in Seq(E)
  BY LenProperties, SeqDef
<1>2. Sifted(s, keep) \in Seq(E \cap keep)
  BY <1>1, SiftedType
<1>3. Sifted(s, keep)[i] \in E
  BY <1>2, ElementOfSeq
<1> QED BY <1>3

LEMMA SiftedLen ==
    ASSUME NEW S, NEW s \in Seq(S), NEW keep
    PROVE  Len(Sifted(s, keep)) \in Nat /\ Len(Sifted(s, keep)) <= Len(s)
<1> DEFINE G == {r \in Seq(S) : Len(Sifted(r, keep)) <= Len(r)}
<1>0. \A r \in Seq(S) : Sifted(r, keep) \in Seq(S)
  <2> TAKE r \in Seq(S)
  <2>1. Sifted(r, keep) \in Seq(S \cap keep)
    BY SiftedType
  <2> QED BY <2>1, SeqMonotonic
<1>1. << >> \in G
  BY SiftedEmpty, EmptySeq
<1>2. ASSUME NEW r \in Seq(S), NEW e \in S, r \in G PROVE Append(r, e) \in G
  <2>1. Append(r, e) \in Seq(S) /\ Len(Append(r, e)) = Len(r) + 1 /\ Len(r) \in Nat
    BY AppendProperties, LenProperties
  <2>2. Sifted(Append(r, e), keep) = IF e \in keep THEN Append(Sifted(r, keep), e) ELSE Sifted(r, keep)
    BY SiftedAppend
  <2>3. /\ Sifted(r, keep) \in Seq(S) /\ Len(Sifted(r, keep)) \in Nat
        /\ Len(Append(Sifted(r, keep), e)) = Len(Sifted(r, keep)) + 1
    BY <1>0, AppendProperties, LenProperties
  <2>4. Len(Sifted(r, keep)) <= Len(r)
    BY <1>2
  <2> QED BY <2>1, <2>2, <2>3, <2>4
<1> HIDE DEF G
<1>3. \A r \in Seq(S) : r \in G
  BY <1>1, <1>2, AllSequences
<1>4. Len(Sifted(s, keep)) \in Nat
  BY <1>0, LenProperties
<1> QED BY <1>3, <1>4 DEF G

----------------------------------------------------------------------------
(***************************** The Jira tickets *****************************)

Modal == [open : BOOLEAN, listed : BOOLEAN, types : SUBSET IssueType, people : SUBSET Assignee,
          form : Chosen, shows : {"form", "loading", "error", "success"}, no : Nat]
Submission == [ticket : JiraIssue, at : {"sent", "created", "ok", "failed"}]

TicketTyped ==
    /\ modal \in Modal
    /\ \A a \in asks : a.what \in {"projects", "types", "people", "fields"}
    /\ submits \subseteq Submission /\ issues \subseteq JiraIssue
    /\ submitted \in Nat /\ modal.no <= submitted
    /\ \A s \in submits : s.ticket.no <= submitted
    /\ \A s, t \in submits : s.ticket.no = t.ticket.no => s = t

Fits(answers) ==
    /\ \A p \in answers.project : answers.type \subseteq TypesOf[p] /\ answers.person \subseteq PeopleOf[p]
    /\ answers.fields \subseteq answers.project \X answers.type

\* What the modal offers, and what it still waits for, is of the project that is chosen.
Offered ==
    /\ \A p, q \in modal.form.project : p = q
    /\ modal.types # {} \/ modal.people # {} => modal.form.project # {}
    /\ \A p \in modal.form.project :
            modal.types \subseteq TypesOf[p] /\ modal.people \subseteq PeopleOf[p]
    /\ Fits(modal.form)
    /\ \A a \in asks :
            /\ a.what \in {"types", "people", "fields"} => a.project = modal.form.project
            /\ a.what = "fields" => a.type = modal.form.type

\* A submission knows where its issue is.
Filed ==
    /\ \A s \in submits :
            /\ Fits(s.ticket.form)
            /\ s.at = "created" => s.ticket \in issues
            /\ s.at = "ok" => s.ticket.no \in jiraTickets
    /\ \A i \in issues : Fits(i.form)
    /\ jiraTickets \subseteq {i.no : i \in issues}
    /\ modal.shows = "success" => modal.no \in jiraTickets

TicketInv == TicketTyped /\ Offered /\ Filed

\* What a choice makes of the modal.
LEMMA ProjectChosen ==
    ASSUME TicketTyped, Offered, NEW p \in JiraProject, NEW awaited \in SUBSET asks,
           WithProject(p, awaited)
    PROVE  /\ modal' \in Modal /\ modal'.no = modal.no /\ modal'.shows = modal.shows
           /\ \A a \in asks' : a.what \in {"projects", "types", "people", "fields"}
           /\ Offered'
<1> DEFINE answers == [project |-> {p}, type |-> {}, person |-> {}, fields |-> {}]
<1>1. modal' = [open |-> modal.open, listed |-> TRUE, types |-> {}, people |-> {}, form |-> answers,
                shows |-> modal.shows, no |-> modal.no]
  BY DEF WithProject, TicketTyped, Modal, NoChoice
<1>2. answers \in Chosen
  BY DEF Chosen
<1>3. \A a \in asks' : \/ a \in asks /\ a.what \notin {"types", "people", "fields"}
                       \/ a = AskFor("types", {p}, {}) \/ a = AskFor("people", {p}, {})
  BY DEF WithProject, Without
<1>4. modal' \in Modal /\ modal'.no = modal.no /\ modal'.shows = modal.shows
  BY <1>1, <1>2 DEF TicketTyped, Modal
<1>5. \A a \in asks' : a.what \in {"projects", "types", "people", "fields"}
  BY <1>3 DEF TicketTyped, AskFor
<1>6. Offered'
  <2>1. \A a \in asks' : /\ a.what \in {"types", "people", "fields"} => a.project = {p}
                         /\ a.what # "fields"
    BY <1>3 DEF AskFor
  <2> QED BY <1>1, <2>1 DEF Offered, Fits
<1> QED BY <1>4, <1>5, <1>6

LEMMA TypeChosen ==
    ASSUME TicketTyped, Offered, NEW p \in JiraProject, modal.form.project = {p},
           NEW types \in SUBSET TypesOf[p], NEW t \in TypesOf[p], NEW awaited \in SUBSET asks,
           WithType(t, types, awaited)
    PROVE  /\ modal' \in Modal /\ modal'.no = modal.no /\ modal'.shows = modal.shows
           /\ \A a \in asks' : a.what \in {"projects", "types", "people", "fields"}
           /\ Offered'
<1> DEFINE answers == [[modal.form EXCEPT !.type = {t}] EXCEPT !.fields = {}]
<1>0. modal \in Modal /\ modal.form \in Chosen /\ modal.people \in SUBSET Assignee
  BY DEF TicketTyped, Modal
<1>1. modal' = [modal EXCEPT !.types = types, !.form = answers]
  BY <1>0 DEF WithType, Modal
<1>2. /\ answers \in Chosen /\ answers.project = {p} /\ answers.type = {t} /\ answers.fields = {}
      /\ answers.person = modal.form.person
  <2>1. {t} \in SUBSET IssueType
    BY DEF IssueType
  <2> DEFINE ts == {t}
  <2> HIDE DEF ts
  <2>2. [modal.form EXCEPT !.type = ts] \in Chosen
    BY <1>0, <2>1 DEF Chosen, ts
  <2> QED BY <1>0, <2>1, <2>2 DEF Chosen, ts
<1>3. \A a \in asks' : \/ a \in asks /\ a.what # "fields"
                       \/ a = AskFor("fields", {p}, {t})
  BY DEF WithType, Without
<1> HIDE DEF answers
<1>4. /\ modal' \in Modal /\ modal'.no = modal.no /\ modal'.shows = modal.shows
      /\ modal'.types = types /\ modal'.people = modal.people /\ modal'.form = answers
  <2>1. types \in SUBSET IssueType
    BY DEF IssueType
  <2> QED BY <1>0, <1>1, <1>2, <2>1 DEF Modal
<1>5. \A a \in asks' : a.what \in {"projects", "types", "people", "fields"}
  BY <1>3 DEF TicketTyped, AskFor
<1>6. Offered'
  <2>1. \A a \in asks' : /\ a.what \in {"types", "people", "fields"} => a.project = {p}
                         /\ a.what = "fields" => a.type = {t}
    BY <1>3 DEF AskFor, Offered
  <2> QED BY <1>2, <1>4, <2>1 DEF Offered, Fits
<1> QED BY <1>4, <1>5, <1>6

LEMMA PersonChosen ==
    ASSUME TicketTyped, Offered, NEW people \in SUBSET Assignee, NEW who \in SUBSET people,
           \A p \in modal.form.project : people \subseteq PeopleOf[p],
           people # {} => modal.form.project # {},
           modal' = [modal EXCEPT !.people = people, !.form.person = who], asks' \subseteq asks
    PROVE  /\ modal' \in Modal /\ modal'.no = modal.no /\ modal'.shows = modal.shows
           /\ \A a \in asks' : a.what \in {"projects", "types", "people", "fields"}
           /\ Offered'
<1> DEFINE answers == [modal.form EXCEPT !.person = who]
<1>0. modal \in Modal /\ modal.form \in Chosen
  BY DEF TicketTyped, Modal
<1>1. /\ answers \in Chosen /\ answers.person = who
      /\ answers.project = modal.form.project /\ answers.type = modal.form.type
      /\ answers.fields = modal.form.fields
  BY <1>0 DEF Chosen
<1>2. /\ modal' \in Modal /\ modal'.no = modal.no /\ modal'.shows = modal.shows
      /\ modal'.types = modal.types /\ modal'.people = people /\ modal'.form = answers
  <2>1. modal' = [open |-> modal.open, listed |-> modal.listed, types |-> modal.types,
                  people |-> people, form |-> answers, shows |-> modal.shows, no |-> modal.no]
    BY <1>0 DEF Modal
  <2> QED BY <1>0, <1>1, <2>1 DEF Modal
<1>3. \A a \in asks' : a.what \in {"projects", "types", "people", "fields"}
  BY DEF TicketTyped
<1> HIDE DEF answers
<1>4. Offered'
  BY <1>1, <1>2 DEF Offered, Fits
<1> QED BY <1>2, <1>3, <1>4

LEMMA TicketMoves ==
    ASSUME TicketTyped, Filed, NEW s \in submits, NEW at \in {"created", "ok", "failed"},
           Moved(s, at)
    PROVE  /\ submits' \subseteq Submission
           /\ \A u \in submits' :
                 \/ u \in submits /\ u # s
                 \/ u.ticket = s.ticket /\ u.at = at
           /\ \A u, v \in submits' : u.ticket.no = v.ticket.no => u = v
           /\ \A u \in submits' : \E v \in submits : u.ticket = v.ticket
<1> DEFINE n == [s EXCEPT !.at = at]
<1>1. s \in Submission
  BY DEF TicketTyped
<1>2. n \in Submission /\ n.ticket = s.ticket /\ n.at = at
  BY <1>1 DEF Submission
<1>3. submits' = (submits \ {s}) \cup {n}
  BY DEF Moved
<1> HIDE DEF n
<1> QED BY <1>2, <1>3 DEF TicketTyped

LEMMA TicketStarts == JiraTicketInit => TicketInv
<1> SUFFICES ASSUME JiraTicketInit PROVE TicketInv
  OBVIOUS
<1>1. Closed \in Modal
  BY DEF Closed, Modal, Chosen, NoChoice
<1>2. TicketTyped
  BY <1>1 DEF JiraTicketInit, TicketTyped, Closed
<1>3. Offered
  BY DEF JiraTicketInit, Offered, Closed, NoChoice, Fits
<1>4. Filed
  BY DEF JiraTicketInit, Filed, Closed
<1> QED BY <1>2, <1>3, <1>4 DEF TicketInv

\* Choices leave what is submitted alone.
LEMMA FiledStays ==
    ASSUME Filed, UNCHANGED <<submits, issues, jiraTickets>>,
           modal'.shows = "success" => modal'.shows = modal.shows /\ modal'.no = modal.no
    PROVE  Filed'
  BY DEF Filed

LEMMA ChoosingKept ==
    ASSUME TicketInv,
           \/ OpenTicketModal \/ CloseTicketModal \/ SelectProject \/ SelectIssueType
           \/ SelectAssignee \/ ListAnswers \/ ListFails
    PROVE  TicketInv'
<1> USE DEF TicketInv
<1>0. /\ UNCHANGED <<submits, submitted, issues, jiraTickets>>
      /\ submits \subseteq Submission /\ issues \subseteq JiraIssue /\ submitted \in Nat
  BY DEF OpenTicketModal, CloseTicketModal, SelectProject, SelectIssueType, SelectAssignee,
         ListAnswers, ListFails, TicketTyped
<1> DEFINE Chose ==
       /\ modal' \in Modal /\ modal'.no = modal.no /\ modal'.shows = modal.shows
       /\ \A a \in asks' : a.what \in {"projects", "types", "people", "fields"}
       /\ Offered'
<1>1. Chose => TicketInv'
  <2>1. Chose => TicketTyped'
    BY <1>0 DEF TicketTyped
  <2>2. Chose => Filed'
    BY <1>0, FiledStays
  <2> QED BY <2>1, <2>2
<1>2. ASSUME modal' = Closed \/ modal' = [Closed EXCEPT !.open = TRUE],
             asks' = {} \/ asks' = {AskFor("projects", {}, {})}
      PROVE  TicketInv'
  <2>1. /\ modal' \in Modal /\ modal'.no = 0 /\ modal'.shows = "form"
        /\ modal'.types = {} /\ modal'.people = {} /\ modal'.form = NoChoice
    <3>1. /\ Closed \in Modal /\ Closed.no = 0 /\ Closed.shows = "form"
          /\ Closed.types = {} /\ Closed.people = {} /\ Closed.form = NoChoice
      BY DEF Closed, Modal, Chosen, NoChoice
    <3>2. \A m \in Modal :
             LET o == [m EXCEPT !.open = TRUE]
             IN  /\ o \in Modal /\ o.no = m.no /\ o.shows = m.shows
                 /\ o.types = m.types /\ o.people = m.people /\ o.form = m.form
      BY DEF Modal
    <3> QED BY <1>2, <3>1, <3>2
  <2>2. TicketTyped'
    BY <1>0, <1>2, <2>1 DEF TicketTyped, AskFor
  <2>3. Offered'
    BY <1>2, <2>1 DEF Offered, NoChoice, Fits, AskFor
  <2>4. Filed'
    BY <1>0, <2>1, FiledStays
  <2> QED BY <2>2, <2>3, <2>4
<1>3. CASE OpenTicketModal
  BY <1>2, <1>3 DEF OpenTicketModal
<1>4. CASE CloseTicketModal
  <2>1. \A a \in asks : a.what \in {"projects", "types", "people", "fields"}
    BY DEF TicketTyped
  <2> QED BY <1>2, <1>4, <2>1 DEF CloseTicketModal, Without
<1>5. CASE SelectProject
  <2>1. PICK p \in JiraProject : WithProject(p, asks)
    BY <1>5 DEF SelectProject
  <2> QED BY <1>1, <2>1, ProjectChosen
<1>6. CASE SelectIssueType
  <2>1. PICK t \in modal.types : WithType(t, modal.types, asks)
    BY <1>6 DEF SelectIssueType
  <2>2. PICK p \in JiraProject : modal.form.project = {p} /\ modal.types \subseteq TypesOf[p]
    BY <2>1 DEF Offered, TicketTyped, Modal, Chosen
  <2> QED BY <1>1, <2>1, <2>2, TypeChosen
<1>7. CASE SelectAssignee
  <2>1. PICK who : /\ who \in {{}} \cup {{q} : q \in modal.people}
                   /\ modal' = [modal EXCEPT !.form.person = who] /\ asks' = asks
    BY <1>7 DEF SelectAssignee
  <2>2. modal \in Modal /\ modal.people \in SUBSET Assignee
    BY DEF TicketTyped, Modal
  <2>3. modal' = [modal EXCEPT !.people = modal.people, !.form.person = who]
    BY <2>1, <2>2 DEF Modal
  <2>4. /\ \A p \in modal.form.project : modal.people \subseteq PeopleOf[p]
        /\ modal.people # {} => modal.form.project # {}
    BY DEF Offered
  <2>5. who \in SUBSET modal.people /\ asks' \subseteq asks
    BY <2>1
  <2>6. Chose
    BY <2>2, <2>3, <2>4, <2>5, PersonChosen
  <2> QED BY <1>1, <2>6
<1>8. CASE ListFails
  <2>1. /\ \A a \in asks' : a \in asks
        /\ UNCHANGED modal
    BY <1>8 DEF ListFails
  <2>2. Offered'
    BY <2>1 DEF Offered, Fits
  <2> QED BY <1>1, <2>1, <2>2 DEF TicketTyped
<1>9. CASE ListAnswers
  <2>1. PICK a \in asks :
          CASE a.what = "projects" -> \E p \in JiraProject : WithProject(p, asks \ {a})
            [] a.what = "types" ->
                   \E p \in a.project, t \in IssueType :
                       t \in TypesOf[p] /\ WithType(t, TypesOf[p], asks \ {a})
            [] a.what = "people" ->
                   /\ modal' = [modal EXCEPT !.people = UNION {PeopleOf[p] : p \in a.project},
                                             !.form.person = {}]
                   /\ asks' = asks \ {a}
            [] a.what = "fields" ->
                   /\ modal' = [modal EXCEPT !.form.fields = a.project \X a.type]
                   /\ asks' = asks \ {a}
    BY <1>9 DEF ListAnswers
  <2> DEFINE rest == asks \ {a}
  <2>0. rest \in SUBSET asks /\ modal \in Modal /\ modal.form \in Chosen
    BY DEF TicketTyped, Modal
  <2>2. CASE a.what = "projects"
    <3>1. PICK p \in JiraProject : WithProject(p, rest)
      BY <2>1, <2>2
    <3> QED BY <1>1, <2>0, <3>1, ProjectChosen
  <2>3. CASE a.what = "types"
    <3>0. \E p \in a.project, t \in IssueType : t \in TypesOf[p] /\ WithType(t, TypesOf[p], rest)
      BY <2>1, <2>3
    <3>1. PICK p \in a.project, t \in IssueType : t \in TypesOf[p] /\ WithType(t, TypesOf[p], rest)
      BY <3>0
    <3>2. modal.form.project = {p} /\ p \in JiraProject
      BY <2>0, <2>3 DEF Offered, Chosen
    <3> QED BY <1>1, <2>0, <3>1, <3>2, TypeChosen
  <2>4. CASE a.what = "people"
    <3> DEFINE people == UNION {PeopleOf[p] : p \in a.project}
    <3>1. modal' = [modal EXCEPT !.people = people, !.form.person = {}] /\ asks' = rest
      BY <2>1, <2>4
    <3>2. a.project = modal.form.project /\ a.project \subseteq JiraProject
      BY <2>0, <2>4 DEF Offered, Chosen
    <3>3. /\ people \in SUBSET Assignee
          /\ people # {} => modal.form.project # {}
      BY <3>2 DEF Assignee
    <3>4. \A p \in modal.form.project : people \subseteq PeopleOf[p]
      BY <3>2 DEF Offered
    <3> HIDE DEF people
    <3>5. asks' \subseteq asks /\ {} \in SUBSET people
      BY <3>1
    <3>6. Chose
      BY <3>1, <3>3, <3>4, <3>5, PersonChosen
    <3> QED BY <1>1, <3>6
  <2>5. CASE a.what = "fields"
    <3>1. /\ modal' = [modal EXCEPT !.form.fields = a.project \X a.type] /\ asks' = rest
          /\ a.project = modal.form.project /\ a.type = modal.form.type
      BY <2>1, <2>5 DEF Offered
    <3> DEFINE answers == [modal.form EXCEPT !.fields = a.project \X a.type]
    <3>2. /\ answers \in Chosen /\ answers.project = modal.form.project /\ answers.type = modal.form.type
          /\ answers.person = modal.form.person /\ answers.fields = answers.project \X answers.type
      BY <2>0, <3>1 DEF Chosen
    <3>3. modal' = [modal EXCEPT !.form = answers]
      BY <2>0, <3>1 DEF Modal
    <3> HIDE DEF answers
    <3>4. /\ modal' \in Modal /\ modal'.no = modal.no /\ modal'.shows = modal.shows
          /\ modal'.types = modal.types /\ modal'.people = modal.people /\ modal'.form = answers
      BY <2>0, <3>2, <3>3 DEF Modal
    <3>5. Offered'
      BY <3>1, <3>2, <3>4 DEF Offered, Fits
    <3> QED BY <1>1, <3>1, <3>4, <3>5 DEF TicketTyped
  <2>6. a.what \in {"projects", "types", "people", "fields"}
    BY DEF TicketTyped
  <2> QED BY <2>2, <2>3, <2>4, <2>5, <2>6
<1> QED BY <1>3, <1>4, <1>5, <1>6, <1>7, <1>8, <1>9

LEMMA SubmitKept ==
    ASSUME TicketInv, Submit
    PROVE  TicketInv'
<1> USE DEF TicketInv
<1> DEFINE ticket == [no |-> submitted + 1, form |-> modal.form]
           new == [ticket |-> ticket, at |-> "sent"]
<1>0. modal \in Modal /\ modal.form \in Chosen /\ submitted \in Nat
  BY DEF TicketTyped, Modal
<1>1. /\ submits' = submits \cup {new} /\ submitted' = submitted + 1
      /\ modal' = [[modal EXCEPT !.shows = "loading"] EXCEPT !.no = submitted + 1]
      /\ UNCHANGED <<asks, issues, jiraTickets>>
  BY DEF Submit
<1>2. ticket \in JiraIssue /\ ticket.no = submitted + 1 /\ ticket.form = modal.form
  BY <1>0 DEF JiraIssue
<1> HIDE DEF ticket
<1>3. new \in Submission /\ new.ticket = ticket /\ new.at = "sent"
  BY <1>2 DEF Submission
<1> HIDE DEF new
<1>4. /\ modal' \in Modal /\ modal'.no = submitted + 1 /\ modal'.shows = "loading"
      /\ modal'.form = modal.form /\ modal'.types = modal.types /\ modal'.people = modal.people
  <2> DEFINE m == [modal EXCEPT !.shows = "loading"]
             no == submitted + 1
  <2>1. /\ m \in Modal /\ m.shows = "loading" /\ m.form = modal.form
        /\ m.types = modal.types /\ m.people = modal.people
    BY <1>0 DEF Modal
  <2>2. modal' = [m EXCEPT !.no = no] /\ no \in Nat
    BY <1>0, <1>1
  <2> HIDE DEF m
  <2>3. modal'.no = no
    BY <2>1, <2>2 DEF Modal
  <2> HIDE DEF no
  <2> QED BY <2>1, <2>2, <2>3 DEF Modal, no
<1>5. TicketTyped'
  <2>1. \A s \in submits : s.ticket.no \in Nat /\ s.ticket.no <= submitted
    BY DEF TicketTyped, Submission, JiraIssue
  <2> QED BY <1>0, <1>1, <1>2, <1>3, <1>4, <2>1 DEF TicketTyped
<1>6. Offered'
  BY <1>1, <1>4 DEF Offered, Fits
<1>7. Filed'
  BY <1>1, <1>2, <1>3, <1>4 DEF Filed, Offered
<1> QED BY <1>5, <1>6, <1>7

LEMMA FilingKept ==
    ASSUME TicketInv, CreateIssue \/ LinkIssue \/ SubmitFails \/ ShowOutcome
    PROVE  TicketInv'
<1> USE DEF TicketInv
<1>0. /\ UNCHANGED <<asks, submitted>> /\ submitted \in Nat
      /\ \A s \in submits : s \in Submission /\ s.ticket \in JiraIssue /\ s.ticket.no \in Nat
  BY DEF CreateIssue, LinkIssue, SubmitFails, ShowOutcome, TicketTyped, Submission, JiraIssue
<1>1. ASSUME NEW s \in submits, NEW at \in {"created", "ok", "failed"}, Moved(s, at),
             UNCHANGED modal,
             issues' = issues \/ issues' = issues \cup {s.ticket},
             at = "created" => s.ticket \in issues',
             \/ jiraTickets' = jiraTickets
             \/ s.ticket \in issues /\ jiraTickets' = jiraTickets \cup {s.ticket.no},
             at = "ok" => s.ticket.no \in jiraTickets'
      PROVE  TicketInv'
  <2>1. /\ submits' \subseteq Submission
        /\ \A u \in submits' :
                 \/ u \in submits /\ u # s
                 \/ u.ticket = s.ticket /\ u.at = at
        /\ \A u, v \in submits' : u.ticket.no = v.ticket.no => u = v
        /\ \A u \in submits' : \E v \in submits : u.ticket = v.ticket
    BY <1>1, TicketMoves
  <2>2. TicketTyped'
    BY <1>0, <1>1, <2>1 DEF TicketTyped
  <2>3. Offered'
    BY <1>0, <1>1 DEF Offered, Fits
  <2>4. Filed'
    <3>1. \A u \in submits' : Fits(u.ticket.form)
      BY <2>1 DEF Filed
    <3>2. \A u \in submits' : /\ u.at = "created" => u.ticket \in issues'
                              /\ u.at = "ok" => u.ticket.no \in jiraTickets'
      BY <1>1, <2>1 DEF Filed
    <3>3. \A i \in issues' : Fits(i.form)
      BY <1>1 DEF Filed
    <3>4. jiraTickets' \subseteq {i.no : i \in issues'}
      BY <1>1 DEF Filed
    <3>5. modal'.shows = "success" => modal'.no \in jiraTickets'
      BY <1>1 DEF Filed
    <3> QED BY <3>1, <3>2, <3>3, <3>4, <3>5 DEF Filed, Fits
  <2> QED BY <2>2, <2>3, <2>4
<1>2. CASE CreateIssue
  BY <1>1, <1>2 DEF CreateIssue
<1>3. CASE LinkIssue
  <2>1. \A s \in submits : s.at = "created" => s.ticket \in issues
    BY DEF Filed
  <2> QED BY <1>1, <1>3, <2>1 DEF LinkIssue
<1>4. CASE SubmitFails
  BY <1>1, <1>4 DEF SubmitFails
<1>5. CASE ShowOutcome
  <2>1. PICK s \in submits :
           /\ s.at \in {"ok", "failed"} /\ submits' = submits \ {s}
           /\ modal' = IF modal.no = s.ticket.no
                       THEN [modal EXCEPT !.shows = IF s.at = "ok" THEN "success" ELSE "error"]
                       ELSE modal
           /\ UNCHANGED <<issues, jiraTickets>>
    BY <1>5 DEF ShowOutcome
  <2>2. modal \in Modal
    BY DEF TicketTyped
  <2>3. /\ modal' \in Modal /\ modal'.no = modal.no /\ modal'.form = modal.form
        /\ modal'.types = modal.types /\ modal'.people = modal.people
        /\ modal'.shows = "success" =>
              modal.shows = "success" \/ (s.at = "ok" /\ s.ticket.no = modal.no)
    BY <2>1, <2>2 DEF Modal
  <2>4. TicketTyped'
    BY <1>0, <2>1, <2>3 DEF TicketTyped
  <2>5. Offered'
    BY <1>0, <2>3 DEF Offered, Fits
  <2>6. Filed'
    BY <2>1, <2>3 DEF Filed, Fits
  <2> QED BY <2>4, <2>5, <2>6
<1> QED BY <1>2, <1>3, <1>4, <1>5

LEMMA TicketKept == TicketInv /\ [JiraTicketNext]_jiraVars => TicketInv'
<1> SUFFICES ASSUME TicketInv, [JiraTicketNext]_jiraVars PROVE TicketInv'
  OBVIOUS
<1>1. CASE UNCHANGED jiraVars
  BY <1>1 DEF jiraVars, TicketInv, TicketTyped, Offered, Filed, Fits
<1> QED BY <1>1, ChoosingKept, SubmitKept, FilingKept DEF JiraTicketNext

\* The modal and the submissions agree in every reachable state.
THEOREM TicketInvariant == JiraTicketSpec => []TicketInv
BY TicketStarts, TicketKept, PTL DEF JiraTicketSpec

\* TicketsFit in every state: a ticket that is filed fits its project, and a run that
\* shows a link has the issue, however the answers to the lists cross the choices.
THEOREM TicketsAlwaysFit == JiraTicketSpec => []TicketsFit
<1>1. TicketInv => TicketsFit
  BY DEF TicketInv, Filed, Fits, TicketsFit
<1> QED BY <1>1, TicketInvariant, PTL

Lone(S) == \A x, y \in S : x = y

\* One issue type and one assignee at most is chosen, as the modal has one field for each.
ChosenOnce == Lone(modal.form.type) /\ Lone(modal.form.person)

\* Submissions and issues bear the numbers given out so far.
TicketsNumbered ==
    /\ submitted <= MaxSubmits
    /\ \A s \in submits : s.ticket.no \in 1..submitted
    /\ \A i \in issues : i.no \in 1..submitted

LEMMA LoneCount ==
    ASSUME NEW S, Lone(S)
    PROVE  Cardinality(S) <= 1
<1>1. Cardinality({}) = 0 /\ \A x : Cardinality({x}) = 1
  BY FS_EmptySet, FS_Singleton
<1>2. CASE S = {}
  BY <1>1, <1>2
<1>3. CASE S # {}
  <2>1. PICK x \in S : S = {x}
    BY <1>3 DEF Lone
  <2>2. Cardinality(S) = 1
    BY <1>1, <2>1
  <2> QED BY <2>2
<1> QED BY <1>2, <1>3

LEMMA ChosenOnceKept ==
    ASSUME TicketInv, ChosenOnce, [JiraTicketNext]_jiraVars
    PROVE  ChosenOnce'
<1>0. modal \in Modal /\ modal.form \in Chosen
  BY DEF TicketInv, TicketTyped, Modal
<1>1. ASSUME NEW answers \in Chosen, modal'.form = answers, Lone(answers.type), Lone(answers.person)
      PROVE  ChosenOnce'
  BY <1>1 DEF ChosenOnce
<1>2. Lone({}) /\ \A x : Lone({x})
  BY DEF Lone
<1>3. ASSUME modal'.form = NoChoice PROVE ChosenOnce'
  BY <1>2, <1>3 DEF ChosenOnce, NoChoice
<1>4. ASSUME modal'.form = modal.form PROVE ChosenOnce'
  BY <1>4 DEF ChosenOnce
<1>5. ASSUME NEW p, NEW awaited, WithProject(p, awaited) PROVE ChosenOnce'
  <2>1. modal'.form = [project |-> {p}, type |-> {}, person |-> {}, fields |-> {}]
    BY <1>0, <1>5 DEF WithProject, Modal, NoChoice
  <2> QED BY <1>2, <2>1 DEF ChosenOnce
<1>6. ASSUME NEW t, NEW types, NEW awaited, WithType(t, types, awaited) PROVE ChosenOnce'
  <2>1. modal' = [modal EXCEPT !.types = types,
                               !.form = [[modal.form EXCEPT !.type = {t}] EXCEPT !.fields = {}]]
    BY <1>0, <1>6 DEF WithType, Modal
  <2>2. modal'.form = [[modal.form EXCEPT !.type = {t}] EXCEPT !.fields = {}]
    BY <1>0, <2>1 DEF Modal
  <2>3. modal'.form.type = {t} /\ modal'.form.person = modal.form.person
    BY <1>0, <2>2 DEF Chosen
  <2> QED BY <1>2, <2>3 DEF ChosenOnce
<1>7. ASSUME NEW people, NEW who, Lone(who),
             modal' = [modal EXCEPT !.people = people, !.form.person = who]
      PROVE  ChosenOnce'
  <2>1. modal'.form = [modal.form EXCEPT !.person = who]
    BY <1>0, <1>7 DEF Modal
  <2>2. modal'.form.type = modal.form.type /\ modal'.form.person = who
    BY <1>0, <2>1 DEF Chosen
  <2> QED BY <1>7, <2>2 DEF ChosenOnce
<1>8. CASE OpenTicketModal \/ CloseTicketModal
  <2>1. modal'.form = NoChoice
    BY <1>8 DEF OpenTicketModal, CloseTicketModal, Closed
  <2> QED BY <1>3, <2>1
<1>9. CASE SelectProject
  BY <1>5, <1>9 DEF SelectProject
<1>10. CASE SelectIssueType
  BY <1>6, <1>10 DEF SelectIssueType
<1>11. CASE SelectAssignee
  <2>1. PICK who : /\ who \in {{}} \cup {{q} : q \in modal.people}
                   /\ modal' = [modal EXCEPT !.form.person = who]
    BY <1>11 DEF SelectAssignee
  <2>2. modal' = [modal EXCEPT !.people = modal.people, !.form.person = who]
    BY <1>0, <2>1 DEF Modal
  <2>3. Lone(who)
    BY <1>2, <2>1
  <2> QED BY <1>7, <2>2, <2>3
<1>12. CASE ListAnswers
  <2>1. PICK a \in asks :
          CASE a.what = "projects" -> \E p \in JiraProject : WithProject(p, asks \ {a})
            [] a.what = "types" ->
                   \E p \in a.project, t \in IssueType :
                       t \in TypesOf[p] /\ WithType(t, TypesOf[p], asks \ {a})
            [] a.what = "people" ->
                   /\ modal' = [modal EXCEPT !.people = UNION {PeopleOf[p] : p \in a.project},
                                             !.form.person = {}]
                   /\ asks' = asks \ {a}
            [] a.what = "fields" ->
                   /\ modal' = [modal EXCEPT !.form.fields = a.project \X a.type]
                   /\ asks' = asks \ {a}
    BY <1>12 DEF ListAnswers
  <2>2. CASE a.what = "projects"
    <3>1. PICK p \in JiraProject : WithProject(p, asks \ {a})
      BY <2>1, <2>2
    <3> QED BY <1>5, <3>1
  <2>3. CASE a.what = "types"
    <3>1. \E p \in a.project, t \in IssueType : t \in TypesOf[p] /\ WithType(t, TypesOf[p], asks \ {a})
      BY <2>1, <2>3
    <3> QED BY <1>6, <3>1
  <2>4. CASE a.what = "people"
    <3>1. modal' = [modal EXCEPT !.people = UNION {PeopleOf[p] : p \in a.project}, !.form.person = {}]
      BY <2>1, <2>4
    <3> QED BY <1>2, <1>7, <3>1
  <2>5. CASE a.what = "fields"
    <3>1. modal' = [modal EXCEPT !.form.fields = a.project \X a.type]
      BY <2>1, <2>5
    <3>2. modal'.form = [modal.form EXCEPT !.fields = a.project \X a.type]
      BY <1>0, <3>1 DEF Modal
    <3>3. modal'.form.type = modal.form.type /\ modal'.form.person = modal.form.person
      BY <1>0, <3>2 DEF Chosen
    <3> QED BY <3>3 DEF ChosenOnce
  <2>6. a.what \in {"projects", "types", "people", "fields"}
    BY DEF TicketInv, TicketTyped
  <2> QED BY <2>2, <2>3, <2>4, <2>5, <2>6
<1>13. CASE ListFails \/ CreateIssue \/ LinkIssue \/ SubmitFails \/ UNCHANGED jiraVars
  <2>1. modal' = modal
    BY <1>13 DEF ListFails, CreateIssue, LinkIssue, SubmitFails, jiraVars
  <2> QED BY <1>4, <2>1
<1>14. CASE Submit
  <2>1. modal' = [modal EXCEPT !.shows = "loading", !.no = submitted']
    BY <1>14 DEF Submit
  <2>2. modal'.form = modal.form
    BY <1>0, <2>1 DEF Modal
  <2> QED BY <1>4, <2>2
<1>15. CASE ShowOutcome
  <2>1. PICK s \in submits :
           modal' = IF modal.no = s.ticket.no
                    THEN [modal EXCEPT !.shows = IF s.at = "ok" THEN "success" ELSE "error"]
                    ELSE modal
    BY <1>15 DEF ShowOutcome
  <2>2. modal'.form = modal.form
    BY <1>0, <2>1 DEF Modal
  <2> QED BY <1>4, <2>2
<1> QED
  BY <1>8, <1>9, <1>10, <1>11, <1>12, <1>13, <1>14, <1>15 DEF JiraTicketNext

LEMMA TicketsNumberedKept ==
    ASSUME TicketInv, TicketsNumbered, [JiraTicketNext]_jiraVars
    PROVE  TicketsNumbered'
<1>0. /\ submitted \in Nat /\ MaxSubmits \in Nat
      /\ submitted <= MaxSubmits /\ \A s \in submits : s.ticket.no \in 1..submitted
      /\ \A i \in issues : i.no \in 1..submitted
  BY JiraTicketAssumption DEF TicketInv, TicketTyped, TicketsNumbered
<1>1. ASSUME UNCHANGED submitted, \A s \in submits' : \E u \in submits : s.ticket = u.ticket,
             \A i \in issues' : i \in issues \/ \E u \in submits : i = u.ticket
      PROVE  TicketsNumbered'
  BY <1>0, <1>1 DEF TicketsNumbered
<1>2. ASSUME NEW s \in submits, NEW at \in {"created", "ok", "failed"}, Moved(s, at)
      PROVE  \A u \in submits' : \E v \in submits : u.ticket = v.ticket
  BY <1>2, TicketMoves DEF TicketInv
<1>3. CASE Submit
  <2>1. /\ submitted < MaxSubmits /\ submitted' = submitted + 1 /\ issues' = issues
        /\ submits' = submits \cup {[ticket |-> [no |-> submitted', form |-> modal.form], at |-> "sent"]}
    BY <1>3 DEF Submit
  <2>2. \A s \in submits' : s \in submits \/ s.ticket.no = submitted + 1
    BY <2>1
  <2> QED BY <1>0, <2>1, <2>2 DEF TicketsNumbered
<1>4. CASE CreateIssue
  <2>1. PICK s \in submits : Moved(s, "created") /\ issues' = issues \cup {s.ticket} /\ submitted' = submitted
    BY <1>4 DEF CreateIssue
  <2> QED BY <1>1, <1>2, <2>1
<1>5. CASE LinkIssue
  <2>1. PICK s \in submits : Moved(s, "ok") /\ issues' = issues /\ submitted' = submitted
    BY <1>5 DEF LinkIssue
  <2> QED BY <1>1, <1>2, <2>1
<1>6. CASE SubmitFails
  <2>1. PICK s \in submits : /\ Moved(s, "failed") /\ submitted' = submitted
                             /\ issues' = issues \/ issues' = issues \cup {s.ticket}
    BY <1>6 DEF SubmitFails
  <2> QED BY <1>1, <1>2, <2>1
<1>7. CASE ShowOutcome
  <2>1. submits' \subseteq submits /\ issues' = issues /\ submitted' = submitted
    BY <1>7 DEF ShowOutcome
  <2> QED BY <1>1, <2>1
<1>8. CASE \/ OpenTicketModal \/ CloseTicketModal \/ SelectProject \/ SelectIssueType \/ SelectAssignee
           \/ ListAnswers \/ ListFails \/ UNCHANGED jiraVars
  <2>1. UNCHANGED <<submits, submitted, issues>>
    BY <1>8 DEF OpenTicketModal, CloseTicketModal, SelectProject, SelectIssueType, SelectAssignee,
                ListAnswers, ListFails, jiraVars
  <2> QED BY <1>1, <2>1
<1> QED
  BY <1>3, <1>4, <1>5, <1>6, <1>7, <1>8 DEF JiraTicketNext

\* The invariant of the tickets with what their types need.
TicketTypes == TicketInv /\ ChosenOnce /\ TicketsNumbered

LEMMA TicketTypesStart == JiraTicketInit => TicketTypes
<1> SUFFICES ASSUME JiraTicketInit PROVE TicketTypes
  OBVIOUS
<1>1. ChosenOnce
  BY DEF JiraTicketInit, Closed, NoChoice, ChosenOnce, Lone
<1>2. TicketsNumbered
  BY JiraTicketAssumption DEF JiraTicketInit, TicketsNumbered
<1> QED BY <1>1, <1>2, TicketStarts DEF TicketTypes

LEMMA TicketTypesStep == TicketTypes /\ [JiraTicketNext]_jiraVars => TicketTypes'
<1> SUFFICES ASSUME TicketTypes, [JiraTicketNext]_jiraVars PROVE TicketTypes'
  OBVIOUS
<1>1. TicketInv'
  BY TicketKept DEF TicketTypes
<1> QED BY <1>1, ChosenOnceKept, TicketsNumberedKept DEF TicketTypes

LEMMA TicketTypesFit == TicketTypes => TicketsFit /\ JiraTicketTypeOK
<1> SUFFICES ASSUME TicketTypes PROVE TicketsFit /\ JiraTicketTypeOK
  OBVIOUS
<1>0. TicketTyped /\ Offered /\ Filed /\ ChosenOnce /\ TicketsNumbered
  BY DEF TicketTypes, TicketInv
<1>1. TicketsFit
  BY <1>0 DEF Filed, Fits, TicketsFit
<1>2. modal \in Modal /\ modal.form \in Chosen
  BY <1>0 DEF TicketTyped, Modal
<1>3. \A f \in DOMAIN modal.form : Cardinality(modal.form[f]) <= 1
  <2>1. DOMAIN modal.form = {"project", "type", "person", "fields"}
    BY <1>2 DEF Chosen
  <2>2. Lone(modal.form.project) /\ Lone(modal.form.type) /\ Lone(modal.form.person)
    BY <1>0 DEF Offered, ChosenOnce, Lone
  <2>3. modal.form.fields \subseteq modal.form.project \X modal.form.type
    BY <1>0 DEF Offered, Fits
  <2>4. Lone(modal.form.fields)
    BY <2>2, <2>3 DEF Lone
  <2>5. /\ Cardinality(modal.form.project) <= 1 /\ Cardinality(modal.form.type) <= 1
        /\ Cardinality(modal.form.person) <= 1 /\ Cardinality(modal.form.fields) <= 1
    BY <2>2, <2>4, LoneCount
  <2> QED BY <2>1, <2>5
<1>4. /\ modal.open \in BOOLEAN /\ modal.listed \in BOOLEAN
      /\ modal.types \subseteq IssueType /\ modal.people \subseteq Assignee
      /\ modal.shows \in {"form", "loading", "error", "success"} /\ modal.no \in Nat
  BY <1>2 DEF Modal
<1>5. submitted \in 0..MaxSubmits /\ modal.no \in 0..submitted
  BY <1>0, <1>4, JiraTicketAssumption DEF TicketTyped, TicketsNumbered
<1>6. \A s \in submits : s.ticket \in JiraIssue /\ s.at \in {"sent", "created", "ok", "failed"}
  BY <1>0 DEF TicketTyped, Submission
<1>7. jiraTickets \subseteq 1..submitted
  BY <1>0 DEF Filed, TicketsNumbered
<1> QED BY <1>0, <1>1, <1>2, <1>3, <1>4, <1>5, <1>6, <1>7 DEF TicketTyped, JiraTicketTypeOK

\* The types of the ticket modal in every state: it sends one project, one issue type and
\* one assignee at most, and no number of a submission is given out twice.
THEOREM TicketsTyped == JiraTicketSpec => []JiraTicketTypeOK
BY TicketTypesStart, TicketTypesStep, TicketTypesFit, PTL DEF JiraTicketSpec

----------------------------------------------------------------------------
(****************************** The chatbot *******************************)

\* The least element is what Min of the community modules returns.
LEMMA MinOfNaturals ==
    ASSUME NEW T \in SUBSET Nat, T # {}
    PROVE  Min(T) \in T /\ \A y \in T : Min(T) <= y
<1> QED BY LeastOfNaturals DEF Min

Allowed == PipelineStage \ {"forbidden"}
HasLimit(p) == \E i \in 1..Len(p) : p[i] = "limit"

Says(p, kind, n) == \E i \in 1..n : p[i] = kind

\* The stages of p follow each other in rest, but for its first match.
KeepsOrder(p, rest) ==
    /\ \A i \in 1..Len(p) : ~Says(p, "match", i) => i <= Len(rest) /\ rest[i] = p[i]
    /\ \A i \in 1..Len(p) : Says(p, "match", i - 1) => i - 1 \in 1..Len(rest) /\ rest[i - 1] = p[i]

\* The stages that follow the match on the organization.
LEMMA ScopedFirst ==
    ASSUME NEW p \in Seq(Allowed)
    PROVE  \E rest \in Seq(Allowed) :
              /\ Scoped(p) = <<"orgMatch">> \o rest
              /\ KeepsOrder(p, rest) /\ (HasLimit(rest) <=> HasLimit(p))
              /\ Len(rest) = Len(p) - (IF Says(p, "match", Len(p)) THEN 1 ELSE 0)
<1> DEFINE I == {i \in 1..Len(p) : p[i] = "match"}
           first == SelectInSeq(p, LAMBDA s : s = "match")
<1>0. Len(p) \in Nat /\ I \subseteq Nat /\ I \subseteq 1..Len(p)
  OBVIOUS
<1>1. first = IF I # {} THEN Min(I) ELSE 0
  BY DEF SelectInSeq
<1>2. /\ first \in 0..Len(p)
      /\ first = 0 => \A i \in 1..Len(p) : p[i] # "match"
      /\ first # 0 => p[first] = "match" /\ \A i \in 1..(first - 1) : p[i] # "match"
  <2>1. CASE I = {}
    <3>1. first = 0 /\ \A i \in 1..Len(p) : p[i] # "match"
      BY <1>1, <2>1
    <3> QED BY <1>0, <3>1
  <2>2. CASE I # {}
    <3> DEFINE least == Min(I)
    <3>1. least \in I /\ \A y \in I : least <= y
      <4> HIDE DEF I
      <4> QED BY <1>0, <2>2, MinOfNaturals
    <3>2. first = least
      BY <1>1, <2>2
    <3> HIDE DEF first, least
    <3>3. least \in 1..Len(p) /\ p[least] = "match"
      BY <3>1
    <3>4. ASSUME NEW i \in 1..(least - 1) PROVE p[i] # "match"
      <4>1. i \in 1..Len(p) /\ ~(least <= i)
        BY <1>0, <3>3
      <4>2. i \notin I
        BY <3>1, <4>1
      <4> QED BY <4>1, <4>2
    <3>5. least # 0
      BY <3>3
    <3> QED BY <3>2, <3>3, <3>4, <3>5
  <2> QED BY <2>1, <2>2
<1>3. Scoped(p) = <<"orgMatch">> \o (IF first = 0 THEN p ELSE RemoveAt(p, first))
  BY DEF Scoped
<1> HIDE DEF first, I
<1>4. CASE first = 0
  <2>1. \A n \in 0..Len(p) : ~Says(p, "match", n)
    BY <1>0, <1>2, <1>4 DEF Says
  <2>2. KeepsOrder(p, p)
    <3>1. ASSUME NEW i \in 1..Len(p) PROVE i <= Len(p) /\ i - 1 \in 0..Len(p)
      BY <1>0
    <3> QED BY <2>1, <3>1 DEF KeepsOrder
  <2>3. ~Says(p, "match", Len(p)) /\ Len(p) = Len(p) - 0
    BY <1>0, <2>1
  <2> QED BY <1>3, <1>4, <2>2, <2>3
<1>5. CASE first # 0
  <2> DEFINE rest == RemoveAt(p, first)
             front == SubSeq(p, 1, first - 1)
             back == SubSeq(p, first + 1, Len(p))
  <2>1. /\ front \in Seq(Allowed) /\ Len(front) = first - 1
        /\ \A i \in 1..(first - 1) : front[i] = p[i]
    BY <1>0, <1>2, <1>5
  <2>2. /\ back \in Seq(Allowed) /\ Len(back) = Len(p) - first
        /\ \A i \in 1..(Len(p) - first) : back[i] = p[first + i]
    BY <1>0, <1>2, <1>5
  <2>3. rest = front \o back
    BY DEF RemoveAt
  <2> HIDE DEF rest, front, back
  <2>4. /\ rest \in Seq(Allowed) /\ Len(rest) = Len(front) + Len(back)
        /\ \A i \in 1..(Len(front) + Len(back)) :
               rest[i] = IF i <= Len(front) THEN front[i] ELSE back[i - Len(front)]
    BY <2>1, <2>2, <2>3, ConcatProperties
  <2>5. Len(rest) = Len(p) - 1
    BY <1>0, <1>2, <2>1, <2>2, <2>4
  <2>6. ASSUME NEW i \in 1..Len(rest) PROVE rest[i] = IF i < first THEN p[i] ELSE p[i + 1]
    <3>1. CASE i < first
      <4>1. i \in 1..(first - 1) /\ i \in 1..(Len(front) + Len(back)) /\ i <= Len(front)
        BY <1>0, <1>2, <2>1, <2>2, <2>5, <3>1
      <4> QED BY <2>1, <2>4, <3>1, <4>1
    <3>2. CASE ~(i < first)
      <4>1. /\ i \in 1..(Len(front) + Len(back)) /\ ~(i <= Len(front))
            /\ i - Len(front) \in 1..(Len(p) - first) /\ first + (i - Len(front)) = i + 1
        BY <1>0, <1>2, <2>1, <2>2, <2>5, <3>2
      <4> QED BY <2>2, <2>4, <3>2, <4>1
    <3> QED BY <3>1, <3>2
  <2>7. \A n \in 0..Len(p) : Says(p, "match", n) <=> first <= n
    <3> TAKE n \in 0..Len(p)
    <3>1. ASSUME first <= n PROVE Says(p, "match", n)
      <4>1. first \in 1..n
        BY <1>2, <1>5, <3>1
      <4> QED BY <1>2, <1>5, <4>1 DEF Says
    <3>2. ASSUME Says(p, "match", n) PROVE first <= n
      <4>1. PICK i \in 1..n : p[i] = "match"
        BY <3>2 DEF Says
      <4>2. i \notin 1..(first - 1)
        BY <1>2, <1>5, <4>1
      <4> QED BY <1>0, <1>2, <4>1, <4>2
    <3> QED BY <3>1, <3>2
  <2>8. KeepsOrder(p, rest)
    <3>1. ASSUME NEW i \in 1..Len(p), ~Says(p, "match", i) PROVE i <= Len(rest) /\ rest[i] = p[i]
      <4>1. i < first /\ i \in 1..Len(rest)
        BY <1>0, <1>2, <2>5, <2>7, <3>1
      <4> QED BY <2>5, <2>6, <4>1
    <3>2. ASSUME NEW i \in 1..Len(p), Says(p, "match", i - 1)
          PROVE  i - 1 \in 1..Len(rest) /\ rest[i - 1] = p[i]
      <4>1. i - 1 \in 0..Len(p)
        BY <1>0
      <4>2. first <= i - 1
        BY <2>7, <3>2, <4>1
      <4>3. i - 1 \in 1..Len(rest) /\ ~(i - 1 < first) /\ (i - 1) + 1 = i
        BY <1>0, <1>2, <1>5, <2>5, <4>2
      <4> QED BY <2>6, <4>3
    <3> QED BY <3>1, <3>2 DEF KeepsOrder
  <2>9. HasLimit(rest) => HasLimit(p)
    <3> SUFFICES ASSUME HasLimit(rest) PROVE HasLimit(p)
      OBVIOUS
    <3>1. PICK k \in 1..Len(rest) : rest[k] = "limit"
      BY DEF HasLimit
    <3>2. k \in 1..Len(p) /\ k + 1 \in 1..Len(p)
      BY <1>0, <2>5
    <3>3. p[k] = "limit" \/ p[k + 1] = "limit"
      BY <2>6, <3>1
    <3> QED BY <3>2, <3>3 DEF HasLimit
  <2>10. HasLimit(p) => HasLimit(rest)
    <3> SUFFICES ASSUME HasLimit(p) PROVE HasLimit(rest)
      OBVIOUS
    <3>1. PICK k \in 1..Len(p) : p[k] = "limit"
      BY DEF HasLimit
    <3>2. k # first
      BY <1>2, <1>5, <3>1
    <3>3. CASE k < first
      <4>1. k \in 1..Len(rest)
        BY <1>0, <1>2, <2>5, <3>3
      <4>2. rest[k] = "limit"
        BY <2>6, <3>1, <3>3, <4>1
      <4> QED BY <4>1, <4>2 DEF HasLimit
    <3>4. CASE first < k
      <4>1. k - 1 \in 1..Len(rest) /\ ~(k - 1 < first) /\ (k - 1) + 1 = k
        BY <1>0, <1>2, <1>5, <2>5, <3>4
      <4>2. rest[k - 1] = "limit"
        BY <2>6, <3>1, <4>1
      <4> QED BY <4>1, <4>2 DEF HasLimit
    <3> QED BY <1>0, <1>2, <3>2, <3>3, <3>4
  <2>11. Says(p, "match", Len(p))
    BY <1>0, <1>2, <2>7
  <2>12. Len(rest) = Len(p) - (IF Says(p, "match", Len(p)) THEN 1 ELSE 0)
    BY <2>5, <2>11
  <2>13. Scoped(p) = <<"orgMatch">> \o rest
    BY <1>3, <1>5 DEF rest
  <2> QED BY <2>4, <2>8, <2>9, <2>10, <2>12, <2>13
<1> QED BY <1>4, <1>5

Prefixed(q, rest) ==
    /\ Len(q) = Len(rest) + 2 /\ q[1] = "orgMatch" /\ q[2] = "unset"
    /\ \A i \in 1..Len(rest) : q[i + 2] = rest[i]

\* What the stages of p become behind the first two of the sanitized pipeline.
Follows(p, rest) ==
    /\ KeepsOrder(p, rest) /\ HasLimit(rest)
    /\ Len(rest) = Len(p) - (IF Says(p, "match", Len(p)) THEN 1 ELSE 0)
                          + (IF HasLimit(p) THEN 0 ELSE 1)

LEMMA SanitizedStages ==
    ASSUME NEW p \in Seq(Allowed)
    PROVE  \E rest \in Seq(Allowed) : Follows(p, rest) /\ Prefixed(Sanitized(p), rest)
<1> DEFINE scoped == Scoped(p)
           limited == IF \E i \in DOMAIN scoped : scoped[i] = "limit" THEN scoped
                      ELSE Append(scoped, "limit")
<1>1. Sanitized(p) = InsertAt(limited, 2, "unset")
  BY DEF Sanitized
<1>2. PICK rest \in Seq(Allowed) :
          /\ scoped = <<"orgMatch">> \o rest
          /\ KeepsOrder(p, rest) /\ (HasLimit(rest) <=> HasLimit(p))
          /\ Len(rest) = Len(p) - (IF Says(p, "match", Len(p)) THEN 1 ELSE 0)
  BY ScopedFirst
<1>0. Len(rest) \in Nat /\ Len(p) \in Nat
  OBVIOUS
<1> HIDE DEF scoped
<1>6. (\E i \in DOMAIN scoped : scoped[i] = "limit") <=> HasLimit(p)
  <2>0. /\ DOMAIN scoped = 1..(Len(rest) + 1) /\ scoped[1] = "orgMatch"
        /\ \A i \in 1..Len(rest) : scoped[i + 1] = rest[i]
    BY <1>2
  <2>1. ASSUME NEW i \in DOMAIN scoped, scoped[i] = "limit" PROVE HasLimit(rest)
    <3>1. i # 1 /\ i \in 1..(Len(rest) + 1)
      BY <2>0, <2>1
    <3>2. i - 1 \in 1..Len(rest) /\ (i - 1) + 1 = i
      BY <1>0, <3>1
    <3>3. rest[i - 1] = "limit"
      BY <2>0, <2>1, <3>2
    <3> QED BY <3>2, <3>3 DEF HasLimit
  <2>2. ASSUME HasLimit(rest) PROVE \E i \in DOMAIN scoped : scoped[i] = "limit"
    <3>1. PICK k \in 1..Len(rest) : rest[k] = "limit"
      BY <2>2 DEF HasLimit
    <3>2. k + 1 \in DOMAIN scoped /\ scoped[k + 1] = "limit"
      BY <1>0, <2>0, <3>1
    <3> QED BY <3>2
  <2> QED BY <1>2, <2>1, <2>2
<1>3. \E all \in Seq(Allowed) : Follows(p, all) /\ limited = <<"orgMatch">> \o all
  <2>1. CASE HasLimit(p)
    <3>1. limited = scoped
      BY <1>6, <2>1
    <3>2. Len(rest) = Len(p) - (IF Says(p, "match", Len(p)) THEN 1 ELSE 0) + 0
      BY <1>0, <1>2
    <3> HIDE DEF limited
    <3> QED BY <1>2, <2>1, <3>1, <3>2 DEF Follows
  <2>2. CASE ~HasLimit(p)
    <3> DEFINE all == Append(rest, "limit")
    <3>0. limited = Append(scoped, "limit")
      BY <1>6, <2>2
    <3>1. "limit" \in Allowed
      BY DEF Allowed, PipelineStage
    <3>2. /\ all \in Seq(Allowed) /\ Len(all) = Len(rest) + 1 /\ all[Len(rest) + 1] = "limit"
          /\ \A i \in 1..Len(rest) : all[i] = rest[i]
      BY <3>1
    <3>3. Append(scoped, "limit") = <<"orgMatch">> \o all
      BY <1>2
    <3> HIDE DEF all, limited
    <3>4. HasLimit(all)
      BY <1>0, <3>2 DEF HasLimit
    <3>5. KeepsOrder(p, all)
      <4>1. ASSUME NEW i \in 1..Len(p), ~Says(p, "match", i) PROVE i <= Len(all) /\ all[i] = p[i]
        <5>1. i <= Len(rest) /\ rest[i] = p[i]
          BY <1>2, <4>1 DEF KeepsOrder
        <5>2. i \in 1..Len(rest) /\ i <= Len(all)
          BY <1>0, <3>2, <5>1
        <5> QED BY <3>2, <5>1, <5>2
      <4>2. ASSUME NEW i \in 1..Len(p), Says(p, "match", i - 1)
            PROVE  i - 1 \in 1..Len(all) /\ all[i - 1] = p[i]
        <5>1. i - 1 \in 1..Len(rest) /\ rest[i - 1] = p[i]
          BY <1>2, <4>2 DEF KeepsOrder
        <5>2. i - 1 \in 1..Len(all)
          BY <1>0, <3>2, <5>1
        <5> QED BY <3>2, <5>1, <5>2
      <4> QED BY <4>1, <4>2 DEF KeepsOrder
    <3>6. Len(all) = Len(p) - (IF Says(p, "match", Len(p)) THEN 1 ELSE 0) + 1
      BY <1>0, <1>2, <3>2
    <3> QED BY <2>2, <3>0, <3>2, <3>3, <3>4, <3>5, <3>6 DEF Follows
  <2> QED BY <2>1, <2>2
<1> HIDE DEF limited
<1>4. PICK all \in Seq(Allowed) : Follows(p, all) /\ limited = <<"orgMatch">> \o all
  BY <1>3
<1>5. Prefixed(InsertAt(limited, 2, "unset"), all)
  <2> DEFINE Stage == Allowed \cup {"orgMatch", "unset"}
             front == SubSeq(limited, 1, 1)
             back == SubSeq(limited, 2, Len(limited))
  <2>1. /\ limited \in Seq(Stage) /\ all \in Seq(Stage) /\ <<"unset">> \in Seq(Stage)
        /\ Len(limited) = Len(all) + 1 /\ limited[1] = "orgMatch" /\ Len(all) \in Nat
        /\ \A i \in 1..Len(all) : limited[i + 1] = all[i]
    <3>1. all \in Seq(Stage) /\ <<"orgMatch">> \in Seq(Stage) /\ <<"unset">> \in Seq(Stage)
      OBVIOUS
    <3> HIDE DEF Stage
    <3> QED BY <1>4, <3>1
  <2> HIDE DEF Stage
  <2>2. front \in Seq(Stage) /\ Len(front) = 1 /\ front[1] = "orgMatch"
    BY <2>1
  <2>3. /\ back \in Seq(Stage) /\ Len(back) = Len(all)
        /\ \A i \in 1..Len(all) : back[i] = all[i]
    BY <2>1
  <2>4. InsertAt(limited, 2, "unset") = front \o <<"unset">> \o back
    BY DEF InsertAt
  <2> HIDE DEF front, back
  <2> DEFINE two == front \o <<"unset">>
  <2>5. two \in Seq(Stage) /\ Len(two) = 2 /\ two[1] = "orgMatch" /\ two[2] = "unset"
    <3> DEFINE u == <<"unset">>
    <3>1. u \in Seq(Stage) /\ Len(u) = 1 /\ u[1] = "unset"
      BY <2>1
    <3> HIDE DEF u
    <3> DEFINE v == front \o u
    <3>2. /\ v \in Seq(Stage) /\ Len(v) = Len(front) + Len(u)
          /\ \A i \in 1..Len(front) + Len(u) :
                v[i] = IF i <= Len(front) THEN front[i] ELSE u[i - Len(front)]
      BY <2>2, <3>1, ConcatProperties
    <3> HIDE DEF v
    <3>3. v \in Seq(Stage) /\ Len(v) = 2 /\ v[1] = front[1] /\ v[2] = u[1]
      BY <2>2, <3>1, <3>2
    <3> QED BY <2>2, <3>1, <3>3 DEF u, v
  <2> HIDE DEF two
  <2> DEFINE q == two \o back
  <2>6. /\ Len(q) = Len(all) + 2 /\ q[1] = "orgMatch" /\ q[2] = "unset"
        /\ \A i \in 1..Len(all) : q[i + 2] = back[i]
    <3>0. two \in Seq(Stage) /\ back \in Seq(Stage)
      BY <2>3, <2>5
    <3>1. /\ Len(q) = Len(two) + Len(back)
          /\ \A i \in 1..Len(two) + Len(back) :
                q[i] = IF i <= Len(two) THEN two[i] ELSE back[i - Len(two)]
      BY <3>0, ConcatProperties
    <3> HIDE DEF q
    <3>2. ASSUME NEW i \in 1..Len(all) PROVE q[i + 2] = back[i]
      <4>1. i + 2 \in 1..2 + Len(all) /\ ~(i + 2 <= 2) /\ (i + 2) - 2 = i
        BY <2>1
      <4> QED BY <2>3, <2>5, <3>1, <4>1
    <3>3. Len(q) = Len(all) + 2 /\ q[1] = two[1] /\ q[2] = two[2]
      BY <2>1, <2>3, <2>5, <3>1
    <3> QED BY <2>5, <3>2, <3>3
  <2> QED BY <2>3, <2>4, <2>6 DEF Prefixed, two
<1> QED BY <1>1, <1>4, <1>5

Scope(said, q) ==
    /\ q[1] = "orgMatch" /\ q[2] = "unset"
    /\ \E i \in 3..Len(q) : q[i] = "limit"
    /\ \A i \in 3..Len(q) : q[i] \in Allowed
    /\ \A i \in 1..Len(said) : ~Says(said, "match", i) => q[i + 2] = said[i]
    /\ \A i \in 1..Len(said) : Says(said, "match", i - 1) => q[i + 1] = said[i]
    /\ Len(q) = Len(said) + (IF Says(said, "match", Len(said)) THEN 1 ELSE 2)
                          + (IF Says(said, "limit", Len(said)) THEN 0 ELSE 1)

\* For any pipeline that is not refused, of any length.
LEMMA SanitizedScoped ==
    ASSUME NEW p \in SeqOf(PipelineStage, MaxStages), ~PipelineRefused(p)
    PROVE  Scope(p, Sanitized(p))
<1>1. p \in Seq(Allowed)
  <2>1. PICK m \in 0..MaxStages : p \in [1..m -> PipelineStage]
    BY DEF SeqOf
  <2>2. \A i \in 1..m : p[i] \in Allowed
    BY <2>1 DEF PipelineRefused, Allowed
  <2>3. m \in Nat
    BY <2>1, ChatAssumption
  <2> QED BY <2>1, <2>2, <2>3
<1>2. PICK rest \in Seq(Allowed) : Follows(p, rest) /\ Prefixed(Sanitized(p), rest)
  BY <1>1, SanitizedStages
<1> DEFINE q == Sanitized(p)
<1>3. /\ Len(q) = Len(rest) + 2 /\ q[1] = "orgMatch" /\ q[2] = "unset"
      /\ \A i \in 1..Len(rest) : q[i + 2] = rest[i]
  BY <1>2 DEF Prefixed
<1>4. Len(rest) \in Nat /\ Len(p) \in Nat
  BY <1>1
<1> HIDE DEF q
<1>5. PICK k \in 1..Len(rest) : rest[k] = "limit"
  BY <1>2 DEF Follows, HasLimit
<1>6. k + 2 \in 3..Len(q) /\ q[k + 2] = "limit"
  BY <1>3, <1>4, <1>5
<1>7. ASSUME NEW i \in 3..Len(q) PROVE q[i] \in Allowed
  <2>1. i - 2 \in 1..Len(rest) /\ (i - 2) + 2 = i
    BY <1>3, <1>4
  <2>2. rest[i - 2] \in Allowed
    BY <2>1
  <2> QED BY <1>3, <2>1, <2>2
<1>8. ASSUME NEW i \in 1..Len(p), ~Says(p, "match", i) PROVE q[i + 2] = p[i]
  <2>1. i <= Len(rest) /\ rest[i] = p[i]
    BY <1>2, <1>8 DEF Follows, KeepsOrder
  <2>2. i \in 1..Len(rest)
    BY <1>4, <2>1
  <2> QED BY <1>3, <2>1, <2>2
<1>9. ASSUME NEW i \in 1..Len(p), Says(p, "match", i - 1) PROVE q[i + 1] = p[i]
  <2>1. i - 1 \in 1..Len(rest) /\ rest[i - 1] = p[i]
    BY <1>2, <1>9 DEF Follows, KeepsOrder
  <2>2. (i - 1) + 2 = i + 1
    BY <1>4
  <2> QED BY <1>3, <2>1, <2>2
<1>10. HasLimit(p) <=> Says(p, "limit", Len(p))
  BY DEF HasLimit, Says
<1>11. Len(q) = Len(p) + (IF Says(p, "match", Len(p)) THEN 1 ELSE 2)
                       + (IF Says(p, "limit", Len(p)) THEN 0 ELSE 1)
  <2> DEFINE matched == Says(p, "match", Len(p))
             limited == Says(p, "limit", Len(p))
  <2>1. Len(rest) = Len(p) - (IF matched THEN 1 ELSE 0) + (IF HasLimit(p) THEN 0 ELSE 1)
    BY <1>2 DEF Follows
  <2>2. HasLimit(p) <=> limited
    BY <1>10
  <2> HIDE DEF matched, limited
  <2>3. CASE matched
    BY <1>3, <1>4, <2>1, <2>2, <2>3 DEF matched, limited
  <2>4. CASE ~matched
    BY <1>3, <1>4, <2>1, <2>2, <2>4 DEF matched, limited
  <2> QED BY <2>3, <2>4
<1> QED BY <1>3, <1>6, <1>7, <1>8, <1>9, <1>11 DEF Scope, q

QuestionTyped ==
    question = [at |-> question.at, no |-> question.no, sentTo |-> question.sentTo,
                conversation |-> question.conversation, seen |-> question.seen,
                said |-> question.said, pipeline |-> question.pipeline]

ScopeInv == QuestionTyped /\ (question.at = "queried" => Scope(question.said, question.pipeline))

LEMMA ScopeKept ==
    ASSUME ScopeInv, [ChatNext]_chatVars
    PROVE  ScopeInv'
<1> USE DEF ScopeInv, QuestionTyped
<1>1. CASE Ask
  BY <1>1 DEF Ask, NoQuestion
<1>2. CASE Query
  <2>0. PICK c \in IF question.sentTo = {} THEN Conversation \ (DOMAIN stored \cup listed)
                  ELSE question.sentTo :
        \E p \in SeqOf(PipelineStage, MaxStages) :
           IF PipelineRefused(p)
           THEN question' = [question EXCEPT !.at = "refused"]
           ELSE question' = [question EXCEPT !.at = "queried", !.conversation = {c},
                               !.seen = {History(c)[i].no : i \in DOMAIN History(c)},
                               !.said = p, !.pipeline = Sanitized(p)]
    BY <1>2 DEF Query
  <2>1. PICK p \in SeqOf(PipelineStage, MaxStages) :
           IF PipelineRefused(p)
           THEN question' = [question EXCEPT !.at = "refused"]
           ELSE question' = [question EXCEPT !.at = "queried", !.conversation = {c},
                               !.seen = {History(c)[i].no : i \in DOMAIN History(c)},
                               !.said = p, !.pipeline = Sanitized(p)]
    BY <2>0
  <2>2. CASE PipelineRefused(p)
    BY <2>1, <2>2
  <2>3. CASE ~PipelineRefused(p)
    <3> DEFINE of == {c}
               seen == {History(c)[i].no : i \in DOMAIN History(c)}
               q == Sanitized(p)
    <3>1. Scope(p, q)
      BY <2>3, SanitizedScoped
    <3>2. question' = [question EXCEPT !.at = "queried", !.conversation = of,
                                       !.seen = seen, !.said = p, !.pipeline = q]
      BY <2>1, <2>3
    <3> HIDE DEF of, seen, q
    <3>3. question' = [at |-> "queried", no |-> question.no, sentTo |-> question.sentTo,
                       conversation |-> of, seen |-> seen, said |-> p, pipeline |-> q]
      BY <3>2
    <3> QED BY <3>1, <3>3
  <2> QED BY <2>2, <2>3
<1>3. CASE StoreTurn \/ QueryFails \/ AnswerLost
  BY <1>3 DEF StoreTurn, QueryFails, AnswerLost
<1>4. CASE ShowAnswer \/ ShowRefusal
  BY <1>4 DEF ShowAnswer, ShowRefusal, NoQuestion
<1>5. CASE /\ ~ (Ask \/ Query \/ StoreTurn \/ QueryFails \/ AnswerLost \/ ShowAnswer \/ ShowRefusal)
           /\ [ChatNext]_chatVars
  <2>1. UNCHANGED question
    BY <1>5 DEF ChatNext, StartNewChat, Select, ServeConversation, OpeningFails,
                ShowConversation, DeleteConversation, chatVars
  <2> QED BY <2>1
<1> QED BY <1>1, <1>2, <1>3, <1>4, <1>5

\* PipelineScoped in every state, for pipelines of any length: whatever the model wrote,
\* what runs is matched with the organization first, redacted next, and limited, and the
\* other stages of the model follow in their order, none lost (chat-sanitizer.ts).
THEOREM PipelinesAreScoped == ChatSpec => []PipelineScoped
<1>1. ChatInit => ScopeInv
  BY DEF ChatInit, NoQuestion, ScopeInv, QuestionTyped
<1>2. ScopeInv => PipelineScoped
  BY DEF ScopeInv, Scope, Says, Allowed, PipelineScoped
<1> QED BY <1>1, <1>2, ScopeKept, PTL DEF ChatSpec

Pending == question.at \in {"sent", "queried", "refused"}
Single(S) == \E c \in Conversation : S = {c}
AtMostOne(S) == S = {} \/ Single(S)

ChatTyped ==
    /\ DOMAIN stored \subseteq Conversation
    /\ stored \in [DOMAIN stored -> Seq(Entry)]
    /\ listed \subseteq Conversation
    /\ shown \in [conversation : SUBSET Conversation, messages : Seq(Entry)]
    /\ AtMostOne(shown.conversation)
    /\ DOMAIN question = {"at", "no", "sentTo", "conversation", "seen", "said", "pipeline"}
    /\ question.at \in {"idle", "sent", "queried", "stored", "lost", "refused"}
    /\ question.at # "idle" => asked > 0 /\ question.no = asked
    /\ AtMostOne(question.sentTo) /\ AtMostOne(question.conversation)
    /\ question.at \in {"queried", "stored"} => Single(question.conversation)
    /\ question.seen \subseteq 1..MaxQuestions
    /\ opening \in [at : {"idle", "asked", "found", "failed"}, conversation : SUBSET Conversation,
                    history : Seq(Entry)]
    /\ opening.at # "idle" => Single(opening.conversation)
    /\ asked \in 0..MaxQuestions /\ visits \in 0..MaxVisits
    /\ unstored \subseteq 1..asked /\ missed \subseteq 1..asked /\ mixed \in BOOLEAN

\* The questions that may have been stored.
Storable == {n \in (1..asked) \ unstored : Pending => n # asked}

\* Questions and answers in turn.
Whole(turns, nos) ==
    /\ Len(turns) % 2 = 0
    /\ \A i \in 1..Len(turns) :
            /\ turns[i].kind = IF i % 2 = 1 THEN "user" ELSE "answer"
            /\ turns[i].no \in nos

Turns ==
    /\ \A c \in DOMAIN stored : Whole(stored[c], Storable)
    /\ Whole(opening.history, Storable)

\* The question under way is about the conversation of the page if the page waits, and
\* if it is the first of a conversation, nobody knows that conversation.
Addressed ==
    /\ Pending => asked \notin unstored /\ asked \notin missed
    /\ question.at \in {"queried", "stored"} /\ question.sentTo # {}
            => question.conversation = question.sentTo
    /\ question.at = "queried" /\ question.sentTo = {}
            => question.conversation \cap DOMAIN stored = {}
    /\ question.at \in {"queried", "stored"} /\ question.sentTo = {}
            => question.conversation \cap listed = {}
    /\ Waits => question.at # "idle" /\ opening.at = "idle" /\ question.sentTo = shown.conversation
    /\ \A i \in 1..Len(shown.messages) : shown.messages[i].kind = "answer" =>
            shown.messages[i].no \in 1..asked /\ (Pending => shown.messages[i].no # asked)

Counts(dropped) == {m \in Entry : m.kind = "answer" /\ m.no \notin dropped}
Retained(turns) == Sifted(turns, Counts(unstored))
Recalled(turns) == Sifted(turns, Counts(missed))

\* The answers of the page are those stored, but for the one that was just stored.
Paired ==
    ~mixed =>
        /\ shown.conversation = {} => Retained(shown.messages) = << >>
        /\ opening.at = "idle" /\ question.at # "stored" =>
                \A c \in shown.conversation : Retained(shown.messages) = Recalled(History(c))
        /\ opening.at = "idle" /\ question.at = "stored" =>
                \A c \in shown.conversation :
                    \/ Recalled(History(c)) = Retained(shown.messages)
                    \/ /\ Recalled(History(c)) = Append(Retained(shown.messages), Answered(asked))
                       /\ asked \notin unstored /\ ~ShowsAnswer(asked)
        /\ question.at = "stored" /\ Waits =>
                \A c \in question.conversation :
                    Recalled(History(c)) =
                        IF asked \in unstored THEN Retained(shown.messages)
                        ELSE Append(Retained(shown.messages), Answered(asked))

ChatInv == ChatTyped /\ Turns /\ Addressed /\ Paired

----------------------------------------------------------------------------
LEMMA Spoken ==
    ASSUME ChatTyped, asked > 0
    PROVE  /\ UserSaid(asked) \in Entry /\ Waiting(asked) \in Entry /\ Answered(asked) \in Entry
           /\ Error \in Entry
BY ChatAssumption DEF ChatTyped, UserSaid, Waiting, Answered, Error, Entry

LEMMA NotWaitingKeeps ==
    ASSUME NEW s \in Seq(Entry), NEW dropped
    PROVE  /\ NotWaiting(s) \in Seq(Entry)
           /\ \A i \in 1..Len(NotWaiting(s)) :
                /\ NotWaiting(s)[i].kind # "waiting"
                /\ \E j \in 1..Len(s) : s[j] = NotWaiting(s)[i]
           /\ Sifted(NotWaiting(s), Counts(dropped)) = Sifted(s, Counts(dropped))
<1> DEFINE keep == {m \in Entry : m.kind # "waiting"}
<1>1. NotWaiting(s) = Sifted(s, keep)
  BY DEF NotWaiting
<1>2. Sifted(s, keep) \in Seq(Entry \cap keep)
  BY SiftedType
<1>3. Sifted(s, keep) \in Seq(Entry)
  BY <1>2, SeqMonotonic
<1>4. ASSUME NEW i \in 1..Len(Sifted(s, keep))
      PROVE  Sifted(s, keep)[i].kind # "waiting" /\ \E j \in 1..Len(s) : s[j] = Sifted(s, keep)[i]
  <2>1. Sifted(s, keep)[i] \in keep
    BY <1>2, ElementOfSeq
  <2>2. Sifted(s, keep)[i].kind # "waiting"
    BY <2>1
  <2> HIDE DEF keep
  <2>3. \E j \in 1..Len(s) : s[j] = Sifted(s, keep)[i]
    BY SiftedFrom
  <2> QED BY <2>2, <2>3
<1>5. keep \cap Counts(dropped) = Counts(dropped)
  BY DEF Counts
<1>6. Sifted(Sifted(s, keep), Counts(dropped)) = Sifted(s, keep \cap Counts(dropped))
  BY SiftedTwice
<1> HIDE DEF keep
<1> QED BY <1>1, <1>3, <1>4, <1>5, <1>6

LEMMA WholeAnswers ==
    ASSUME NEW turns \in Seq(Entry), NEW some, NEW others,
           \A i \in 1..Len(turns) : turns[i].no \notin some /\ turns[i].no \notin others
    PROVE  Sifted(turns, Counts(some)) = Sifted(turns, Counts(others))
<1>1. \A i \in 1..Len(turns) : turns[i] \in Entry
  BY ElementOfSeq
<1>2. \A i \in 1..Len(turns) : turns[i] \in Counts(some) <=> turns[i] \in Counts(others)
  BY <1>1 DEF Counts
<1> QED BY <1>2, SiftedAlike

\* An answer that was not shown may be lost without harm.
LEMMA OthersCount ==
    ASSUME NEW turns \in Seq(Entry), NEW n,
           \A i \in 1..Len(turns) : turns[i].kind = "answer" => turns[i].no # n
    PROVE  Sifted(turns, Counts(unstored \cup {n})) = Retained(turns)
<1>1. \A i \in 1..Len(turns) : turns[i] \in Entry
  BY ElementOfSeq
<1>2. \A i \in 1..Len(turns) : turns[i] \in Counts(unstored \cup {n}) <=> turns[i] \in Counts(unstored)
  BY <1>1 DEF Counts
<1>3. Sifted(turns, Counts(unstored \cup {n})) = Sifted(turns, Counts(unstored))
  BY <1>2, SiftedAlike
<1> QED BY <1>3 DEF Retained

\* With one more number dropped, that answer is taken out.
LEMMA OneDropped ==
    ASSUME NEW turns \in Seq(Entry), NEW dropped, NEW n
    PROVE  Sifted(turns, Counts(dropped \cup {n})) = Sifted(Sifted(turns, Counts(dropped)), Counts({n}))
<1> DEFINE keep == Counts(dropped)
           again == Counts({n})
<1>1. keep \cap again = Counts(dropped \cup {n})
  BY DEF Counts
<1> HIDE DEF keep, again
<1>2. Sifted(Sifted(turns, keep), again) = Sifted(turns, keep \cap again)
  BY SiftedTwice
<1> QED BY <1>1, <1>2 DEF keep, again

LEMMA AnswersAppended ==
    ASSUME NEW turns \in Seq(Entry), NEW e \in Entry
    PROVE  /\ Append(turns, e) \in Seq(Entry)
           /\ Retained(Append(turns, e)) =
                  IF e.kind = "answer" /\ e.no \notin unstored
                  THEN Append(Retained(turns), e) ELSE Retained(turns)
           /\ Recalled(Append(turns, e)) =
                  IF e.kind = "answer" /\ e.no \notin missed
                  THEN Append(Recalled(turns), e) ELSE Recalled(turns)
<1>1. Append(turns, e) \in Seq(Entry)
  BY AppendProperties
<1>2. \A dropped : e \in Counts(dropped) <=> e.kind = "answer" /\ e.no \notin dropped
  BY DEF Counts
<1>3. \A keep : Sifted(Append(turns, e), keep) =
                    IF e \in keep THEN Append(Sifted(turns, keep), e) ELSE Sifted(turns, keep)
  BY SiftedAppend
<1>4. Sifted(Append(turns, e), Counts(unstored)) =
          IF e \in Counts(unstored) THEN Append(Sifted(turns, Counts(unstored)), e)
          ELSE Sifted(turns, Counts(unstored))
  BY <1>3
<1>5. Sifted(Append(turns, e), Counts(missed)) =
          IF e \in Counts(missed) THEN Append(Sifted(turns, Counts(missed)), e)
          ELSE Sifted(turns, Counts(missed))
  BY <1>3
<1> QED BY <1>1, <1>2, <1>4, <1>5 DEF Retained, Recalled

LEMMA NothingAnswered == Retained(<< >>) = << >> /\ Recalled(<< >>) = << >> /\ NotWaiting(<< >>) = << >>
BY SiftedEmpty DEF Retained, Recalled, NotWaiting

LEMMA HistoryType ==
    ASSUME ChatTyped, Turns, NEW c
    PROVE  History(c) \in Seq(Entry) /\ Whole(History(c), Storable)
<1>1. CASE c \in DOMAIN stored
  <2>1. stored[c] \in Seq(Entry)
    BY <1>1 DEF ChatTyped
  <2> QED BY <1>1, <2>1 DEF Turns, History
<1>2. CASE c \notin DOMAIN stored
  <2>1. << >> \in Seq(Entry) /\ Len(<< >>) = 0
    BY EmptySeq
  <2>2. \A i \in 1..0 : FALSE
    OBVIOUS
  <2>3. Whole(<< >>, Storable)
    BY <2>1, <2>2 DEF Whole
  <2> QED BY <1>2, <2>1, <2>3 DEF History
<1> QED BY <1>1, <1>2

LEMMA ChatStarts == ChatInit => ChatInv
<1> SUFFICES ASSUME ChatInit PROVE ChatInv
  OBVIOUS
<1> USE ChatAssumption DEF ChatInit, NewChat, NoQuestion, NoOpening
<1>0. << >> \in Seq(Entry) /\ Len(<< >>) = 0 /\ DOMAIN stored = {} /\ \A i \in 1..0 : FALSE
  BY EmptySeq
<1>1. ChatTyped
  <2>1. stored \in [DOMAIN stored -> Seq(Entry)]
    BY <1>0
  <2>2. DOMAIN question = {"at", "no", "sentTo", "conversation", "seen", "said", "pipeline"}
    OBVIOUS
  <2>3. shown \in [conversation : SUBSET Conversation, messages : Seq(Entry)]
    BY <1>0
  <2>4. opening \in [at : {"idle", "asked", "found", "failed"}, conversation : SUBSET Conversation,
                    history : Seq(Entry)]
    BY <1>0
  <2>5. question.at = "idle" /\ question.sentTo = {} /\ question.conversation = {} /\ question.seen = {}
        /\ opening.at = "idle" /\ shown.conversation = {}
    OBVIOUS
  <2>7. listed \subseteq Conversation /\ DOMAIN stored \subseteq Conversation /\ asked = 0
        /\ unstored \subseteq 1..asked /\ missed \subseteq 1..asked /\ mixed \in BOOLEAN
    BY <1>0
  <2>8. visits \in 0..MaxVisits
    OBVIOUS
  <2>9. asked \in 0..MaxQuestions
    OBVIOUS
  <2> HIDE DEF NoQuestion, NoOpening, NewChat, ChatInit
  <2> QED BY <2>1, <2>3, <2>4, <2>5, <2>2, <2>7, <2>8, <2>9 DEF ChatTyped, AtMostOne
<1>2. Turns
  BY <1>0 DEF Turns, Whole
<1>3. Addressed
  BY <1>0 DEF Addressed, Pending, Waits
<1>4. Paired
  BY NothingAnswered DEF Paired
<1> QED BY <1>1, <1>2, <1>3, <1>4 DEF ChatInv

LEMMA TwoAppended ==
    ASSUME NEW S, NEW s \in Seq(S), NEW x \in S, NEW y \in S
    PROVE  s \o <<x, y>> = Append(Append(s, x), y)
<1>1. <<x, y>> \in Seq(S) /\ Len(<<x, y>>) = 2 /\ <<x, y>>[1] = x /\ <<x, y>>[2] = y
  OBVIOUS
<1>2. s \o <<x, y>> \in Seq(S) /\ Len(s \o <<x, y>>) = Len(s) + 2 /\ Len(s) \in Nat
  BY <1>1, ConcatProperties, LenProperties
<1>3. \A i \in 1..(Len(s) + 2) : (s \o <<x, y>>)[i] = IF i <= Len(s) THEN s[i] ELSE <<x, y>>[i - Len(s)]
  BY <1>1, ConcatProperties
<1> DEFINE t == Append(Append(s, x), y)
<1>4. Append(s, x) \in Seq(S) /\ Len(Append(s, x)) = Len(s) + 1 /\ Append(s, x)[Len(s) + 1] = x
      /\ \A i \in 1..Len(s) : Append(s, x)[i] = s[i]
  BY AppendProperties
<1>5. t \in Seq(S) /\ Len(t) = Len(s) + 2 /\ t[Len(s) + 2] = y /\ \A i \in 1..(Len(s) + 1) : t[i] = Append(s, x)[i]
  BY <1>2, <1>4, AppendProperties
<1> HIDE DEF t
<1>6. \A i \in 1..(Len(s) + 2) : (s \o <<x, y>>)[i] = t[i]
  <2> TAKE i \in 1..(Len(s) + 2)
  <2>1. CASE i <= Len(s)
    BY <1>2, <1>3, <1>4, <1>5, <2>1
  <2>2. CASE i = Len(s) + 1
    BY <1>1, <1>2, <1>3, <1>4, <1>5, <2>2
  <2>3. CASE i = Len(s) + 2
    BY <1>1, <1>2, <1>3, <1>5, <2>3
  <2> QED BY <1>2, <2>1, <2>2, <2>3
<1>7. s \o <<x, y>> = t
  BY <1>2, <1>5, <1>6, SeqEqual
<1> QED BY <1>7 DEF t

LEMMA WholeStays ==
    ASSUME NEW turns, NEW nos, NEW more, Whole(turns, nos), nos \subseteq more
    PROVE  Whole(turns, more)
BY DEF Whole

LEMMA AskKeeps == ASSUME ChatInv, Ask PROVE ChatInv'
<1> USE DEF ChatInv, Ask
<1> DEFINE m == shown.messages
           m2 == Append(Append(m, UserSaid(asked')), Waiting(asked'))
<1>1. /\ asked' \in 1..MaxQuestions /\ asked' = asked + 1 /\ asked \in Nat /\ asked' \in Nat
      /\ UserSaid(asked') \in Entry /\ Waiting(asked') \in Entry
      /\ UserSaid(asked').kind = "user" /\ Waiting(asked').kind = "waiting"
  BY ChatAssumption DEF ChatTyped, UserSaid, Waiting, Entry
<1>2. m \in Seq(Entry) /\ Append(m, UserSaid(asked')) \in Seq(Entry) /\ m2 \in Seq(Entry)
      /\ Len(m) \in Nat
  BY <1>1, AppendProperties, LenProperties DEF ChatTyped
<1>3. shown' = [shown EXCEPT !.messages = m2] /\ shown.conversation' = shown.conversation
      /\ shown.messages' = m2
  <2>1. m \o <<UserSaid(asked'), Waiting(asked')>> = m2
    <3>1. \A s \in Seq(Entry) : \A x, y \in Entry : s \o <<x, y>> = Append(Append(s, x), y)
      BY TwoAppended
    <3>2. m \in Seq(Entry) /\ UserSaid(asked') \in Entry /\ Waiting(asked') \in Entry
      BY <1>1, <1>2
    <3> QED BY <3>1, <3>2, ZenonT(30)
  <2>2. shown' = [shown EXCEPT !.messages = m2]
    BY <2>1
  <2> HIDE DEF m2
  <2> QED BY <2>2 DEF ChatTyped
<1>4. /\ question' = [at |-> "sent", no |-> asked', sentTo |-> shown.conversation, conversation |-> {},
                      seen |-> {}, said |-> << >>, pipeline |-> << >>]
      /\ question.at = "idle" /\ opening.at = "idle"
  BY DEF NoQuestion, Quiet
<1> HIDE DEF m2
<1>5. ChatTyped'
  <2>1. stored' \in [DOMAIN stored' -> Seq(Entry)] /\ DOMAIN stored' \subseteq Conversation
    BY DEF ChatTyped
  <2>2. shown' \in [conversation : SUBSET Conversation, messages : Seq(Entry)]
        /\ AtMostOne(shown'.conversation)
    BY <1>2, <1>3 DEF ChatTyped, AtMostOne, Single
  <2>6. DOMAIN question' = {"at", "no", "sentTo", "conversation", "seen", "said", "pipeline"}
    BY <1>4
  <2>3. /\ question'.at = "sent" /\ question'.no = asked' /\ question'.conversation = {}
        /\ question'.sentTo = shown.conversation /\ question'.seen = {}
    BY <1>4 DEF NoQuestion
  <2>4. opening' = opening /\ opening.at = "idle"
    BY <1>4
  <2>5. unstored' \subseteq 1..asked' /\ missed' \subseteq 1..asked' /\ mixed' \in BOOLEAN /\ visits' \in 0..MaxVisits
        /\ listed' \subseteq Conversation /\ asked' \in 0..MaxQuestions /\ asked' > 0
    BY <1>1 DEF ChatTyped
  <2> QED BY <1>3, <2>1, <2>2, <2>3, <2>4, <2>5, <2>6 DEF ChatTyped, AtMostOne, Single
<1>6. Turns'
  <2>1. Storable \subseteq Storable'
    BY <1>1, <1>4 DEF Storable, Pending, ChatTyped
  <2> QED BY <2>1, WholeStays DEF Turns
<1>7. Addressed'
  <2>1. Len(m2) = Len(m) + 2 /\ m2[Len(m) + 1] = UserSaid(asked') /\ m2[Len(m) + 2] = Waiting(asked')
        /\ \A i \in 1..Len(m) : m2[i] = m[i]
    BY <1>1, <1>2, AppendProperties DEF m2
  <2>2. \A i \in 1..Len(m2) : m2[i].kind = "answer" => m2[i].no \in 1..asked
    <3> TAKE i \in 1..Len(m2)
    <3>1. i \in 1..Len(m) \/ i = Len(m) + 1 \/ i = Len(m) + 2
      BY <1>2, <2>1
    <3> QED BY <1>1, <2>1, <3>1 DEF Addressed
  <2>3. \A i \in 1..Len(m2) : m2[i].kind = "answer" => m2[i].no \in 1..asked' /\ m2[i].no # asked'
    BY <1>1, <2>2
  <2>4. asked' \notin unstored' /\ asked' \notin missed'
    BY <1>1 DEF ChatTyped
  <2> QED BY <1>3, <1>4, <2>3, <2>4 DEF Addressed
<1>8. Paired'
  <2>1. Retained(m2) = Retained(m)
    BY <1>1, <1>2, AnswersAppended DEF m2
  <2>2. Retained(shown.messages)' = Retained(m)
    BY <1>3, <2>1 DEF Retained
  <2>3. \A c : Recalled(History(c))' = Recalled(History(c))
    BY DEF History, Recalled
  <2> QED BY <1>3, <1>4, <2>2, <2>3 DEF Paired
<1> QED BY <1>5, <1>6, <1>7, <1>8

LEMMA QueryKeeps == ASSUME ChatInv, Query PROVE ChatInv'
<1> USE DEF ChatInv
<1>0. /\ UNCHANGED <<stored, listed, shown, opening, asked, visits, unstored, missed, mixed>>
      /\ question.at = "sent" /\ asked > 0 /\ question.no = asked /\ asked \in Nat
  BY DEF Query, ChatTyped
<1>1. PICK c \in IF question.sentTo = {} THEN Conversation \ (DOMAIN stored \cup listed) ELSE question.sentTo :
        \/ question' = [question EXCEPT !.at = "refused"]
        \/ \E p : question' = [question EXCEPT !.at = "queried", !.conversation = {c},
                                  !.seen = {History(c)[i].no : i \in DOMAIN History(c)},
                                  !.said = p, !.pipeline = Sanitized(p)]
  BY DEF Query
<1>2. c \in Conversation /\ (question.sentTo # {} => question.sentTo = {c})
      /\ (question.sentTo = {} => c \notin DOMAIN stored /\ c \notin listed)
  BY <1>1 DEF ChatTyped, AtMostOne, Single
<1>3. /\ DOMAIN question' = DOMAIN question /\ question'.at \in {"refused", "queried"}
      /\ question'.no = asked /\ question'.sentTo = question.sentTo
      /\ question'.at = "queried" => question'.conversation = {c}
      /\ question'.conversation = {c} \/ question'.conversation = question.conversation
  BY <1>0, <1>1 DEF ChatTyped
<1>4. question'.seen \subseteq 1..MaxQuestions
  <2>1. History(c) \in Seq(Entry) /\ Whole(History(c), Storable)
    BY HistoryType
  <2>2. \A i \in DOMAIN History(c) : History(c)[i].no \in 1..asked
    BY <2>1, LenProperties DEF Whole, Storable
  <2>3. {History(c)[i].no : i \in DOMAIN History(c)} \subseteq 1..MaxQuestions
    BY <2>2, ChatAssumption DEF ChatTyped
  <2> DEFINE seen == {History(c)[i].no : i \in DOMAIN History(c)}
  <2> HIDE DEF seen
  <2>4. question'.seen \in {question.seen, seen}
    BY <1>1 DEF ChatTyped, seen
  <2> QED BY <2>3, <2>4 DEF ChatTyped, seen
<1>5. ChatTyped'
  BY <1>0, <1>2, <1>3, <1>4 DEF ChatTyped, AtMostOne, Single
<1>6. Pending /\ Pending'
  BY <1>0, <1>3 DEF Pending
<1>7. Turns'
  BY <1>0, <1>6 DEF Turns, Storable
<1>8. Addressed'
  BY <1>0, <1>2, <1>3, <1>6 DEF Addressed, Waits
<1>9. Paired'
  <2>1. Retained(shown.messages)' = Retained(shown.messages)
    BY <1>0 DEF Retained
  <2>2. \A d : Recalled(History(d))' = Recalled(History(d))
    BY <1>0 DEF History, Recalled
  <2> QED BY <1>0, <1>3, <2>1, <2>2 DEF Paired
<1> QED BY <1>5, <1>7, <1>8, <1>9

LEMMA StoreTurnKeeps == ASSUME ChatInv, StoreTurn PROVE ChatInv'
<1> USE DEF ChatInv
<1>0. /\ UNCHANGED <<listed, shown, opening, asked, visits, missed, mixed>>
      /\ question.at = "queried" /\ asked > 0 /\ question.no = asked /\ asked \in Nat
      /\ question' = [question EXCEPT !.at = "stored"]
  BY DEF StoreTurn, ChatTyped
<1>1. PICK c \in question.conversation :
        \/ /\ stored' = With(History(c) \o <<UserSaid(question.no), Answered(question.no)>>, c)
           /\ UNCHANGED unstored
        \/ /\ unstored' = unstored \cup {question.no}
           /\ UNCHANGED stored
  BY DEF StoreTurn
<1>2. question.conversation = {c} /\ c \in Conversation
  BY <1>0, <1>1 DEF ChatTyped, Single
<1>3. /\ DOMAIN question' = DOMAIN question /\ question'.at = "stored" /\ question'.no = asked
      /\ question'.sentTo = question.sentTo /\ question'.conversation = question.conversation
      /\ question'.seen = question.seen
  BY <1>0 DEF ChatTyped
<1> DEFINE turns == History(c)
           more == Append(Append(turns, UserSaid(asked)), Answered(asked))
<1>4. turns \in Seq(Entry) /\ Whole(turns, Storable) /\ UserSaid(asked) \in Entry /\ Answered(asked) \in Entry
  BY <1>0, HistoryType, Spoken
<1>5. more \in Seq(Entry) /\ Append(turns, UserSaid(asked)) \in Seq(Entry)
      /\ turns \o <<UserSaid(question.no), Answered(question.no)>> = more
  BY <1>0, <1>4, AppendProperties, TwoAppended
<1>6. /\ Len(more) = Len(turns) + 2 /\ Len(turns) \in Nat
      /\ more[Len(turns) + 1] = UserSaid(asked) /\ more[Len(turns) + 2] = Answered(asked)
      /\ \A i \in 1..Len(turns) : more[i] = turns[i]
  BY <1>4, <1>5, AppendProperties, LenProperties
<1>7. /\ UserSaid(asked).kind = "user" /\ Answered(asked).kind = "answer"
      /\ UserSaid(asked).no = asked /\ Answered(asked).no = asked /\ Answered(asked) = Answered(question.no)
  BY <1>0 DEF UserSaid, Answered
<1>8. Pending /\ ~Pending' /\ asked \notin unstored
  BY <1>0, <1>3 DEF Pending, Addressed
<1> HIDE DEF turns, more
<1>9. \/ unstored' = unstored /\ DOMAIN stored' = DOMAIN stored \cup {c} /\ stored'[c] = more
         /\ stored' \in [DOMAIN stored' -> Seq(Entry)]
         /\ \A d \in DOMAIN stored \ {c} : stored'[d] = stored[d]
      \/ unstored' = unstored \cup {asked} /\ stored' = stored
  <2>1. CASE stored' = With(more, c) /\ unstored' = unstored
    <3>1. stored' = [d \in DOMAIN stored \cup {c} |-> IF d = c THEN more ELSE stored[d]]
      BY <2>1 DEF With
    <3> QED BY <1>5, <2>1, <3>1 DEF ChatTyped
  <2> QED BY <1>0, <1>1, <1>5, <2>1 DEF turns
<1>10. ChatTyped'
  <2>1. unstored' \subseteq 1..asked
    BY <1>0, <1>9 DEF ChatTyped
  <2>2. DOMAIN stored' \subseteq Conversation /\ stored' \in [DOMAIN stored' -> Seq(Entry)]
    BY <1>2, <1>9 DEF ChatTyped
  <2> QED BY <1>0, <1>2, <1>3, <2>1, <2>2 DEF ChatTyped, AtMostOne, Single
<1>11. Turns'
  <2>1. Storable \subseteq Storable'
    BY <1>0, <1>8, <1>9 DEF Storable
  <2>2. ASSUME unstored' = unstored PROVE Whole(more, Storable')
    <3>1. Whole(turns, Storable)
      BY <1>4
    <3>2. Len(more) % 2 = 0
      BY <1>6, <3>1 DEF Whole
    <3>3. asked \in Storable'
      BY <1>0, <1>8, <2>2 DEF Storable
    <3>4. ASSUME NEW i \in 1..Len(more)
          PROVE  more[i].kind = (IF i % 2 = 1 THEN "user" ELSE "answer") /\ more[i].no \in Storable'
      <4>1. CASE i \in 1..Len(turns)
        BY <1>6, <2>1, <3>1, <4>1 DEF Whole
      <4>2. CASE i = Len(turns) + 1
        <5>1. i % 2 = 1
          BY <1>6, <3>1, <4>2 DEF Whole
        <5> QED BY <1>6, <1>7, <3>3, <4>2, <5>1
      <4>3. CASE i = Len(turns) + 2
        <5>1. i % 2 = 0
          BY <1>6, <3>1, <4>3 DEF Whole
        <5> QED BY <1>6, <1>7, <3>3, <4>3, <5>1
      <4> QED BY <1>6, <4>1, <4>2, <4>3
    <3> QED BY <3>2, <3>4 DEF Whole
  <2>3. \A d \in DOMAIN stored' : Whole(stored'[d], Storable')
    BY <1>9, <2>1, <2>2, WholeStays DEF Turns
  <2>4. Whole(opening'.history, Storable')
    BY <1>0, <2>1, WholeStays DEF Turns
  <2> QED BY <2>3, <2>4 DEF Turns
<1>12. Addressed'
  BY <1>0, <1>2, <1>3, <1>8 DEF Addressed, Waits
<1>13. Retained(shown.messages)' = Retained(shown.messages)
  <2>1. CASE unstored' = unstored
    BY <1>0, <2>1 DEF Retained
  <2>2. CASE unstored' = unstored \cup {asked}
    <3>1. \A i \in 1..Len(shown.messages) : shown.messages[i].kind = "answer" => shown.messages[i].no # asked
      BY <1>8 DEF Addressed
    <3>2. Sifted(shown.messages, Counts(unstored \cup {asked})) = Retained(shown.messages)
      BY <3>1, OthersCount DEF ChatTyped
    <3> QED BY <1>0, <2>2, <3>2 DEF Retained
  <2> QED BY <1>9, <2>1, <2>2
<1>14. Recalled(more) = Append(Recalled(turns), Answered(asked))
  <2>1. Recalled(Append(turns, UserSaid(asked))) = Recalled(turns)
    BY <1>4, <1>7, AnswersAppended
  <2>2. asked \notin missed
    BY <1>8 DEF Addressed
  <2> QED BY <1>4, <1>5, <1>7, <2>1, <2>2, AnswersAppended DEF more
<1>15. /\ \A d : d # c => Recalled(History(d))' = Recalled(History(d))
       /\ Recalled(History(c))' = IF asked \in unstored' THEN Recalled(turns)
                                  ELSE Append(Recalled(turns), Answered(asked))
  <2>1. CASE unstored' = unstored /\ DOMAIN stored' = DOMAIN stored \cup {c} /\ stored'[c] = more
             /\ \A d \in DOMAIN stored \ {c} : stored'[d] = stored[d]
    <3>1. History(c)' = more /\ \A d : d # c => History(d)' = History(d)
      BY <2>1 DEF History
    <3>2. Recalled(History(c))' = Recalled(more)
      BY <1>0, <3>1 DEF Recalled
    <3>3. \A d : d # c => Recalled(History(d))' = Recalled(History(d))
      BY <1>0, <3>1 DEF Recalled
    <3>4. asked \notin unstored'
      BY <1>8, <2>1
    <3> QED BY <1>14, <3>2, <3>3, <3>4
  <2>2. CASE unstored' = unstored \cup {asked} /\ stored' = stored
    <3>1. \A d : Recalled(History(d))' = Recalled(History(d))
      BY <1>0, <2>2 DEF Recalled, History
    <3>2. asked \in unstored'
      BY <2>2
    <3> QED BY <3>1, <3>2 DEF turns
  <2> QED BY <1>9, <2>1, <2>2
<1>16. ~ShowsAnswer(asked) /\ ~ShowsAnswer(asked)'
  <2>1. ~ShowsAnswer(asked)
    BY <1>7, <1>8, LenProperties, SMTT(30) DEF Addressed, ShowsAnswer, ChatTyped
  <2> QED BY <1>0, <2>1 DEF ShowsAnswer
<1>17. Paired'
  <2> SUFFICES ASSUME ~mixed
               PROVE  /\ shown.conversation = {} => Retained(shown.messages) = << >>
                      /\ opening.at = "idle" => \A d \in shown.conversation :
                            \/ Recalled(History(d))' = Retained(shown.messages)
                            \/ /\ Recalled(History(d))' = Append(Retained(shown.messages), Answered(asked))
                               /\ asked \notin unstored'
                      /\ Waits => Recalled(History(c))' =
                                      IF asked \in unstored' THEN Retained(shown.messages)
                                      ELSE Append(Retained(shown.messages), Answered(asked))
    BY <1>0, <1>2, <1>3, <1>13, <1>16 DEF Paired, Waits
  <2>1. shown.conversation = {} => Retained(shown.messages) = << >>
    BY <1>0 DEF Paired
  <2>2. ASSUME Waits PROVE Retained(shown.messages) = Recalled(turns)
    <3>1. opening.at = "idle" /\ question.sentTo = shown.conversation
      BY <2>2 DEF Addressed
    <3>2. CASE shown.conversation = {}
      <4>1. turns = << >>
        BY <1>0, <1>2, <3>1, <3>2 DEF Addressed, turns, History
      <4> QED BY <2>1, <3>2, <4>1, NothingAnswered
    <3>3. CASE shown.conversation # {}
      <4>1. shown.conversation = {c}
        BY <1>0, <1>2, <3>1, <3>3 DEF Addressed
      <4> QED BY <1>0, <3>1, <4>1 DEF Paired, turns
    <3> QED BY <3>2, <3>3
  <2>3. ASSUME opening.at = "idle", NEW d \in shown.conversation
        PROVE  \/ Recalled(History(d))' = Retained(shown.messages)
               \/ /\ Recalled(History(d))' = Append(Retained(shown.messages), Answered(asked))
                  /\ asked \notin unstored'
    <3>1. Retained(shown.messages) = Recalled(History(d))
      BY <1>0, <2>3 DEF Paired
    <3>2. CASE d = c
      BY <1>15, <3>1, <3>2 DEF turns
    <3>3. CASE d # c
      BY <1>15, <3>1, <3>3
    <3> QED BY <3>2, <3>3
  <2>4. ASSUME Waits
        PROVE  Recalled(History(c))' = IF asked \in unstored' THEN Retained(shown.messages)
                                       ELSE Append(Retained(shown.messages), Answered(asked))
    BY <1>15, <2>2, <2>4
  <2> QED BY <2>1, <2>3, <2>4
<1> QED BY <1>10, <1>11, <1>12, <1>17

\* A step that leaves the page and what is stored alone.
LEMMA MatchingStays ==
    ASSUME UNCHANGED <<stored, shown, unstored, missed>>
    PROVE  /\ Retained(shown.messages)' = Retained(shown.messages)
           /\ \A d : Recalled(History(d))' = Recalled(History(d))
           /\ Waits' = Waits /\ \A n : ShowsAnswer(n)' = ShowsAnswer(n)
BY DEF Retained, Recalled, History, Waits, ShowsAnswer

LEMMA QueryFailsKeeps == ASSUME ChatInv, QueryFails PROVE ChatInv'
<1> USE DEF ChatInv
<1>0. /\ UNCHANGED <<stored, listed, shown, opening, asked, visits, unstored, missed, mixed>>
      /\ question.at = "queried" /\ question' = [question EXCEPT !.at = "refused"]
  BY DEF QueryFails
<1>1. /\ DOMAIN question' = DOMAIN question /\ question'.at = "refused"
      /\ question'.no = question.no /\ question'.sentTo = question.sentTo
      /\ question'.conversation = question.conversation /\ question'.seen = question.seen
  BY <1>0 DEF ChatTyped
<1>2. ChatTyped'
  BY <1>0, <1>1 DEF ChatTyped, AtMostOne, Single
<1>3. Pending /\ Pending'
  BY <1>0, <1>1 DEF Pending
<1>4. Turns'
  BY <1>0, <1>3 DEF Turns, Storable
<1>5. Addressed'
  BY <1>0, <1>1, <1>3 DEF Addressed, Waits
<1>6. Paired'
  BY <1>0, <1>1, MatchingStays DEF Paired
<1> QED BY <1>2, <1>4, <1>5, <1>6

LEMMA AnswerLostKeeps == ASSUME ChatInv, AnswerLost PROVE ChatInv'
<1> USE DEF ChatInv
<1>0. /\ UNCHANGED <<stored, listed, shown, opening, asked, visits, unstored, mixed>>
      /\ question.at = "stored" /\ question' = [question EXCEPT !.at = "lost"]
      /\ asked > 0 /\ question.no = asked /\ asked \in Nat
      /\ missed' = IF asked \in unstored \/ ShowsAnswer(asked) THEN missed ELSE missed \cup {asked}
  <2>1. question.no = asked /\ asked > 0 /\ asked \in Nat
    BY DEF AnswerLost, ChatTyped
  <2>2. missed' = IF question.no \in unstored \/ ShowsAnswer(question.no) THEN missed
                  ELSE missed \cup {question.no}
    BY DEF AnswerLost
  <2>3. ShowsAnswer(question.no) <=> ShowsAnswer(asked)
    BY <2>1
  <2>4. /\ UNCHANGED <<stored, listed, shown, opening, asked, visits, unstored, mixed>>
        /\ question.at = "stored" /\ question' = [question EXCEPT !.at = "lost"]
    BY DEF AnswerLost
  <2> QED BY ONLY <2>1, <2>2, <2>3, <2>4
<1>1. /\ DOMAIN question' = DOMAIN question /\ question'.at = "lost"
      /\ question'.no = question.no /\ question'.sentTo = question.sentTo
      /\ question'.conversation = question.conversation /\ question'.seen = question.seen
  BY <1>0 DEF ChatTyped
<1>2. ChatTyped'
  <2>1. missed' \subseteq 1..asked
    BY <1>0 DEF ChatTyped
  <2> QED BY <1>0, <1>1, <2>1 DEF ChatTyped, AtMostOne, Single
<1>3. ~Pending /\ ~Pending'
  BY <1>0, <1>1 DEF Pending
<1>4. Turns'
  BY <1>0, <1>3 DEF Turns, Storable
<1>5. Addressed'
  BY <1>0, <1>1, <1>3 DEF Addressed, Waits
<1>6. Retained(shown.messages)' = Retained(shown.messages)
  BY <1>0 DEF Retained
<1>7. ASSUME ~mixed, opening.at = "idle", NEW c \in shown.conversation
      PROVE  Recalled(History(c))' = Retained(shown.messages)
  <2> DEFINE answers0 == Retained(shown.messages)
             turns == History(c)
             other == Counts({asked})
  <2>1. \/ Recalled(turns) = answers0
        \/ Recalled(turns) = Append(answers0, Answered(asked)) /\ asked \notin unstored /\ ~ShowsAnswer(asked)
    BY <1>0, <1>7 DEF Paired
  <2>2. turns' = turns
    BY <1>0 DEF History
  <2>3. CASE asked \in unstored \/ ShowsAnswer(asked)
    <3>1. Recalled(turns)' = Recalled(turns)
      BY <1>0, <2>2, <2>3 DEF Recalled
    <3> QED BY <2>1, <2>3, <3>1
  <2>4. CASE ~ (asked \in unstored \/ ShowsAnswer(asked))
    <3>0. turns \in Seq(Entry) /\ shown.messages \in Seq(Entry)
      BY HistoryType DEF ChatTyped
    <3>1. missed' = missed \cup {asked}
      BY <1>0, <2>4
    <3>2. Recalled(turns)' = Sifted(turns, Counts(missed \cup {asked}))
      BY <2>2, <3>1 DEF Recalled
    <3>3. Recalled(turns)' = Sifted(Recalled(turns), other)
      <4>1. turns \in Seq(Entry)
        BY <3>0
      <4> HIDE DEF turns
      <4>2. Sifted(turns, Counts(missed \cup {asked})) = Sifted(Sifted(turns, Counts(missed)), other)
        BY <4>1, OneDropped
      <4> QED BY <3>2, <4>2 DEF Recalled
    <3>4. \A i \in 1..Len(shown.messages) :
             shown.messages[i].kind = "answer" => shown.messages[i].no # asked
      <4>1. SUFFICES ASSUME NEW i \in 1..Len(shown.messages), shown.messages[i].kind = "answer",
                            shown.messages[i].no = asked
                     PROVE  FALSE
        OBVIOUS
      <4>2. shown.messages[i] \in Entry
        BY <3>0, ElementOfSeq
      <4>3. shown.messages[i] = Answered(asked)
        BY <4>1, <4>2 DEF Entry, Answered
      <4> QED BY <2>4, <3>0, <4>3, LenProperties DEF ShowsAnswer
    <3>5. Sifted(answers0, other) = answers0
      <4>1. Sifted(shown.messages, Counts(unstored \cup {asked})) = answers0
        BY <3>0, <3>4, OthersCount
      <4>2. Sifted(shown.messages, Counts(unstored \cup {asked})) = Sifted(Sifted(shown.messages, Counts(unstored)), other)
        BY <3>0, OneDropped
      <4> QED BY <4>1, <4>2 DEF Retained
    <3>6. Sifted(Append(answers0, Answered(asked)), other) = answers0
      <4>1. answers0 \in Seq(Entry)
        <5>1. Sifted(shown.messages, Counts(unstored)) \in Seq(Entry \cap Counts(unstored))
          BY <3>0, SiftedType
        <5> QED BY <5>1, SeqMonotonic DEF Retained
      <4>2. Answered(asked) \in Entry /\ Answered(asked) \notin other
        BY <1>0, Spoken DEF Answered, Counts
      <4> HIDE DEF answers0, other
      <4>3. Sifted(Append(answers0, Answered(asked)), other) = Sifted(answers0, other)
        BY <4>1, <4>2, SiftedAppend
      <4> QED BY <3>5, <4>3
    <3> HIDE DEF answers0, other, turns
    <3> QED BY <2>1, <3>3, <3>5, <3>6 DEF answers0, turns
  <2> QED BY <2>3, <2>4
<1>8. Paired'
  <2>1. ~mixed /\ shown.conversation = {} => Retained(shown.messages) = << >>
    BY DEF Paired
  <2> QED BY <1>0, <1>1, <1>6, <1>7, <2>1 DEF Paired
<1> QED BY <1>2, <1>4, <1>5, <1>8

LEMMA OpeningGoesOn == ASSUME ChatInv, ServeConversation \/ OpeningFails PROVE ChatInv'
<1> USE DEF ChatInv
<1>0. /\ UNCHANGED <<stored, listed, shown, question, asked, visits, unstored, missed, mixed>>
      /\ opening.at = "asked"
      /\ \/ \E c \in DOMAIN stored : opening' = [opening EXCEPT !.at = "found", !.history = stored[c]]
         \/ opening' = [opening EXCEPT !.at = "failed"]
  BY DEF ServeConversation, OpeningFails
<1>1. /\ opening' \in [at : {"found", "failed"}, conversation : SUBSET Conversation, history : Seq(Entry)]
      /\ opening'.conversation = opening.conversation
      /\ Whole(opening'.history, Storable)
  <2>1. CASE opening' = [opening EXCEPT !.at = "failed"]
    BY <2>1 DEF ChatTyped, Turns
  <2>2. ASSUME NEW c \in DOMAIN stored, opening' = [opening EXCEPT !.at = "found", !.history = stored[c]]
        PROVE  <1>1
    <3>1. stored[c] \in Seq(Entry) /\ Whole(stored[c], Storable)
      BY DEF ChatTyped, Turns
    <3> QED BY <2>2, <3>1 DEF ChatTyped
  <2> QED BY <1>0, <2>1, <2>2
<1>2. ChatTyped'
  BY <1>0, <1>1 DEF ChatTyped, AtMostOne, Single
<1>3. Turns'
  BY <1>0, <1>1 DEF Turns, Storable, Pending
<1>4. Addressed'
  BY <1>0, <1>1 DEF Addressed, Waits, Pending
<1>5. Paired'
  BY <1>0, <1>1, MatchingStays DEF Paired
<1> QED BY <1>2, <1>3, <1>4, <1>5

\* The page without what waits, and with what came instead.
LEMMA Answering ==
    ASSUME ChatInv, NEW e \in Entry, e.kind # "waiting"
    PROVE  LET after == Append(NotWaiting(shown.messages), e)
           IN  /\ after \in Seq(Entry)
               /\ \A i \in 1..Len(after) : after[i].kind # "waiting"
               /\ \A i \in 1..Len(after) : after[i] # e =>
                        \E j \in 1..Len(shown.messages) : shown.messages[j] = after[i]
               /\ Retained(after) =
                    IF e.kind = "answer" /\ e.no \notin unstored
                    THEN Append(Retained(shown.messages), e)
                    ELSE Retained(shown.messages)
<1> DEFINE before == NotWaiting(shown.messages)
           after == Append(before, e)
<1>1. shown.messages \in Seq(Entry)
  BY DEF ChatInv, ChatTyped
<1>2. /\ before \in Seq(Entry)
      /\ \A i \in 1..Len(before) : before[i].kind # "waiting"
                                   /\ \E j \in 1..Len(shown.messages) : shown.messages[j] = before[i]
      /\ Sifted(before, Counts(unstored)) = Sifted(shown.messages, Counts(unstored))
  BY <1>1, NotWaitingKeeps
<1>3. Retained(before) = Retained(shown.messages)
  BY <1>2 DEF Retained
<1> HIDE DEF before
<1>4. /\ after \in Seq(Entry) /\ Len(after) = Len(before) + 1 /\ after[Len(before) + 1] = e
      /\ Len(before) \in Nat /\ \A i \in 1..Len(before) : after[i] = before[i]
  BY <1>2, AppendProperties, LenProperties
<1>5. Retained(after) = IF e.kind = "answer" /\ e.no \notin unstored
                               THEN Append(Retained(before), e) ELSE Retained(before)
  BY <1>2, AnswersAppended
<1> HIDE DEF after
<1>6. \A i \in 1..Len(after) : i \in 1..Len(before) \/ i = Len(before) + 1
  BY <1>4
<1>7. \A i \in 1..Len(after) : after[i].kind # "waiting"
  BY <1>2, <1>4, <1>6
<1>8. \A i \in 1..Len(after) : after[i] # e =>
            \E j \in 1..Len(shown.messages) : shown.messages[j] = after[i]
  BY <1>2, <1>4, <1>6
<1> QED BY <1>3, <1>4, <1>5, <1>7, <1>8 DEF after, before

LEMMA ShowAnswerKeeps == ASSUME ChatInv, ShowAnswer PROVE ChatInv'
<1> USE DEF ChatInv
<1> DEFINE after == Append(NotWaiting(shown.messages), Answered(question.no))
<1>0. /\ UNCHANGED <<stored, opening, asked, visits, unstored, missed>>
      /\ question.at = "stored" /\ asked > 0 /\ question.no = asked /\ asked \in Nat
      /\ shown'.conversation = (IF question.sentTo = {} THEN question.conversation ELSE shown.conversation)
      /\ shown'.messages = after
      /\ shown' \in [conversation : SUBSET Conversation, messages : {after}]
      /\ listed' = (IF question.sentTo = {} THEN DOMAIN stored ELSE listed)
      /\ mixed' = (mixed \/ ~Waits)
      /\ question' = NoQuestion
  BY DEF ShowAnswer, ChatTyped, AtMostOne, Single
<1>1. Answered(asked) \in Entry /\ Answered(asked).kind = "answer" /\ Answered(asked).no = asked
  BY <1>0, Spoken DEF Answered
<1>2. /\ after \in Seq(Entry)
      /\ \A i \in 1..Len(after) : after[i].kind # "waiting"
      /\ \A i \in 1..Len(after) : after[i] # Answered(asked) =>
               \E j \in 1..Len(shown.messages) : shown.messages[j] = after[i]
      /\ Retained(after) = IF asked \notin unstored
           THEN Append(Retained(shown.messages), Answered(asked))
           ELSE Retained(shown.messages)
  BY <1>0, <1>1, Answering
<1> HIDE DEF after
<1>3. DOMAIN question' = {"at", "no", "sentTo", "conversation", "seen", "said", "pipeline"}
  BY <1>0 DEF NoQuestion
<1>4. question'.at = "idle" /\ question'.sentTo = {} /\ question'.conversation = {} /\ question'.seen = {}
  BY <1>0 DEF NoQuestion
<1>5. ChatTyped'
  BY <1>0, <1>2, <1>3, <1>4 DEF ChatTyped, AtMostOne, Single
<1>6. ~Pending /\ ~Pending'
  BY <1>0, <1>4 DEF Pending
<1>7. Turns'
  BY <1>0, <1>6 DEF Turns, Storable
<1>8. Addressed'
  <2>1. ~Waits'
    BY <1>0, <1>2, LenProperties DEF Waits
  <2>2. \A i \in 1..Len(after) : after[i].kind = "answer" => after[i].no \in 1..asked
    <3> TAKE i \in 1..Len(after)
    <3>1. CASE after[i] = Answered(asked)
      BY <1>0, <1>1, <3>1
    <3>2. CASE after[i] # Answered(asked)
      BY <1>2, <3>2 DEF Addressed
    <3> QED BY <3>1, <3>2
  <2> QED BY <1>0, <1>4, <1>6, <2>1, <2>2 DEF Addressed
<1>9. Paired'
  <2> SUFFICES ASSUME ~mixed, Waits
               PROVE  /\ shown'.conversation # {}
                      /\ \A c \in shown'.conversation : Retained(after) = Recalled(History(c))
    <3>1. Retained(shown.messages)' = Retained(after)
      BY <1>0 DEF Retained
    <3>2. \A d : Recalled(History(d))' = Recalled(History(d))
      BY <1>0 DEF History, Recalled
    <3> QED BY <1>0, <1>4, <3>1, <3>2 DEF Paired
  <2>1. shown'.conversation = question.conversation /\ question.conversation # {}
    BY <1>0 DEF Addressed, ChatTyped, Single
  <2> QED BY <1>0, <1>2, <2>1 DEF Paired
<1> QED BY <1>5, <1>7, <1>8, <1>9

LEMMA ShowRefusalKeeps == ASSUME ChatInv, ShowRefusal PROVE ChatInv'
<1> USE DEF ChatInv
<1> DEFINE after == Append(NotWaiting(shown.messages), Error)
<1>0. /\ UNCHANGED <<stored, listed, opening, asked, visits, unstored, missed, mixed>>
      /\ question.at \in {"refused", "lost"} /\ asked > 0 /\ question.no = asked /\ asked \in Nat
      /\ shown'.conversation = shown.conversation
      /\ shown'.messages = after
      /\ shown' \in [conversation : SUBSET Conversation, messages : {after}]
      /\ question' = NoQuestion
  <2>1. /\ UNCHANGED <<stored, listed, opening, asked, visits, unstored, missed, mixed>>
        /\ question.at \in {"refused", "lost"} /\ question' = NoQuestion
        /\ shown' = [shown EXCEPT !.messages = after]
    BY DEF ShowRefusal
  <2> HIDE DEF after
  <2> QED BY <2>1 DEF ChatTyped
<1>1. Error \in Entry /\ Error.kind = "error"
  BY <1>0, Spoken DEF Error
<1>2. /\ after \in Seq(Entry)
      /\ \A i \in 1..Len(after) : after[i].kind # "waiting"
      /\ \A i \in 1..Len(after) : after[i] # Error =>
               \E j \in 1..Len(shown.messages) : shown.messages[j] = after[i]
      /\ Retained(after) = Retained(shown.messages)
  BY <1>1, Answering
<1> HIDE DEF after
<1>3. DOMAIN question' = {"at", "no", "sentTo", "conversation", "seen", "said", "pipeline"}
  BY <1>0 DEF NoQuestion
<1>4. question'.at = "idle" /\ question'.sentTo = {} /\ question'.conversation = {} /\ question'.seen = {}
  BY <1>0 DEF NoQuestion
<1>5. ChatTyped'
  BY <1>0, <1>2, <1>3, <1>4 DEF ChatTyped, AtMostOne, Single
<1>6. ~Pending'
  BY <1>0, <1>4 DEF Pending
<1>7. Turns'
  <2>1. Storable \subseteq Storable'
    BY <1>0, <1>6 DEF Storable
  <2> QED BY <1>0, <2>1, WholeStays DEF Turns
<1>8. Addressed'
  <2>1. ~Waits'
    BY <1>0, <1>2, LenProperties DEF Waits
  <2>2. \A i \in 1..Len(after) : after[i].kind = "answer" => after[i].no \in 1..asked
    BY <1>1, <1>2 DEF Addressed
  <2> QED BY <1>0, <1>4, <1>6, <2>1, <2>2 DEF Addressed
<1>9. Paired'
  <2>1. Retained(shown.messages)' = Retained(shown.messages)
    BY <1>0, <1>2 DEF Retained
  <2>2. \A d : Recalled(History(d))' = Recalled(History(d))
    BY <1>0 DEF History, Recalled
  <2> QED BY <1>0, <1>4, <2>1, <2>2 DEF Paired
<1> QED BY <1>5, <1>7, <1>8, <1>9

LEMMA StartNewChatKeeps == ASSUME ChatInv, StartNewChat PROVE ChatInv'
<1> USE DEF ChatInv
<1>0. /\ UNCHANGED <<stored, listed, question, opening, asked, unstored, missed>>
      /\ shown' = NewChat /\ mixed' = FALSE /\ visits' \in 0..MaxVisits
  BY ChatAssumption DEF StartNewChat, Visit, ChatTyped
<1>1. /\ shown' \in [conversation : SUBSET Conversation, messages : Seq(Entry)]
      /\ shown'.conversation = {} /\ shown'.messages = << >> /\ Len(<< >>) = 0 /\ \A i \in 1..0 : FALSE
  BY <1>0, EmptySeq DEF NewChat
<1>2. ChatTyped'
  BY <1>0, <1>1 DEF ChatTyped, AtMostOne, Single
<1>3. Turns'
  BY <1>0 DEF Turns, Storable, Pending
<1>4. ~Waits'
  BY <1>1 DEF Waits
<1>5. Addressed'
  BY <1>0, <1>1, <1>4 DEF Addressed, Pending
<1>6. Paired'
  <2>1. Retained(shown.messages)' = << >>
    BY <1>1, SiftedEmpty DEF Retained
  <2> QED BY <1>1, <1>4, <2>1 DEF Paired
<1> QED BY <1>2, <1>3, <1>5, <1>6

LEMMA SelectKeeps == ASSUME ChatInv, Select PROVE ChatInv'
<1> USE DEF ChatInv
<1>0. /\ UNCHANGED <<stored, listed, question, asked, unstored, missed, mixed>>
      /\ visits' \in 0..MaxVisits /\ opening.at = "idle"
      /\ shown' = [shown EXCEPT !.messages = << >>]
  BY ChatAssumption DEF Select, Visit, ChatTyped
<1>1. PICK c \in listed \ shown.conversation :
        opening' = [at |-> "asked", conversation |-> {c}, history |-> << >>]
  BY DEF Select, NoOpening
<1>2. /\ shown' \in [conversation : SUBSET Conversation, messages : Seq(Entry)]
      /\ shown'.conversation = shown.conversation /\ shown'.messages = << >>
      /\ Len(<< >>) = 0 /\ \A i \in 1..0 : FALSE
  <2>1. << >> \in Seq(Entry) /\ Len(<< >>) = 0
    BY EmptySeq
  <2>2. \A i \in 1..0 : FALSE
    OBVIOUS
  <2>3. shown' = [shown EXCEPT !.messages = << >>]
    BY <1>0
  <2>4. shown \in [conversation : SUBSET Conversation, messages : Seq(Entry)]
    BY DEF ChatTyped
  <2> QED BY <2>1, <2>2, <2>3, <2>4
<1>3. /\ opening' \in [at : {"asked"}, conversation : SUBSET Conversation, history : Seq(Entry)]
      /\ opening'.conversation = {c} /\ c \in Conversation /\ opening'.history = << >>
  BY <1>1, EmptySeq DEF ChatTyped
<1>4. ChatTyped'
  BY <1>0, <1>2, <1>3 DEF ChatTyped, AtMostOne, Single
<1>5. Turns'
  <2>1. Whole(<< >>, Storable)
    BY <1>2 DEF Whole
  <2> QED BY <1>0, <1>3, <2>1 DEF Turns, Storable, Pending
<1>6. ~Waits'
  BY <1>2 DEF Waits
<1>7. Addressed'
  BY <1>0, <1>2, <1>6 DEF Addressed, Pending
<1>8. Paired'
  <2>1. Retained(shown.messages)' = << >>
    BY <1>2, SiftedEmpty DEF Retained
  <2> QED BY <1>3, <1>6, <2>1 DEF Paired
<1> QED BY <1>4, <1>5, <1>7, <1>8

LEMMA ShowConversationKeeps == ASSUME ChatInv, ShowConversation PROVE ChatInv'
<1> USE DEF ChatInv
<1>0. /\ UNCHANGED <<stored, listed, question, asked, visits, unstored>>
      /\ missed' \subseteq missed
      /\ opening' = [at |-> "idle", conversation |-> {}, history |-> << >>]
      /\ opening.at \in {"found", "failed"}
  BY DEF ShowConversation, NoOpening
<1>1. /\ opening' \in [at : {"idle"}, conversation : SUBSET Conversation, history : Seq(Entry)]
      /\ opening'.history = << >> /\ Len(<< >>) = 0 /\ \A i \in 1..0 : FALSE
  BY <1>0, EmptySeq
<1>2. Turns'
  <2>1. Whole(<< >>, Storable)
    BY <1>1 DEF Whole
  <2> QED BY <1>0, <1>1, <2>1 DEF Turns, Storable, Pending
<1>3. \A d : History(d)' = History(d)
  BY <1>0 DEF History
<1>4. opening.conversation \subseteq Conversation /\ Single(opening.conversation)
      /\ opening.history \in Seq(Entry) /\ Whole(opening.history, Storable)
  BY <1>0 DEF ChatTyped, Turns
<1>5. CASE opening.at = "found"
  <2>1. /\ shown' = [conversation |-> opening.conversation, messages |-> opening.history]
        /\ mixed' = \E c \in opening.conversation : History(c) # opening.history
        /\ missed' = missed \ {opening.history[i].no : i \in DOMAIN opening.history}
    BY <1>5 DEF ShowConversation
  <2>2. /\ shown' \in [conversation : SUBSET Conversation, messages : Seq(Entry)]
        /\ shown'.conversation = opening.conversation /\ shown'.messages = opening.history
    BY <1>4, <2>1
  <2>3. mixed' \in BOOLEAN
    BY <2>1
  <2>4. ChatTyped'
    BY <1>0, <1>1, <1>4, <2>2, <2>3 DEF ChatTyped, AtMostOne, Single
  <2>5. \A i \in 1..Len(opening.history) :
            opening.history[i].kind \in {"user", "answer"} /\ opening.history[i].no \in Storable
    BY <1>4 DEF Whole
  <2>6. ~Waits'
    BY <1>4, <2>2, <2>5, LenProperties DEF Waits
  <2>7. Addressed'
    BY <1>0, <2>2, <2>5, <2>6 DEF Addressed, Pending, Storable
  <2>8. Paired'
    <3> SUFFICES ASSUME ~mixed'
                 PROVE  /\ opening.conversation # {}
                        /\ \A c \in opening.conversation :
                                Retained(opening.history) = Recalled(History(c))'
      <4>1. Retained(shown.messages)' = Retained(opening.history)
        BY <1>0, <2>2 DEF Retained
      <4> QED BY <1>1, <2>2, <2>6, <4>1 DEF Paired
    <3>1. \A c \in opening.conversation : History(c) = opening.history
      BY <2>1
    <3>2. \A i \in 1..Len(opening.history) :
             opening.history[i].no \notin unstored /\ opening.history[i].no \notin missed'
      BY <1>4, <2>1, <2>5, LenProperties DEF Storable
    <3>3. Sifted(opening.history, Counts(unstored)) = Sifted(opening.history, Counts(missed'))
      BY <1>4, <3>2, WholeAnswers
    <3>4. \A c \in opening.conversation : Retained(opening.history) = Recalled(History(c))'
      BY <1>3, <3>1, <3>3 DEF Retained, Recalled
    <3> QED BY <1>4, <3>4 DEF Single
  <2> QED BY <1>2, <2>4, <2>7, <2>8
<1>6. CASE opening.at = "failed"
  <2>1. /\ shown' = [shown EXCEPT !.messages = <<Error>>]
        /\ mixed' = (mixed \/ shown.conversation # {})
    BY <1>6 DEF ShowConversation
  <2>2. Error \in Entry /\ Error.kind = "error"
    BY ChatAssumption DEF Error, Entry
  <2>3. <<Error>> \in Seq(Entry) /\ Len(<<Error>>) = 1 /\ <<Error>>[1] = Error /\ <<Error>> = Append(<< >>, Error)
    BY <2>2
  <2>4. /\ shown' \in [conversation : SUBSET Conversation, messages : Seq(Entry)]
        /\ shown'.conversation = shown.conversation /\ shown'.messages = <<Error>>
    BY <2>1, <2>3 DEF ChatTyped
  <2>5. ChatTyped'
    BY <1>0, <1>1, <2>1, <2>4 DEF ChatTyped, AtMostOne, Single
  <2>6. ~Waits'
    BY <2>2, <2>3, <2>4 DEF Waits
  <2>7. Addressed'
    BY <1>0, <2>2, <2>3, <2>4, <2>6 DEF Addressed, Pending
  <2>8. Paired'
    <3>1. Retained(<<Error>>) = << >>
      <4>1. << >> \in Seq(Entry)
        BY EmptySeq
      <4>2. Retained(Append(<< >>, Error)) = Retained(<< >>)
        BY <2>2, <4>1, AnswersAppended
      <4> QED BY <2>3, <4>2, NothingAnswered
    <3>2. Retained(shown.messages)' = << >>
      BY <1>0, <2>4, <3>1 DEF Retained
    <3> QED BY <2>1, <2>4, <2>6, <3>2 DEF Paired
  <2> QED BY <1>2, <2>5, <2>7, <2>8
<1> QED BY <1>0, <1>5, <1>6

LEMMA DeleteConversationKeeps == ASSUME ChatInv, DeleteConversation PROVE ChatInv'
<1> USE DEF ChatInv
<1>0. UNCHANGED <<question, opening, asked, unstored, missed>> /\ visits' \in 0..MaxVisits
  BY ChatAssumption DEF DeleteConversation, Visit, ChatTyped
<1>1. PICK c \in listed :
        /\ stored' = [d \in DOMAIN stored \ {c} |-> stored[d]]
        /\ listed' = listed \ {c}
        /\ shown' = IF c \in shown.conversation THEN NewChat ELSE shown
        /\ mixed' = IF c \in shown.conversation THEN FALSE ELSE mixed
  BY DEF DeleteConversation
<1>2. /\ NewChat \in [conversation : SUBSET Conversation, messages : Seq(Entry)]
      /\ NewChat.conversation = {} /\ NewChat.messages = << >> /\ Len(<< >>) = 0 /\ \A i \in 1..0 : FALSE
  BY EmptySeq DEF NewChat
<1>3. /\ DOMAIN stored' = DOMAIN stored \ {c} /\ stored' \in [DOMAIN stored' -> Seq(Entry)]
      /\ \A d \in DOMAIN stored' : stored'[d] = stored[d]
  BY <1>1 DEF ChatTyped
<1>4. ChatTyped'
  BY <1>0, <1>1, <1>2, <1>3 DEF ChatTyped, AtMostOne, Single
<1>5. Turns'
  BY <1>0, <1>3 DEF Turns, Storable, Pending
<1>6. CASE c \in shown.conversation
  <2>1. shown'.conversation = {} /\ shown'.messages = << >>
    BY <1>1, <1>2, <1>6
  <2>2. ~Waits'
    BY <1>2, <2>1 DEF Waits
  <2>3. Addressed'
    BY <1>0, <1>1, <1>2, <1>3, <2>1, <2>2 DEF Addressed, Pending
  <2>4. Retained(shown.messages)' = << >>
    BY <2>1, SiftedEmpty DEF Retained
  <2>5. Paired'
    BY <2>1, <2>2, <2>4 DEF Paired
  <2> QED BY <1>4, <1>5, <2>3, <2>5
<1>7. CASE c \notin shown.conversation
  <2>1. shown' = shown /\ mixed' = mixed
    BY <1>1, <1>7
  <2>2. Waits' = Waits
    BY <2>1 DEF Waits
  <2>3. Addressed'
    BY <1>0, <1>1, <1>3, <2>1, <2>2 DEF Addressed, Pending
  <2>4. Retained(shown.messages)' = Retained(shown.messages)
    BY <1>0, <2>1 DEF Retained
  <2>5. \A d : d # c => Recalled(History(d))' = Recalled(History(d))
    <3>1. \A d : d # c => History(d)' = History(d)
      BY <1>3 DEF History
    <3> QED BY <1>0, <3>1 DEF Recalled
  <2>6. ASSUME question.at = "stored", Waits PROVE c \notin question.conversation
    BY <1>1, <1>7, <2>6 DEF Addressed
  <2>7. Paired'
    <3>1. ShowsAnswer(asked)' = ShowsAnswer(asked)
      BY <1>0, <2>1 DEF ShowsAnswer
    <3> QED BY <1>0, <1>7, <2>1, <2>2, <2>4, <2>5, <2>6, <3>1 DEF Paired
  <2> QED BY <1>4, <1>5, <2>3, <2>7
<1> QED BY <1>6, <1>7

LEMMA ChatRests == ASSUME ChatInv, UNCHANGED chatVars PROVE ChatInv'
<1>0. UNCHANGED <<stored, listed, shown, question, opening, asked, visits, unstored, missed, mixed>>
  BY DEF chatVars
<1>1. ChatTyped' /\ Turns' /\ Addressed'
  BY <1>0 DEF ChatInv, ChatTyped, Turns, Addressed, Storable, Pending, Waits, AtMostOne, Single
<1>2. Paired'
  BY <1>0, MatchingStays DEF ChatInv, Paired
<1> QED BY <1>1, <1>2 DEF ChatInv

LEMMA ChatStep == ChatInv /\ [ChatNext]_chatVars => ChatInv'
BY AskKeeps, QueryKeeps, StoreTurnKeeps, QueryFailsKeeps, AnswerLostKeeps, ShowAnswerKeeps, ShowRefusalKeeps,
   StartNewChatKeeps, SelectKeeps, OpeningGoesOn, ShowConversationKeeps,
   DeleteConversationKeeps, ChatRests DEF ChatNext

LEMMA ChatInvariant == ChatSpec => []ChatInv
BY ChatStarts, ChatStep, PTL DEF ChatSpec

\* ChatKept in every state, for any number of questions, visits and conversations: a stored
\* conversation alternates between questions and their answers, and the page at rest shows
\* the answers of the conversation it is in, but for those lost on their way to storage or
\* to the page, although questions are answered after the user has opened another
\* conversation, unless two of them mixed (ChatPage.tsx, ai.ts).
THEOREM ChatAlwaysKept == ChatSpec => []ChatKept
<1>1. ChatInv => ChatKept
  <2> SUFFICES ASSUME ChatInv PROVE ChatKept
    OBVIOUS
  <2>1. ASSUME NEW c \in DOMAIN stored, NEW i \in DOMAIN stored[c]
        PROVE  stored[c][i].kind = IF i % 2 = 1 THEN "user" ELSE "answer"
    <3>1. stored[c] \in Seq(Entry) /\ Whole(stored[c], Storable)
      BY DEF ChatInv, ChatTyped, Turns
    <3>2. i \in 1..Len(stored[c])
      BY <3>1, LenProperties
    <3> QED BY <3>1, <3>2 DEF Whole
  <2>2. Quiet /\ ~mixed => \A c \in shown.conversation :
                AnswersOf(shown.messages, unstored) = AnswersOf(History(c), missed)
    BY DEF ChatInv, Paired, Quiet, Retained, Recalled, Counts, AnswersOf
  <2> QED BY <2>1, <2>2 DEF ChatKept
<1> QED BY <1>1, ChatInvariant, PTL

LEMMA ChatFits == ChatInv => ChatTypeOK
<1> SUFFICES ASSUME ChatInv PROVE ChatTypeOK
  OBVIOUS
<1>1. Cardinality(shown.conversation) <= 1
  <2>1. Cardinality({}) = 0 /\ \A c : Cardinality({c}) = 1
    BY FS_EmptySet, FS_Singleton
  <2>2. shown.conversation = {} \/ \E c : shown.conversation = {c}
    BY DEF ChatInv, ChatTyped, AtMostOne, Single
  <2>3. Cardinality(shown.conversation) \in {0, 1}
    BY <2>1, <2>2
  <2> QED BY <2>3
<1>2. question.conversation \subseteq Conversation
  BY DEF ChatInv, ChatTyped, AtMostOne, Single
<1> QED BY <1>1, <1>2 DEF ChatInv, ChatTyped, ChatTypeOK

\* The types of the chatbot in every state: the page is in one conversation at most.
THEOREM ChatTyping == ChatSpec => []ChatTypeOK
BY ChatInvariant, ChatFits, PTL

----------------------------------------------------------------------------
(****************************** The live view *******************************)

Message == [status : RunStatus \cup {"log"}, output : Seq(Nat)]
ViewRow == [status : RunStatus, output : Seq(Nat)]
PageType == [loaded : BOOLEAN, rows : SUBSET ViewRow]
ListingType == [at : {"idle", "asked", "answered"}, rows : SUBSET ViewRow]
HydrationType == [at : {"idle", "asked", "live", "answered"}, output : Seq(Nat)]

ViewTyped ==
    /\ runDoc = [status |-> runDoc.status, output |-> runDoc.output, deleted |-> runDoc.deleted]
    /\ runDoc.status \in RunStatus \cup {"none"} /\ runDoc.output \in Seq(Nat)
    /\ runDoc.deleted \in BOOLEAN
    /\ logged \in Nat /\ liveLog \in Seq(Nat) /\ chunkPosts \subseteq 1..logged
    /\ notice \in {"none", runDoc.status}
    /\ wire \in Seq(Message)
    /\ page \in PageType /\ listing \in ListingType /\ hydration \in HydrationType
    /\ deletion \in {"idle", "single", "bulk", "done", "refused"}
    /\ stale \in BOOLEAN /\ late \in BOOLEAN

\* No log is longer than the whole one, which is stored and announced with the verdict.
Logs ==
    /\ Len(liveLog) + Cardinality(chunkPosts) <= logged
    /\ Len(hydration.output) <= logged
    /\ runDoc.output = IF runDoc.status = "PASSED" THEN Full ELSE << >>
    /\ \A i \in DOMAIN wire : wire[i].status = "PASSED" =>
            runDoc.status = "PASSED" /\ wire[i].output = Full

\* A status that the page has not been told yet.
OnItsWay == notice # "none" \/ \E i \in DOMAIN wire : wire[i].status # "log"

\* The last status on the wire is the one that is stored, and no chunk follows a verdict.
InOrder ==
    notice = "none" =>
        /\ \A i \in DOMAIN wire :
              wire[i].status # "log" /\ (\A j \in DOMAIN wire : j > i => wire[j].status = "log")
                 => wire[i].status = runDoc.status
        /\ runDoc.status = "PASSED" /\ ~late => wire = << >> \/ wire[Len(wire)].status # "log"

\* ViewRows that will be right once everything that is on its way has arrived.
Right(items) ==
    /\ runDoc.deleted /\ deletion # "done" => items = {}
    /\ ~runDoc.deleted /\ items = {} => OnItsWay \/ runDoc.status = "none"
    /\ ~runDoc.deleted /\ ~OnItsWay =>
          \A row \in items :
              /\ row.status = runDoc.status
              /\ runDoc.status = "PASSED" /\ ~late => row.output = Full

Settling ==
    /\ listing.at = "idle" => page.loaded
    /\ ~stale =>
          /\ InOrder
          /\ listing.at = "answered" => Right(listing.rows)
          /\ listing.at = "idle" => Right(page.rows)

ViewInv == Logs /\ Settling

LEMMA ViewRows ==
    ASSUME NEW row \in ViewRow
    PROVE  /\ \A m \in Message : m.status # "log" => Merged(row, m) \in ViewRow
           /\ \A o \in Seq(Nat) : [row EXCEPT !.output = o] \in ViewRow
           /\ \A o \in Seq(Nat) : [row EXCEPT !.output = o].status = row.status
           /\ hydration.output \in Seq(Nat) => Hydrated(row) \in ViewRow
           /\ Hydrated(row).status = row.status
           /\ ~(Len(row.output) < Len(hydration.output)) => Hydrated(row) = row
  BY DEF ViewRow, Message, Merged, Hydrated, HydrationType

LEMMA FullLog ==
    ASSUME logged \in Nat
    PROVE  Full \in Seq(Nat) /\ Len(Full) = logged
<1>1. Full \in [1..logged -> Nat]
  BY DEF Full
<1> QED BY <1>1

LEMMA ListedRows ==
    ASSUME ViewTyped
    PROVE  Listed \subseteq ViewRow
  BY DEF ViewTyped, Listed, ViewRow

LEMMA WireGrows ==
    ASSUME NEW S, NEW w \in Seq(S), NEW m \in S
    PROVE  /\ Append(w, m) \in Seq(S)
           /\ Len(Append(w, m)) = Len(w) + 1 /\ Len(w) \in Nat
           /\ DOMAIN Append(w, m) = 1..(Len(w) + 1) /\ DOMAIN w = 1..Len(w)
           /\ \A i \in 1..Len(w) : Append(w, m)[i] = w[i]
           /\ Append(w, m)[Len(w) + 1] = m
  OBVIOUS

LEMMA WireShrinks ==
    ASSUME NEW S, NEW w \in Seq(S), w # << >>
    PROVE  /\ Tail(w) \in Seq(S) /\ Head(w) \in S /\ Head(w) = w[1]
           /\ Len(w) \in Nat /\ Len(w) >= 1 /\ Len(Tail(w)) = Len(w) - 1
           /\ DOMAIN Tail(w) = 1..(Len(w) - 1) /\ DOMAIN w = 1..Len(w)
           /\ \A i \in 1..(Len(w) - 1) : Tail(w)[i] = w[i + 1]
  OBVIOUS

LEMMA Blanks ==
    /\ NoFetch \in ListingType /\ [NoFetch EXCEPT !.at = "asked"] \in ListingType
    /\ NoFetch.at = "idle" /\ [NoFetch EXCEPT !.at = "asked"].at = "asked"
    /\ NoHydration \in HydrationType /\ [NoHydration EXCEPT !.at = "asked"] \in HydrationType
    /\ Len(NoHydration.output) = 0 /\ Len([NoHydration EXCEPT !.at = "asked"].output) = 0
    /\ Nothing \in PageType
<1>1. << >> \in Seq(Nat) /\ {} \in SUBSET ViewRow /\ Len(<< >>) = 0
  OBVIOUS
<1> QED BY <1>1 DEF NoFetch, NoHydration, Nothing, ListingType, HydrationType, PageType

LEMMA ViewStarts == LiveViewInit => ViewTyped /\ ViewInv
<1> SUFFICES ASSUME LiveViewInit PROVE ViewTyped /\ ViewInv
  OBVIOUS
<1> USE DEF LiveViewInit
<1>1. << >> \in Seq(Nat) /\ << >> \in Seq(Message) /\ Len(<< >>) = 0 /\ DOMAIN wire = {}
  OBVIOUS
<1>2. ViewTyped
  <2>4. runDoc = [status |-> "none", output |-> << >>, deleted |-> FALSE]
    OBVIOUS
  <2>5. /\ runDoc.status = "none" /\ runDoc.output \in Seq(Nat) /\ runDoc.deleted = FALSE
        /\ runDoc = [status |-> runDoc.status, output |-> runDoc.output, deleted |-> runDoc.deleted]
    BY <1>1, <2>4
  <2> QED BY <1>1, <2>5, Blanks DEF ViewTyped
<1>3. Logs
  BY <1>1, FS_EmptySet DEF Logs, NoHydration
<1>4. Settling
  BY <1>1 DEF Settling, InOrder, NoFetch
<1> QED BY <1>2, <1>3, <1>4 DEF ViewInv

LEMMA NewRows ==
    ASSUME page \in PageType, NEW items \in SUBSET ViewRow
    PROVE  /\ [page EXCEPT !.rows = items] \in PageType
           /\ [page EXCEPT !.rows = items].rows = items
           /\ [page EXCEPT !.rows = items].loaded = page.loaded
  BY DEF PageType

LEMMA ListingAgain ==
    ASSUME listing \in ListingType, Refetch
    PROVE  listing' \in ListingType /\ (page.loaded \/ listing.at = "idle" => listing'.at = "asked")
           /\ (listing' = listing \/ listing'.at = "asked")
  BY Blanks DEF Refetch

LEMMA ViewTypedKept ==
    ASSUME ViewTyped, [LiveViewNext]_liveViewVars
    PROVE  ViewTyped'
<1> USE DEF ViewTyped, workerVars, clientVars
<1>0. page \in PageType /\ listing \in ListingType /\ hydration \in HydrationType
  OBVIOUS
<1>00. ASSUME page' \in PageType, listing' \in ListingType, hydration' \in HydrationType,
              wire' \in Seq(Message), deletion' \in {"idle", "single", "bulk", "done", "refused"},
              stale' \in BOOLEAN, UNCHANGED workerVars
       PROVE  ViewTyped'
  BY <1>00
<1>01. ASSUME UNCHANGED <<page, listing, hydration, deletion>>, runDoc' = runDoc,
              wire' \in Seq(Message), logged' \in Nat, liveLog' \in Seq(Nat),
              chunkPosts' \subseteq 1..logged', notice' \in {"none", runDoc.status},
              stale' \in BOOLEAN, late' \in BOOLEAN
       PROVE  ViewTyped'
  BY <1>01
<1>02. ASSUME NEW m \in Message, ToRoom(m) PROVE wire' \in Seq(Message) /\ stale' \in BOOLEAN
  BY <1>02 DEF ToRoom
<1>1. ASSUME NEW from, NEW to \in RunStatus, WriteRunStatus(from, to)
      PROVE  ViewTyped'
  <2>1. /\ runDoc' = [runDoc EXCEPT !.status = to, !.output = IF to = "PASSED" THEN Full ELSE @]
        /\ notice' = to
        /\ UNCHANGED <<logged, chunkPosts, liveLog, late, wire, stale, page, listing,
                       hydration, deletion>>
    BY <1>1 DEF WriteRunStatus
  <2> DEFINE output == IF to = "PASSED" THEN Full ELSE runDoc.output
  <2>2. output \in Seq(Nat)
    BY FullLog
  <2>3. runDoc' = [status |-> to, output |-> output, deleted |-> runDoc.deleted]
    BY <2>1
  <2> HIDE DEF output
  <2>4. /\ runDoc' = [status |-> runDoc'.status, output |-> runDoc'.output,
                      deleted |-> runDoc'.deleted]
        /\ runDoc'.status = to /\ runDoc'.output \in Seq(Nat) /\ runDoc'.deleted \in BOOLEAN
    BY <2>2, <2>3
  <2> QED BY <2>1, <2>4
<1>2. CASE AnnounceStatus
  <2>1. [status |-> notice, output |-> runDoc.output] \in Message
    BY <1>2 DEF AnnounceStatus, Message
  <2>2. wire' \in Seq(Message) /\ stale' \in BOOLEAN
    BY <1>2, <1>02, <2>1 DEF AnnounceStatus
  <2>3. liveLog' \in Seq(Nat)
    BY <1>2 DEF AnnounceStatus
  <2> QED BY <1>2, <1>01, <2>2, <2>3 DEF AnnounceStatus
<1>3. CASE AnnouncementLost
  BY <1>3, <1>01 DEF AnnouncementLost
<1>4. CASE ReadChunk
  <2>1. logged' \in Nat /\ chunkPosts' \subseteq 1..logged'
    BY <1>4 DEF ReadChunk
  <2> QED BY <1>4, <1>01, <2>1 DEF ReadChunk
<1>5. CASE PostChunk
  <2>1. PICK c \in chunkPosts :
           /\ chunkPosts' = chunkPosts \ {c}
           /\ wire' = IF inRoom THEN Append(wire, [status |-> "log", output |-> <<c>>]) ELSE wire
           /\ liveLog' \in {liveLog, Append(liveLog, c)}
           /\ late' = (late \/ (runDoc.status = "PASSED" /\ notice = "none"))
           /\ UNCHANGED <<runDoc, logged, notice, stale, clientVars>>
    BY <1>5 DEF PostChunk
  <2>2. c \in Nat /\ [status |-> "log", output |-> <<c>>] \in Message
    BY DEF Message
  <2>3. wire' \in Seq(Message) /\ liveLog' \in Seq(Nat)
    <3> DEFINE m == [status |-> "log", output |-> <<c>>]
    <3>1. m \in Message
      BY <2>2
    <3>2. wire' = IF inRoom THEN Append(wire, m) ELSE wire
      BY <2>1
    <3> HIDE DEF m
    <3>3. wire' \in Seq(Message)
      BY <3>1, <3>2
    <3>4. Append(liveLog, c) \in Seq(Nat)
      BY <2>2
    <3> QED BY <2>1, <3>3, <3>4
  <2> QED BY <1>01, <2>1, <2>3
<1>6. CASE ChunkLost
  BY <1>6, <1>01 DEF ChunkLost
<1>7. CASE Joins
  BY <1>7, <1>0, <1>00 DEF Joins
<1>8. CASE Disconnect
  <2>1. << >> \in Seq(Message)
    OBVIOUS
  <2> QED BY <1>8, <1>0, <1>00, <2>1 DEF Disconnect
<1>9. CASE AnswerList
  <2>1. [at |-> "answered", rows |-> Listed] \in ListingType
    BY ListedRows DEF ListingType
  <2> QED BY <1>9, <1>0, <1>00, <2>1 DEF AnswerList
<1>10. CASE ShowList
  <2>1. [loaded |-> TRUE, rows |-> listing.rows] \in PageType
    BY <1>0 DEF PageType, ListingType
  <2> QED BY <1>10, <1>0, <1>00, <2>1, Blanks DEF ShowList
<1>11. CASE OnUpdate
  <2>1. /\ wire # << >> /\ Head(wire).status # "log" /\ wire' = Tail(wire)
        /\ IF page.rows # {}
           THEN /\ page' = [page EXCEPT !.rows = {Merged(row, Head(wire)) : row \in page.rows}]
                /\ UNCHANGED listing
           ELSE Refetch /\ UNCHANGED page
        /\ stale' = (stale \/ listing'.at = "answered")
        /\ UNCHANGED <<workerVars, inRoom, hydration, deletion, looks>>
    BY <1>11 DEF OnUpdate
  <2>2. Head(wire) \in Message /\ wire' \in Seq(Message)
    BY <2>1, WireShrinks
  <2>3. {Merged(row, Head(wire)) : row \in page.rows} \in SUBSET ViewRow
    <3> DEFINE h == Head(wire)
    <3>1. \A row \in page.rows : row \in ViewRow
      BY <1>0 DEF PageType
    <3>2. h \in Message /\ h.status # "log"
      BY <2>1, <2>2
    <3> HIDE DEF h
    <3>3. \A row \in page.rows : Merged(row, h) \in ViewRow
      BY <3>1, <3>2, ViewRows
    <3>4. {Merged(row, h) : row \in page.rows} \in SUBSET ViewRow
      BY <3>3
    <3> QED BY <3>4 DEF h
  <2>4. page' \in PageType /\ listing' \in ListingType
    <3> DEFINE items == {Merged(row, Head(wire)) : row \in page.rows}
    <3>1. page.rows # {} => page' = [page EXCEPT !.rows = items] /\ listing' = listing
      BY <2>1
    <3>2. page.rows = {} => Refetch /\ page' = page
      BY <2>1
    <3>3. items \in SUBSET ViewRow
      BY <2>3
    <3> HIDE DEF items
    <3> QED BY <1>0, <3>1, <3>2, <3>3, NewRows, ListingAgain
  <2> QED BY <1>0, <1>00, <2>1, <2>2, <2>4
<1>12. CASE OnLog
  <2>1. /\ wire # << >> /\ wire' = Tail(wire)
        /\ page' = [page EXCEPT !.rows =
                      {[row EXCEPT !.output = @ \o Head(wire).output] : row \in page.rows}]
        /\ UNCHANGED <<workerVars, stale, inRoom, listing, hydration, deletion, looks>>
    BY <1>12 DEF OnLog
  <2>2. Head(wire) \in Message /\ wire' \in Seq(Message)
    BY <2>1, WireShrinks
  <2>3. \A row \in page.rows : [row EXCEPT !.output = @ \o Head(wire).output] \in ViewRow
    <3> TAKE row \in page.rows
    <3>1. row \in ViewRow /\ row.output \o Head(wire).output \in Seq(Nat)
      BY <1>0, <2>2 DEF PageType, ViewRow, Message
    <3> QED BY <3>1, ViewRows
  <2>4. page' \in PageType
    <3> DEFINE new(row) == [row EXCEPT !.output = @ \o Head(wire).output]
    <3>1. page' = [page EXCEPT !.rows = {new(row) : row \in page.rows}]
      BY <2>1
    <3>2. \A row \in page.rows : new(row) \in ViewRow
      BY <2>3
    <3> HIDE DEF new
    <3>3. {new(row) : row \in page.rows} \in SUBSET ViewRow
      BY <3>2
    <3> QED BY <1>0, <3>1, <3>3, NewRows
  <2> QED BY <1>0, <1>00, <2>1, <2>2, <2>4
<1>13. CASE OpenDrawer \/ Focus \/ ChangeFilters
  BY <1>13, <1>0, <1>00, Blanks DEF OpenDrawer, Focus, ChangeFilters
<1>14. CASE ServeLogs
  <2>1. hydration' \in HydrationType
    <3>1. << >> \in Seq(Nat)
      OBVIOUS
    <3> QED BY <1>14, <3>1, Blanks DEF ServeLogs, HydrationType
  <2> QED BY <1>14, <1>0, <1>00, <2>1 DEF ServeLogs
<1>15. CASE Hydrate
  <2>1. {Hydrated(row) : row \in page.rows} \in SUBSET ViewRow
    <3>1. \A row \in page.rows : row \in ViewRow
      BY <1>0 DEF PageType
    <3>2. \A row \in page.rows : Hydrated(row) \in ViewRow
      BY <1>0, <3>1, ViewRows DEF HydrationType
    <3> QED BY <3>2
  <2> QED BY <1>15, <1>0, <1>00, <2>1, NewRows, Blanks DEF Hydrate
<1>16. CASE StartDelete
  BY <1>16, <1>0, <1>00 DEF StartDelete
<1>17. CASE ServeDelete
  <2>1. /\ UNCHANGED <<logged, chunkPosts, notice, liveLog, late, wire, stale, page, listing,
                       hydration>>
        /\ deletion' \in {"done", "refused"}
        /\ runDoc' = runDoc \/ runDoc' = [runDoc EXCEPT !.deleted = TRUE]
    BY <1>17 DEF ServeDelete
  <2>2. /\ runDoc' = [status |-> runDoc'.status, output |-> runDoc'.output,
                      deleted |-> runDoc'.deleted]
        /\ runDoc'.status = runDoc.status /\ runDoc'.output = runDoc.output
        /\ runDoc'.deleted \in BOOLEAN
    BY <2>1
  <2> QED BY <2>1, <2>2
<1>18. CASE ShowDeletion
  <2>1. page' \in PageType /\ listing' \in ListingType
    <3>1. CASE deletion = "done"
      <4>1. page' = [page EXCEPT !.rows = {}] /\ Refetch /\ {} \in SUBSET ViewRow
        BY <1>18, <3>1 DEF ShowDeletion
      <4> QED BY <1>0, <4>1, NewRows, ListingAgain
    <3>2. CASE deletion # "done"
      BY <1>18, <1>0, <3>2 DEF ShowDeletion
    <3> QED BY <3>1, <3>2
  <2> QED BY <1>18, <1>0, <1>00, <2>1 DEF ShowDeletion
<1>19. CASE UNCHANGED liveViewVars
  BY <1>19 DEF liveViewVars
<1> QED
  BY <1>1, <1>2, <1>3, <1>4, <1>5, <1>6, <1>7, <1>8, <1>9, <1>10, <1>11, <1>12, <1>13, <1>14,
     <1>15, <1>16, <1>17, <1>18, <1>19 DEF LiveViewNext, RunStatus

LEMMA NoMoreThanRead ==
    ASSUME ViewTyped
    PROVE  /\ IsFiniteSet(chunkPosts) /\ Cardinality(chunkPosts) \in Nat
           /\ Len(liveLog) \in Nat /\ Len(hydration.output) \in Nat
           /\ \A c \in chunkPosts : Cardinality(chunkPosts \ {c}) = Cardinality(chunkPosts) - 1
           /\ logged + 1 \notin chunkPosts
           /\ Cardinality(chunkPosts \cup {logged + 1}) = Cardinality(chunkPosts) + 1
<1>1. IsFiniteSet(1..logged) /\ chunkPosts \subseteq 1..logged /\ logged \in Nat
  BY FS_Interval DEF ViewTyped
<1>2. IsFiniteSet(chunkPosts)
  BY <1>1, FS_Subset
<1>3. logged + 1 \notin chunkPosts
  BY <1>1
<1>4. Len(liveLog) \in Nat /\ Len(hydration.output) \in Nat
  BY DEF ViewTyped, HydrationType
<1>5. Cardinality(chunkPosts) \in Nat
  BY <1>2, FS_CardinalityType
<1>6. Cardinality(chunkPosts \cup {logged + 1}) = Cardinality(chunkPosts) + 1
  BY <1>2, <1>3, FS_AddElement
<1>7. \A c \in chunkPosts : Cardinality(chunkPosts \ {c}) = Cardinality(chunkPosts) - 1
  BY <1>2, FS_RemoveElement
<1> QED BY <1>2, <1>3, <1>4, <1>5, <1>6, <1>7

LEMMA LogsKept ==
    ASSUME ViewTyped, Logs, [LiveViewNext]_liveViewVars
    PROVE  Logs'
<1> USE DEF Logs, workerVars, clientVars
<1>0. /\ Cardinality(chunkPosts) \in Nat /\ Len(liveLog) \in Nat
      /\ Len(hydration.output) \in Nat /\ logged \in Nat
  BY NoMoreThanRead DEF ViewTyped
<1>00. ASSUME UNCHANGED <<runDoc, logged, chunkPosts, liveLog>>, Len(hydration'.output) <= logged,
              \A i \in DOMAIN wire' : \E j \in DOMAIN wire : wire'[i] = wire[j]
       PROVE  Logs'
  BY <1>00 DEF Full
<1>1. ASSUME NEW from \in {"none", "PENDING", "RUNNING"}, NEW to \in RunStatus,
             WriteRunStatus(from, to)
      PROVE  Logs'
  <2>1. /\ runDoc' = [runDoc EXCEPT !.status = to, !.output = IF to = "PASSED" THEN Full ELSE @]
        /\ UNCHANGED <<logged, chunkPosts, liveLog, wire, hydration>> /\ runDoc.status = from
    BY <1>1 DEF WriteRunStatus
  <2>2. runDoc.output = << >> /\ \A i \in DOMAIN wire : wire[i].status # "PASSED"
    BY <2>1
  <2>3. /\ Full' = Full /\ runDoc'.status = to
        /\ runDoc'.output = IF to = "PASSED" THEN Full ELSE runDoc.output
    BY <2>1 DEF Full, ViewTyped
  <2> HIDE DEF Full
  <2> QED BY <2>1, <2>2, <2>3
<1>2. CASE AnnounceStatus
  <2> DEFINE m == [status |-> notice, output |-> runDoc.output]
  <2>1. /\ notice # "none" /\ notice = runDoc.status
        /\ wire' = IF inRoom THEN Append(wire, m) ELSE wire
        /\ liveLog' = liveLog \/ liveLog' = << >>
        /\ UNCHANGED <<runDoc, logged, chunkPosts, hydration>>
    BY <1>2 DEF AnnounceStatus, ToRoom, ViewTyped
  <2>2. m \in Message /\ m.status = runDoc.status /\ m.output = runDoc.output
    BY <2>1 DEF Message, ViewTyped
  <2> HIDE DEF m
  <2>3. Full' = Full
    BY <2>1 DEF Full
  <2>4. Len(liveLog') <= Len(liveLog)
    BY <1>0, <2>1
  <2>5. \A i \in DOMAIN wire' : wire'[i] = m \/ \E j \in DOMAIN wire : wire'[i] = wire[j]
    <3>1. CASE inRoom
      <4>1. wire \in Seq(Message)
        BY DEF ViewTyped
      <4>2. \A i \in 1..(Len(wire) + 1) : i \in 1..Len(wire) \/ i = Len(wire) + 1
        BY <2>2, <4>1, WireGrows
      <4> QED BY <2>1, <2>2, <3>1, <4>1, <4>2, WireGrows
    <3>2. CASE ~inRoom
      BY <2>1, <3>2
    <3> QED BY <3>1, <3>2
  <2>6. Len(liveLog') + Cardinality(chunkPosts') <= logged'
    <3>1. Len(liveLog') \in Nat
      BY <1>0, <2>1
    <3> QED BY <1>0, <2>1, <2>4, <3>1
  <2>7. \A i \in DOMAIN wire' : wire'[i].status = "PASSED" =>
            runDoc'.status = "PASSED" /\ wire'[i].output = Full'
    BY <2>1, <2>2, <2>3, <2>5
  <2> QED BY <2>1, <2>3, <2>6, <2>7
<1>3. CASE AnnouncementLost
  BY <1>3, <1>00 DEF AnnouncementLost
<1>4. CASE ReadChunk
  <2>1. /\ runDoc.status = "RUNNING" /\ logged' = logged + 1
        /\ chunkPosts' = chunkPosts \cup {logged + 1}
        /\ UNCHANGED <<runDoc, liveLog, wire, hydration>>
    BY <1>4 DEF ReadChunk
  <2>2. Len(liveLog') + Cardinality(chunkPosts') <= logged'
    BY <1>0, <2>1, NoMoreThanRead
  <2>3. \A i \in DOMAIN wire : wire[i].status # "PASSED"
    BY <2>1
  <2> QED BY <1>0, <2>1, <2>2, <2>3
<1>5. CASE PostChunk
  <2>1. PICK c \in chunkPosts :
           /\ chunkPosts' = chunkPosts \ {c}
           /\ wire' = IF inRoom THEN Append(wire, [status |-> "log", output |-> <<c>>]) ELSE wire
           /\ liveLog' \in {liveLog, Append(liveLog, c)}
           /\ UNCHANGED <<runDoc, logged, hydration>>
    BY <1>5 DEF PostChunk
  <2> DEFINE m == [status |-> "log", output |-> <<c>>]
  <2>2. m \in Message /\ m.status = "log"
    <3>1. c \in Nat
      BY DEF ViewTyped
    <3> QED BY <3>1 DEF Message
  <2>20. wire' = IF inRoom THEN Append(wire, m) ELSE wire
    BY <2>1
  <2> HIDE DEF m
  <2>3. \A i \in DOMAIN wire' : wire'[i] = m \/ \E j \in DOMAIN wire : wire'[i] = wire[j]
    <3>1. CASE inRoom
      <4>1. wire \in Seq(Message)
        BY DEF ViewTyped
      <4>2. \A i \in 1..(Len(wire) + 1) : i \in 1..Len(wire) \/ i = Len(wire) + 1
        BY <2>2, <4>1, WireGrows
      <4> QED BY <2>20, <2>2, <3>1, <4>1, <4>2, WireGrows
    <3>2. CASE ~inRoom
      BY <2>20, <3>2
    <3> QED BY <3>1, <3>2
  <2>4. Len(liveLog') \in Nat /\ Len(liveLog') <= Len(liveLog) + 1
    <3>1. c \in Nat /\ liveLog \in Seq(Nat)
      BY DEF ViewTyped
    <3> QED BY <2>1, <3>1
  <2>5. Cardinality(chunkPosts') = Cardinality(chunkPosts) - 1
    BY <2>1, NoMoreThanRead
  <2>6. Len(liveLog') + Cardinality(chunkPosts') <= logged'
    BY <1>0, <2>1, <2>4, <2>5
  <2>7. Full' = Full
    BY <2>1 DEF Full
  <2>8. \A i \in DOMAIN wire' : wire'[i].status = "PASSED" =>
            runDoc'.status = "PASSED" /\ wire'[i].output = Full'
    BY <2>1, <2>2, <2>3, <2>7
  <2> QED BY <2>1, <2>6, <2>7, <2>8
<1>6. CASE ChunkLost
  <2>1. PICK c \in chunkPosts :
           chunkPosts' = chunkPosts \ {c} /\ UNCHANGED <<runDoc, logged, liveLog, wire, hydration>>
    BY <1>6 DEF ChunkLost
  <2>2. Cardinality(chunkPosts') = Cardinality(chunkPosts) - 1
    BY <2>1, NoMoreThanRead
  <2>3. Full' = Full
    BY <2>1 DEF Full
  <2> QED BY <1>0, <2>1, <2>2, <2>3
<1>7. CASE Joins \/ AnswerList \/ ShowList \/ StartDelete \/ ShowDeletion
  BY <1>7, <1>00 DEF Joins, AnswerList, ShowList, StartDelete, ShowDeletion
<1>8. CASE Disconnect
  BY <1>8, <1>00 DEF Disconnect
<1>9. CASE OnUpdate \/ OnLog
  <2>1. /\ wire # << >> /\ wire' = Tail(wire)
        /\ UNCHANGED <<runDoc, logged, chunkPosts, liveLog, hydration>>
    BY <1>9 DEF OnUpdate, OnLog
  <2>2. \A i \in DOMAIN wire' : \E j \in DOMAIN wire : wire'[i] = wire[j]
    <3>1. wire \in Seq(Message)
      BY DEF ViewTyped
    <3>2. \A i \in 1..(Len(wire) - 1) : i + 1 \in 1..Len(wire)
      BY <3>1
    <3> QED BY <2>1, <3>1, <3>2, WireShrinks
  <2> QED BY <1>00, <2>1, <2>2
<1>10. CASE OpenDrawer \/ Focus \/ ChangeFilters \/ Hydrate
  <2>1. hydration' \in {hydration, NoHydration, [NoHydration EXCEPT !.at = "asked"]}
    BY <1>10 DEF OpenDrawer, Focus, ChangeFilters, Hydrate
  <2>2. Len(hydration'.output) = Len(hydration.output) \/ Len(hydration'.output) = 0
    BY <2>1, Blanks
  <2>3. Len(hydration'.output) <= logged
    BY <1>0, <2>2
  <2> QED BY <1>10, <1>00, <2>3 DEF OpenDrawer, Focus, ChangeFilters, Hydrate
<1>11. CASE ServeLogs
  <2>1. hydration'.output \in {<< >>, liveLog, runDoc.output}
    BY <1>11 DEF ServeLogs, NoHydration
  <2>2. Len(liveLog) <= logged
    BY <1>0
  <2>3. Len(runDoc.output) <= logged
    BY <1>0, FullLog
  <2>4. Len(<< >>) <= logged
    BY <1>0
  <2>5. Len(hydration'.output) <= logged
    BY <2>1, <2>2, <2>3, <2>4
  <2> QED BY <1>11, <1>00, <2>5 DEF ServeLogs
<1>12. CASE ServeDelete
  <2>1. /\ UNCHANGED <<logged, chunkPosts, liveLog, wire, hydration>>
        /\ runDoc'.status = runDoc.status /\ runDoc'.output = runDoc.output
    BY <1>12 DEF ServeDelete, ViewTyped
  <2> QED BY <2>1 DEF Full
<1>13. CASE UNCHANGED liveViewVars
  BY <1>13, <1>00 DEF liveViewVars
<1> QED
  BY <1>1, <1>2, <1>3, <1>4, <1>5, <1>6, <1>7, <1>8, <1>9, <1>10, <1>11, <1>12, <1>13
  DEF LiveViewNext, RunStatus

LEMMA SameWire ==
    ASSUME UNCHANGED <<runDoc, notice, late, wire, logged, deletion>>
    PROVE  (InOrder' <=> InOrder) /\ \A items : Right(items)' <=> Right(items)
  BY DEF InOrder, Right, OnItsWay, Full

LEMMA NextMessage ==
    ASSUME ViewTyped, wire # << >>, wire' = Tail(wire), UNCHANGED <<runDoc, notice, late>>
    PROVE  /\ InOrder => InOrder'
           /\ InOrder /\ ~OnItsWay' => Head(wire).status \in {"log", runDoc.status}
           /\ Head(wire).status = "log" => (OnItsWay' <=> OnItsWay)
<1>1. /\ Len(wire) \in Nat /\ Len(wire) >= 1 /\ Head(wire) = wire[1]
      /\ Len(wire') = Len(wire) - 1 /\ DOMAIN wire' = 1..(Len(wire) - 1)
      /\ DOMAIN wire = 1..Len(wire)
      /\ \A i \in 1..(Len(wire) - 1) : wire'[i] = wire[i + 1]
  BY WireShrinks DEF ViewTyped
<1>2. \A i \in DOMAIN wire : i = 1 \/ (i - 1 \in DOMAIN wire' /\ wire'[i - 1] = wire[i])
  BY <1>1
<1>3. \A i \in DOMAIN wire' : i + 1 \in DOMAIN wire /\ wire'[i] = wire[i + 1]
  BY <1>1
<1>4. InOrder => InOrder'
  <2> SUFFICES ASSUME InOrder, notice = "none"
               PROVE  /\ \A i \in DOMAIN wire' :
                           wire'[i].status # "log" /\
                           (\A j \in DOMAIN wire' : j > i => wire'[j].status = "log")
                             => wire'[i].status = runDoc.status
                      /\ runDoc.status = "PASSED" /\ ~late =>
                           wire' = << >> \/ wire'[Len(wire')].status # "log"
    BY DEF InOrder
  <2>1. ASSUME NEW i \in DOMAIN wire', wire'[i].status # "log",
               \A j \in DOMAIN wire' : j > i => wire'[j].status = "log"
        PROVE  wire'[i].status = runDoc.status
    <3>1. i + 1 \in DOMAIN wire /\ wire'[i] = wire[i + 1] /\ i \in Nat
      BY <1>1, <1>3
    <3>2. ASSUME NEW j \in DOMAIN wire, j > i + 1 PROVE wire[j].status = "log"
      <4>1. j - 1 \in DOMAIN wire' /\ wire'[j - 1] = wire[j] /\ j - 1 > i
        BY <1>1, <1>2, <3>1, <3>2
      <4> QED BY <2>1, <4>1
    <3> QED BY <2>1, <3>1, <3>2 DEF InOrder
  <2>2. ASSUME runDoc.status = "PASSED", ~late, wire' # << >>
        PROVE  wire'[Len(wire')].status # "log"
    <3>1. wire' \in Seq(Message)
      BY WireShrinks DEF ViewTyped
    <3>2. Len(wire') # 0
      BY <2>2, <3>1
    <3>3. wire'[Len(wire')] = wire[Len(wire)]
      BY <1>1, <3>2
    <3> QED BY <2>2, <3>3 DEF InOrder
  <2> QED BY <2>1, <2>2
<1>5. ASSUME InOrder, ~OnItsWay' PROVE Head(wire).status \in {"log", runDoc.status}
  <2>1. notice = "none" /\ \A i \in DOMAIN wire' : wire'[i].status = "log"
    BY <1>5 DEF OnItsWay
  <2>2. ASSUME NEW j \in DOMAIN wire, j > 1 PROVE wire[j].status = "log"
    <3>1. j # 1
      BY <1>1, <2>2
    <3>2. j - 1 \in DOMAIN wire' /\ wire'[j - 1] = wire[j]
      BY <1>2, <3>1
    <3>3. wire'[j - 1].status = "log"
      BY <2>1, <3>2
    <3> QED BY <3>2, <3>3
  <2>3. 1 \in DOMAIN wire
    BY <1>1
  <2> QED BY <1>1, <1>5, <2>1, <2>2, <2>3 DEF InOrder
<1>6. Head(wire).status = "log" => (OnItsWay' <=> OnItsWay)
  BY <1>1, <1>2, <1>3 DEF OnItsWay
<1> QED BY <1>4, <1>5, <1>6

LEMMA SettlingKept ==
    ASSUME ViewTyped, ViewInv, [LiveViewNext]_liveViewVars
    PROVE  Settling'
<1> USE DEF workerVars, clientVars
<1>0. Logs /\ Settling
  BY DEF ViewInv
<1>00. page \in PageType /\ listing \in ListingType /\ hydration \in HydrationType
  BY DEF ViewTyped
<1>01. ASSUME UNCHANGED <<runDoc, notice, late, wire, logged, deletion, page>>,
              listing' = listing \/ listing'.at = "asked", stale' = stale
       PROVE  Settling'
  BY <1>0, <1>01, SameWire DEF Settling
<1>02. ASSUME UNCHANGED <<page, listing>>, ~stale' => ~stale,
              ~stale' => InOrder', ~stale' => \A items : Right(items) => Right(items)'
       PROVE  Settling'
  BY <1>0, <1>02 DEF Settling
<1>1. ASSUME NEW from \in {"none", "PENDING", "RUNNING"}, NEW to \in RunStatus,
             WriteRunStatus(from, to)
      PROVE  Settling'
  <2>1. notice' # "none" /\ UNCHANGED <<page, listing, stale, deletion>>
    BY <1>1 DEF WriteRunStatus, RunStatus
  <2>2. runDoc'.deleted = runDoc.deleted
    BY <1>1 DEF WriteRunStatus, ViewTyped
  <2>3. InOrder' /\ OnItsWay'
    BY <2>1 DEF InOrder, OnItsWay
  <2>4. \A items : Right(items) => Right(items)'
    BY <2>1, <2>2, <2>3 DEF Right
  <2> QED BY <1>02, <2>1, <2>3, <2>4
<1>2. CASE AnnounceStatus
  <2>1. CASE ~inRoom
    BY <1>2, <1>02, <2>1 DEF AnnounceStatus, ToRoom
  <2>2. CASE inRoom
    <3> DEFINE m == [status |-> notice, output |-> runDoc.output]
    <3>1. /\ m \in Message /\ m.status = runDoc.status /\ m.status # "log"
      BY <1>2 DEF AnnounceStatus, Message, ViewTyped, RunStatus
    <3>2. /\ wire' = Append(wire, m)
          /\ UNCHANGED <<runDoc, late, logged, page, listing, deletion, stale>>
      BY <1>2, <2>2 DEF AnnounceStatus, ToRoom, ViewTyped
    <3> HIDE DEF m
    <3>3. /\ Len(wire) \in Nat /\ DOMAIN wire' = 1..(Len(wire) + 1)
          /\ wire'[Len(wire) + 1] = m /\ Len(wire') = Len(wire) + 1
      BY <3>1, <3>2, WireGrows DEF ViewTyped
    <3>4. OnItsWay'
      BY <3>1, <3>3 DEF OnItsWay
    <3>5. ASSUME NEW i \in DOMAIN wire', wire'[i].status # "log",
                 \A j \in DOMAIN wire' : j > i => wire'[j].status = "log"
          PROVE  wire'[i].status = runDoc.status
      <4>1. i = Len(wire) + 1
        BY <3>1, <3>3, <3>5
      <4> QED BY <3>1, <3>3, <4>1
    <3>6. InOrder'
      BY <3>1, <3>2, <3>3, <3>5 DEF InOrder
    <3>7. \A items : Right(items) => Right(items)'
      BY <3>2, <3>4 DEF Right
    <3> QED BY <1>02, <3>2, <3>6, <3>7
  <2> QED BY <2>1, <2>2
<1>3. CASE AnnouncementLost
  BY <1>3, <1>02 DEF AnnouncementLost
<1>4. CASE ReadChunk
  <2>1. /\ runDoc.status = "RUNNING"
        /\ UNCHANGED <<runDoc, notice, late, wire, deletion, page, listing, stale>>
    BY <1>4 DEF ReadChunk
  <2>2. InOrder' <=> InOrder
    BY <2>1 DEF InOrder
  <2>3. \A items : Right(items) => Right(items)'
    BY <2>1 DEF Right, OnItsWay
  <2> QED BY <1>0, <1>02, <2>1, <2>2, <2>3 DEF Settling
<1>5. CASE PostChunk
  <2>1. PICK c \in chunkPosts :
           /\ wire' = IF inRoom THEN Append(wire, [status |-> "log", output |-> <<c>>]) ELSE wire
           /\ late' = (late \/ (runDoc.status = "PASSED" /\ notice = "none"))
           /\ UNCHANGED <<runDoc, logged, notice, stale, page, listing, deletion>>
    BY <1>5 DEF PostChunk
  <2> DEFINE m == [status |-> "log", output |-> <<c>>]
  <2>2. m \in Message /\ m.status = "log"
    <3>1. c \in Nat
      BY DEF ViewTyped
    <3> QED BY <3>1 DEF Message
  <2>3. wire' = wire \/ wire' = Append(wire, m)
    BY <2>1
  <2> HIDE DEF m
  <2>4. /\ \A i \in DOMAIN wire : i \in DOMAIN wire' /\ wire'[i] = wire[i]
        /\ \A i \in DOMAIN wire' : wire'[i].status # "log" => i \in DOMAIN wire
    <3>1. wire \in Seq(Message)
      BY DEF ViewTyped
    <3>2. \A i \in 1..(Len(wire) + 1) : i \in 1..Len(wire) \/ i = Len(wire) + 1
      BY <3>1
    <3> QED BY <2>2, <2>3, <3>1, <3>2, WireGrows
  <2>5. OnItsWay' <=> OnItsWay
    BY <2>1, <2>4 DEF OnItsWay
  <2>6. InOrder => InOrder'
    <3> SUFFICES ASSUME InOrder, notice = "none"
                 PROVE  \A i \in DOMAIN wire' :
                           wire'[i].status # "log" /\
                           (\A j \in DOMAIN wire' : j > i => wire'[j].status = "log")
                             => wire'[i].status = runDoc.status
      BY <2>1 DEF InOrder
    <3> QED BY <2>4 DEF InOrder
  <2>7. \A items : Right(items) => Right(items)'
    <3>1. runDoc.status = "PASSED" /\ ~late' => ~late /\ OnItsWay
      BY <2>1 DEF OnItsWay
    <3> QED BY <2>1, <2>5, <3>1 DEF Right, Full
  <2> QED BY <1>0, <1>02, <2>1, <2>6, <2>7 DEF Settling
<1>6. CASE ChunkLost \/ Joins \/ OpenDrawer \/ ServeLogs
  BY <1>6, <1>01 DEF ChunkLost, Joins, OpenDrawer, ServeLogs
<1>7. CASE Focus
  <2>1. listing' = listing \/ listing'.at = "asked"
    BY <1>7, Blanks DEF Focus
  <2> QED BY <1>7, <1>01, <2>1 DEF Focus
<1>8. CASE ChangeFilters
  <2>1. listing'.at = "asked" /\ stale' = stale /\ (InOrder' <=> InOrder)
    BY <1>8, Blanks, SameWire DEF ChangeFilters
  <2> QED BY <1>0, <2>1 DEF Settling
<1>9. CASE Disconnect
  <2>1. ~stale' => ~stale /\ UNCHANGED wire
    BY <1>9 DEF Disconnect
  <2>2. UNCHANGED <<runDoc, notice, late, logged, deletion, page, listing>>
    BY <1>9 DEF Disconnect
  <2>3. ~stale' => (InOrder' <=> InOrder) /\ \A items : Right(items)' <=> Right(items)
    BY <2>1, <2>2, SameWire
  <2> QED BY <1>0, <1>02, <2>1, <2>2, <2>3 DEF Settling
<1>10. CASE AnswerList
  <2>1. /\ listing'.at = "answered" /\ listing'.rows = Listed /\ stale' = (stale /\ wire # << >>)
        /\ UNCHANGED <<runDoc, notice, late, wire, logged, deletion, page>>
    BY <1>10 DEF AnswerList
  <2>2. ~stale' => InOrder
    <3>1. CASE wire = << >>
      <4>1. DOMAIN wire = {}
        BY <3>1
      <4> QED BY <3>1, <4>1 DEF InOrder
    <3>2. CASE wire # << >>
      BY <1>0, <2>1, <3>2 DEF Settling
    <3> QED BY <3>1, <3>2
  <2>3. Right(Listed)
    <3> DEFINE storedRow == [status |-> runDoc.status, output |-> runDoc.output]
    <3>1. /\ runDoc.deleted \/ runDoc.status = "none" => Listed = {}
          /\ ~(runDoc.deleted \/ runDoc.status = "none") => Listed = {storedRow}
      BY DEF Listed
    <3>2. storedRow.status = runDoc.status /\ (runDoc.status = "PASSED" => storedRow.output = Full)
      BY <1>0 DEF Logs
    <3> HIDE DEF storedRow
    <3> QED BY <3>1, <3>2 DEF Right
  <2>4. Right(listing.rows)'
    <3>1. \A items : Right(items)' <=> Right(items)
      BY <2>1, SameWire
    <3>2. Right(listing'.rows)
      BY <2>1, <2>3
    <3>3. \A items : items = listing'.rows => Right(items)'
      BY <3>1, <3>2
    <3> QED BY <3>3
  <2>5. ~stale' => InOrder'
    BY <2>1, <2>2, SameWire
  <2> QED BY <2>1, <2>4, <2>5 DEF Settling
<1>11. CASE ShowList
  <2>1. /\ listing.at = "answered" /\ page'.loaded /\ page'.rows = listing.rows
        /\ listing'.at = "idle" /\ UNCHANGED <<runDoc, notice, late, wire, logged, deletion, stale>>
    BY <1>11 DEF ShowList, NoFetch
  <2> QED BY <1>0, <2>1, SameWire DEF Settling
<1>12. CASE OnUpdate
  <2> DEFINE h == Head(wire)
  <2>1. /\ wire # << >> /\ h.status # "log" /\ wire' = Tail(wire) /\ h \in Message
        /\ stale' = (stale \/ listing'.at = "answered")
        /\ UNCHANGED <<runDoc, notice, late, logged, deletion>>
    BY <1>12, WireShrinks DEF OnUpdate, ViewTyped
  <2>2. ~stale' => InOrder' /\ InOrder
    BY <1>0, <2>1, NextMessage DEF Settling
  <2>3. CASE page.rows = {}
    <3>1. Refetch /\ page' = page
      BY <1>12, <2>3 DEF OnUpdate
    <3>2. listing'.at # "idle"
      BY <1>0, <1>00, <3>1, ListingAgain DEF Settling
    <3> QED BY <2>1, <2>2, <3>2 DEF Settling
  <2>4. CASE page.rows # {}
    <3> DEFINE merged == {Merged(row, h) : row \in page.rows}
    <3>1. listing' = listing /\ page' = [page EXCEPT !.rows = merged]
      BY <1>12, <2>4 DEF OnUpdate
    <3>2. merged # {} /\ \A new \in merged : \E row \in page.rows : new = Merged(row, h)
      BY <2>4
    <3>3. merged \in SUBSET ViewRow
      <4>1. \A row \in page.rows : row \in ViewRow
        BY <1>00 DEF PageType
      <4> HIDE DEF h
      <4>2. \A row \in page.rows : Merged(row, h) \in ViewRow
        BY <2>1, <4>1, ViewRows
      <4> QED BY <4>2
    <3>4. ASSUME ~stale', listing.at = "idle" PROVE Right(page.rows)'
      <4>1. ~runDoc.deleted \/ deletion = "done"
        BY <1>0, <2>1, <2>4, <3>4 DEF Settling, Right
      <4>2. ASSUME ~OnItsWay', NEW new \in merged
            PROVE  new.status = runDoc.status /\ (runDoc.status = "PASSED" => new.output = Full)
        <5>1. h.status = runDoc.status
          BY <2>1, <2>2, <3>4, <4>2, NextMessage
        <5>2. runDoc.status = "PASSED" => h.output = Full
          <6>1. 1 \in DOMAIN wire /\ h = wire[1]
            BY <2>1, WireShrinks DEF ViewTyped
          <6> QED BY <1>0, <5>1, <6>1 DEF Logs
        <5>3. PICK row \in page.rows : new = Merged(row, h)
          BY <3>2
        <5> QED BY <5>1, <5>2, <5>3 DEF Merged
      <4>3. Full' = Full
        BY <2>1 DEF Full
      <4> HIDE DEF merged
      <4>4. /\ ~(runDoc.deleted /\ deletion # "done") /\ merged # {}
            /\ ~OnItsWay' => \A row \in merged :
                   row.status = runDoc.status /\ (runDoc.status = "PASSED" => row.output = Full)
        BY <3>2, <4>1, <4>2
      <4>5. \A items : items = merged => Right(items)'
        BY <2>1, <4>3, <4>4 DEF Right
      <4>6. page'.rows = merged
        BY <1>00, <3>1, <3>3, NewRows
      <4> QED BY <4>5, <4>6
    <3>5. page'.loaded = page.loaded
      BY <1>00, <3>1, <3>3, NewRows
    <3> QED BY <1>0, <2>1, <2>2, <3>1, <3>4, <3>5 DEF Settling
  <2> QED BY <2>3, <2>4
<1>13. CASE OnLog
  <2> DEFINE longer(row) == [row EXCEPT !.output = @ \o Head(wire).output]
             shownRows == {longer(row) : row \in page.rows}
  <2>1. /\ wire # << >> /\ Head(wire).status = "log" /\ wire' = Tail(wire) /\ Head(wire) \in Message
        /\ page' = [page EXCEPT !.rows = shownRows]
        /\ UNCHANGED <<runDoc, notice, late, logged, deletion, listing, stale>>
    BY <1>13, WireShrinks DEF OnLog, ViewTyped
  <2>2. InOrder => InOrder'
    BY <2>1, NextMessage
  <2>3. OnItsWay' <=> OnItsWay
    BY <2>1, NextMessage
  <2>4. \A items : Right(items) => Right(items)'
    BY <2>1, <2>3 DEF Right, Full
  <2>5. \A row \in page.rows : longer(row) \in ViewRow /\ longer(row).status = row.status
    <3> TAKE row \in page.rows
    <3>1. row \in ViewRow /\ row.output \o Head(wire).output \in Seq(Nat)
      BY <1>00, <2>1 DEF PageType, ViewRow, Message
    <3> QED BY <3>1, ViewRows
  <2> HIDE DEF longer
  <2>6. shownRows \in SUBSET ViewRow
    BY <2>5
  <2>7. page'.rows = shownRows /\ page'.loaded = page.loaded
    BY <1>00, <2>1, <2>6, NewRows
  <2>8. ASSUME ~stale, listing.at = "idle" PROVE Right(page.rows)'
    <3>1. Right(page.rows) /\ InOrder
      BY <1>0, <2>8 DEF Settling
    <3>2. runDoc.status = "PASSED" /\ ~late => OnItsWay
      <4>1. Len(wire) \in DOMAIN wire
        BY <2>1, WireShrinks DEF ViewTyped
      <4> QED BY <2>1, <3>1, <4>1 DEF InOrder, OnItsWay
    <3>3. (shownRows = {} <=> page.rows = {})
          /\ \A new \in shownRows : \E row \in page.rows : new.status = row.status
      BY <2>5
    <3> HIDE DEF shownRows
    <3>4. \A items : items = shownRows => Right(items)'
      BY <2>1, <2>3, <3>1, <3>2, <3>3 DEF Right
    <3> QED BY <2>7, <3>4
  <2> QED BY <1>0, <2>1, <2>2, <2>4, <2>7, <2>8 DEF Settling
<1>14. CASE Hydrate
  <2> DEFINE shownRows == {Hydrated(row) : row \in page.rows}
  <2>1. /\ page' = [page EXCEPT !.rows = shownRows]
        /\ UNCHANGED <<runDoc, notice, late, wire, logged, deletion, listing, stale>>
    BY <1>14 DEF Hydrate
  <2>2. \A row \in page.rows : row \in ViewRow
    BY <1>00 DEF PageType
  <2>3. \A row \in page.rows : Hydrated(row) \in ViewRow /\ Hydrated(row).status = row.status
    BY <1>00, <2>2, ViewRows DEF HydrationType
  <2>4. shownRows \in SUBSET ViewRow
    BY <2>3
  <2>5. page'.rows = shownRows /\ page'.loaded = page.loaded
    BY <1>00, <2>1, <2>4, NewRows
  <2>6. ASSUME Right(page.rows) PROVE Right(shownRows)
    <3>1. ASSUME NEW row \in page.rows, row.output = Full PROVE Hydrated(row) = row
      <4>1. Len(row.output) = logged /\ logged \in Nat
        BY <3>1, FullLog DEF ViewTyped
      <4>2. ~(Len(row.output) < Len(hydration.output))
        BY <1>0, <4>1, NoMoreThanRead DEF Logs
      <4> QED BY <2>2, <4>2, ViewRows
    <3>2. (shownRows = {} <=> page.rows = {})
          /\ \A new \in shownRows : \E row \in page.rows :
                new.status = row.status /\ (row.output = Full => new.output = Full)
      BY <2>3, <3>1
    <3> HIDE DEF shownRows
    <3> QED BY <2>6, <3>2 DEF Right
  <2>7. Right(page.rows) => Right(page.rows)'
    <3> HIDE DEF shownRows
    <3>1. \A items : Right(items)' <=> Right(items)
      BY <2>1, SameWire
    <3>2. Right(page'.rows) => Right(page.rows)'
      BY <3>1
    <3> QED BY <2>5, <2>6, <3>2
  <2> QED BY <1>0, <2>1, <2>5, <2>7, SameWire DEF Settling
<1>15. CASE StartDelete
  <2>1. /\ UNCHANGED <<runDoc, notice, late, wire, logged, page, listing, stale>>
        /\ deletion # "done" /\ deletion' # "done"
    BY <1>15 DEF StartDelete
  <2>2. (InOrder' <=> InOrder) /\ \A items : Right(items) => Right(items)'
    BY <2>1 DEF InOrder, Right, OnItsWay, Full
  <2> QED BY <1>0, <1>02, <2>1, <2>2 DEF Settling
<1>16. CASE ServeDelete
  <2>1. /\ UNCHANGED <<notice, late, wire, logged, page, listing, stale>>
        /\ runDoc'.status = runDoc.status /\ deletion # "done"
        /\ \/ deletion' = "done" /\ (runDoc.deleted => runDoc'.deleted)
           \/ UNCHANGED runDoc
    BY <1>16 DEF ServeDelete, ViewTyped
  <2>2. (InOrder' <=> InOrder) /\ \A items : Right(items) => Right(items)'
    BY <2>1 DEF InOrder, Right, OnItsWay, Full
  <2> QED BY <1>0, <1>02, <2>1, <2>2 DEF Settling
<1>17. CASE ShowDeletion
  <2>1. UNCHANGED <<runDoc, notice, late, wire, logged>> /\ (InOrder' <=> InOrder)
    BY <1>17 DEF ShowDeletion, InOrder
  <2>2. CASE deletion = "done"
    <3>1. Refetch /\ stale' = (stale \/ listing'.at = "answered")
      BY <1>17, <2>2 DEF ShowDeletion
    <3>2. listing'.at # "idle"
      BY <1>0, <1>00, <3>1, ListingAgain DEF Settling
    <3> QED BY <1>0, <2>1, <3>1, <3>2 DEF Settling
  <2>3. CASE deletion # "done"
    <3>1. UNCHANGED <<page, listing>> /\ stale' = stale /\ deletion' # "done"
      BY <1>17, <2>3, <1>0 DEF ShowDeletion, ViewTyped
    <3>2. \A items : Right(items) => Right(items)'
      BY <2>1, <2>3, <3>1 DEF Right, OnItsWay, Full
    <3> QED BY <1>0, <1>02, <2>1, <3>1, <3>2 DEF Settling
  <2> QED BY <2>2, <2>3
<1>18. CASE UNCHANGED liveViewVars
  BY <1>18, <1>01 DEF liveViewVars
<1> QED
  BY <1>1, <1>2, <1>3, <1>4, <1>5, <1>6, <1>7, <1>8, <1>9, <1>10, <1>11, <1>12, <1>13, <1>14,
     <1>15, <1>16, <1>17, <1>18 DEF LiveViewNext, RunStatus

\* The rows of the page are right or about to be, in every reachable state.
THEOREM ViewInvariant == LiveViewSpec => [](ViewTyped /\ ViewInv)
<1>1. LiveViewInit => ViewTyped /\ ViewInv
  BY ViewStarts
<1>2. ViewTyped /\ ViewInv /\ [LiveViewNext]_liveViewVars => (ViewTyped /\ ViewInv)'
  BY ViewTypedKept, LogsKept, SettlingKept DEF ViewInv
<1> QED BY <1>1, <1>2, PTL DEF LiveViewSpec

\* ViewSettles in every state, for a log of any length and any number of looks: when
\* everything sent has arrived, the dashboard shows the run as it is stored.
THEOREM ViewAlwaysSettles == LiveViewSpec => []ViewSettles
<1>1. ViewTyped /\ ViewInv => ViewSettles
  <2> SUFFICES ASSUME ViewTyped, ViewInv, ~stale, notice = "none", wire = << >>,
                      listing.at = "idle", deletion = "idle"
               PROVE  /\ {row.status : row \in page.rows} = {row.status : row \in Listed}
                      /\ runDoc.status = "PASSED" /\ ~late => page.rows = Listed
    BY DEF ViewSettles
  <2>1. Right(page.rows) /\ ~OnItsWay /\ page.rows \subseteq ViewRow
    <3>1. DOMAIN wire = {}
      OBVIOUS
    <3> QED BY <3>1 DEF ViewInv, Settling, OnItsWay, ViewTyped, PageType
  <2>2. CASE runDoc.deleted
    BY <2>1, <2>2 DEF Right, Listed
  <2>3. CASE ~runDoc.deleted /\ runDoc.status = "none"
    <3>1. page.rows = {}
      BY <2>1, <2>3 DEF Right, ViewRow, RunStatus
    <3> QED BY <2>3, <3>1 DEF Listed
  <2>4. CASE ~runDoc.deleted /\ runDoc.status # "none"
    <3> DEFINE storedRow == [status |-> runDoc.status, output |-> runDoc.output]
    <3>1. /\ Listed = {storedRow} /\ page.rows # {}
          /\ \A row \in page.rows : row.status = runDoc.status
      BY <2>1, <2>4 DEF Right, Listed
    <3>2. {row.status : row \in page.rows} = {row.status : row \in Listed}
      BY <3>1
    <3>3. ASSUME runDoc.status = "PASSED", ~late, NEW row \in page.rows PROVE row = storedRow
      <4>1. row \in ViewRow /\ row.status = runDoc.status /\ row.output = Full /\ runDoc.output = Full
        BY <2>1, <2>4, <3>3 DEF Right, ViewInv, Logs
      <4> QED BY <4>1 DEF ViewRow
    <3> QED BY <3>1, <3>2, <3>3
  <2> QED BY <2>2, <2>3, <2>4
<1> QED BY <1>1, ViewInvariant, PTL

Chunk == 1..MaxChunks
ChunkMessage == {m \in Message : m.status = "log"}

\* Messages with a part of the log: one chunk, or none, or the whole log.
Carrier == {m \in Message : /\ m.output \in Seq(Chunk) /\ Len(m.output) <= MaxChunks
                            /\ m.status = "log" => Len(m.output) = 1}

\* The chunks among the messages on the wire, and those that have not been shown or lost.
ChunksSent(w) == Len(Sifted(w, ChunkMessage))
ChunksUnderway == ChunksSent(wire) + Cardinality(chunkPosts)

\* One row at most, with n chunks at most.
ShortLogs(items, n) == Lone(items) /\ \A r \in items : r.output \in Seq(Chunk) /\ Len(r.output) <= n

\* No chunk is in two places, and what is shown is at most the log twice, less what is to come.
ViewNumbers == logged <= MaxChunks /\ looks \in 0..MaxLooks /\ inRoom \in BOOLEAN
ViewWire == wire \in Seq(Carrier) /\ ChunksUnderway <= logged
ViewLogs == liveLog \in Seq(Chunk) /\ hydration.output \in Seq(Chunk)
ViewRowsBrief == ShortLogs(listing.rows, logged) /\ ShortLogs(page.rows, 2 * logged - ChunksUnderway)
ViewBounded == ViewNumbers /\ ViewWire /\ ViewLogs /\ ViewRowsBrief

LEMMA NothingWaits == ChunksSent(<< >>) = 0
BY SiftedEmpty DEF ChunksSent

LEMMA WaitingMore ==
    ASSUME NEW w \in Seq(Message), NEW m \in Message
    PROVE  /\ ChunksSent(w) \in Nat
           /\ ChunksSent(Append(w, m)) = ChunksSent(w) + (IF m.status = "log" THEN 1 ELSE 0)
<1>1. Sifted(w, ChunkMessage) \in Seq(Message \cap ChunkMessage)
  BY SiftedType
<1>2. Sifted(Append(w, m), ChunkMessage) =
          IF m \in ChunkMessage THEN Append(Sifted(w, ChunkMessage), m) ELSE Sifted(w, ChunkMessage)
  BY SiftedAppend
<1>3. m \in ChunkMessage <=> m.status = "log"
  BY DEF ChunkMessage
<1>4. CASE m.status = "log"
  <2>1. m \in Message \cap ChunkMessage
    BY <1>3, <1>4
  <2>2. Len(Append(Sifted(w, ChunkMessage), m)) = Len(Sifted(w, ChunkMessage)) + 1
    BY <1>1, <2>1, WireGrows
  <2> QED BY <1>1, <1>2, <1>4, <2>1, <2>2 DEF ChunksSent
<1>5. CASE m.status # "log"
  BY <1>1, <1>2, <1>3, <1>5 DEF ChunksSent
<1> QED BY <1>4, <1>5

LEMMA WaitingLess ==
    ASSUME NEW w \in Seq(Message), w # << >>
    PROVE  /\ ChunksSent(Tail(w)) \in Nat
           /\ ChunksSent(w) = ChunksSent(Tail(w)) + (IF Head(w).status = "log" THEN 1 ELSE 0)
<1> DEFINE h == Head(w)
           t == Tail(w)
           one == Append(<< >>, h)
<1>1. h \in Message /\ t \in Seq(Message) /\ << >> \in Seq(Message) /\ one \in Seq(Message)
  OBVIOUS
<1>2. w = one \o t
  OBVIOUS
<1>3. ChunksSent(one) = IF h.status = "log" THEN 1 ELSE 0
  <2>1. ChunksSent(one) = ChunksSent(<< >>) + (IF h.status = "log" THEN 1 ELSE 0)
    BY <1>1, WaitingMore
  <2> QED BY <2>1, NothingWaits
<1>4. ChunksSent(t) \in Nat
  BY <1>1, WaitingMore
<1> HIDE DEF h, t, one
<1>5. Sifted(one \o t, ChunkMessage) = Sifted(one, ChunkMessage) \o Sifted(t, ChunkMessage)
  BY <1>1, SiftedConcat
<1>6. /\ Sifted(one, ChunkMessage) \in Seq(Message \cap ChunkMessage)
      /\ Sifted(t, ChunkMessage) \in Seq(Message \cap ChunkMessage)
  BY <1>1, SiftedType
<1>7. ChunksSent(w) = ChunksSent(one) + ChunksSent(t)
  BY <1>2, <1>5, <1>6, ConcatProperties DEF ChunksSent
<1>8. h = Head(w) /\ t = Tail(w)
  BY DEF h, t
<1> QED BY <1>3, <1>4, <1>7, <1>8

LEMMA BriefMore ==
    ASSUME NEW items, NEW a \in Int, NEW b \in Int, ShortLogs(items, a), a <= b
    PROVE  ShortLogs(items, b)
<1>1. \A r \in items : Len(r.output) \in Nat
  BY LenProperties DEF ShortLogs
<1> QED BY <1>1 DEF ShortLogs

LEMMA NoLogs == ASSUME NEW n PROVE ShortLogs({}, n)
BY DEF ShortLogs, Lone

LEMMA CarriersAreMessages ==
    ASSUME NEW w \in Seq(Carrier) PROVE w \in Seq(Message)
<1>1. Carrier \subseteq Message
  BY DEF Carrier
<1> QED BY <1>1, SeqMonotonic

\* The stored log is empty or whole.
LEMMA DocLog ==
    ASSUME ViewTyped, Logs, ViewNumbers
    PROVE  /\ runDoc.output \in Seq(Chunk) /\ Len(runDoc.output) <= logged
           /\ Full \in Seq(Chunk) /\ Len(Full) = logged
<1>1. logged \in Nat /\ logged <= MaxChunks /\ MaxChunks \in Nat
  BY LiveViewAssumption DEF ViewTyped, ViewNumbers
<1>2. Full \in [1..logged -> Chunk]
  BY <1>1 DEF Full, Chunk
<1>3. Full \in Seq(Chunk) /\ Len(Full) = logged
  BY <1>1, <1>2
<1>4. << >> \in Seq(Chunk) /\ Len(<< >>) = 0
  OBVIOUS
<1>5. CASE runDoc.output = Full
  <2>1. runDoc.output \in Seq(Chunk) /\ Len(runDoc.output) = logged
    BY <1>3, <1>5
  <2> QED BY <1>1, <1>3, <2>1
<1>6. CASE runDoc.output = << >>
  <2>1. runDoc.output \in Seq(Chunk) /\ Len(runDoc.output) = 0
    BY <1>4, <1>6
  <2> QED BY <1>1, <1>3, <2>1
<1> QED BY <1>5, <1>6 DEF Logs

\* What is on its way is counted by natural numbers, step by step.
LEMMA ViewCounts ==
    ASSUME ViewTyped, ViewBounded
    PROVE  /\ logged \in Nat /\ MaxChunks \in Nat /\ ChunksSent(wire) \in Nat /\ Cardinality(chunkPosts) \in Nat
           /\ ChunksUnderway \in Nat /\ ChunksUnderway = ChunksSent(wire) + Cardinality(chunkPosts)
           /\ ShortLogs(page.rows, 2 * logged - ChunksUnderway) /\ ShortLogs(listing.rows, logged) /\ ChunksUnderway <= logged
<1>1. wire \in Seq(Message)
  BY DEF ViewTyped
<1>2. ChunksSent(wire) \in Nat
  <2>1. Sifted(wire, ChunkMessage) \in Seq(Message \cap ChunkMessage)
    BY <1>1, SiftedType
  <2> QED BY <2>1, LenProperties DEF ChunksSent
<1>3. logged \in Nat /\ MaxChunks \in Nat
  BY LiveViewAssumption DEF ViewTyped
<1>4. Cardinality(chunkPosts) \in Nat
  BY NoMoreThanRead
<1> QED BY <1>2, <1>3, <1>4 DEF ChunksUnderway, ViewBounded, ViewRowsBrief, ViewWire

LEMMA ViewBoundedStart == LiveViewInit => ViewBounded
<1> SUFFICES ASSUME LiveViewInit PROVE ViewBounded
  OBVIOUS
<1>1. 0 \in 0..MaxLooks /\ 0 <= MaxChunks
  BY LiveViewAssumption
<1>2. /\ logged = 0 /\ chunkPosts = {} /\ liveLog = << >> /\ wire = << >> /\ inRoom = FALSE
      /\ page.rows = {} /\ listing.rows = {} /\ hydration.output = << >> /\ looks = 0
  BY DEF LiveViewInit, Nothing, NoFetch, NoHydration
<1>3. << >> \in Seq(Chunk) /\ << >> \in Seq(Carrier)
  OBVIOUS
<1>4. ChunksUnderway = 0
  <2>1. Cardinality(chunkPosts) = 0 /\ ChunksSent(wire) = 0
    BY <1>2, FS_EmptySet, NothingWaits
  <2> QED BY <2>1 DEF ChunksUnderway
<1>5. ViewNumbers
  BY <1>1, <1>2 DEF ViewNumbers
<1>6. ViewWire
  BY <1>2, <1>3, <1>4 DEF ViewWire
<1>7. ViewLogs
  BY <1>2, <1>3 DEF ViewLogs
<1>8. ViewRowsBrief
  BY <1>2, NoLogs DEF ViewRowsBrief
<1> QED BY <1>5, <1>6, <1>7, <1>8 DEF ViewBounded

\* A step of the dashboard that leaves the wire alone.
LEMMA ViewBoundedStays ==
    ASSUME ViewTyped, ViewBounded, UNCHANGED <<logged, chunkPosts, wire>>,
           looks' \in 0..MaxLooks, inRoom' \in BOOLEAN,
           liveLog' \in Seq(Chunk), hydration'.output \in Seq(Chunk),
           listing'.rows \in {{}, listing.rows} \/ ShortLogs(listing'.rows, logged),
           page'.rows \in {{}, page.rows} \/ ShortLogs(page'.rows, logged)
    PROVE  ViewBounded'
<1>0. /\ logged \in Nat /\ ChunksUnderway \in Nat /\ ChunksUnderway <= logged
      /\ ShortLogs(page.rows, 2 * logged - ChunksUnderway) /\ ShortLogs(listing.rows, logged)
  BY ViewCounts
<1>1. ChunksUnderway' = ChunksUnderway
  BY DEF ChunksUnderway
<1>2. ViewNumbers' /\ ViewWire' /\ ViewLogs'
  BY <1>1 DEF ViewBounded, ViewNumbers, ViewWire, ViewLogs
<1>3. ShortLogs(listing'.rows, logged)
  BY <1>0, NoLogs
<1>4. ShortLogs(page'.rows, 2 * logged - ChunksUnderway)
  <2>1. CASE page'.rows \in {{}, page.rows}
    BY <1>0, <2>1, NoLogs
  <2>2. CASE ShortLogs(page'.rows, logged)
    <3>1. logged \in Int /\ 2 * logged - ChunksUnderway \in Int /\ logged <= 2 * logged - ChunksUnderway
      BY <1>0
    <3> QED BY <2>2, <3>1, BriefMore
  <2> QED BY <2>1, <2>2
<1>5. ViewRowsBrief'
  BY <1>1, <1>3, <1>4 DEF ViewRowsBrief
<1> QED BY <1>2, <1>5 DEF ViewBounded

\* No more is under way than what was read, and the bound on the page does not shrink.
LEMMA FedBounds ==
    ASSUME NEW g \in Nat, NEW l \in Nat, NEW n \in Nat, NEW u \in Nat,
           n <= g, g <= l, u - n <= l - g
    PROVE  u <= l /\ 2 * g - n \in Int /\ 2 * l - u \in Int /\ 2 * g - n <= 2 * l - u
OBVIOUS

\* A step of the worker or of the connection leaves what is shown alone; it does not add
\* more to the wire and the posts than it has read.
LEMMA ViewBoundedFed ==
    ASSUME ViewTyped, ViewBounded, UNCHANGED <<page, listing, hydration>>,
           looks' \in 0..MaxLooks, inRoom' \in BOOLEAN, liveLog' \in Seq(Chunk),
           wire' \in Seq(Carrier), logged' \in Nat, logged <= logged', logged' <= MaxChunks,
           ChunksUnderway' \in Nat, ChunksUnderway' - ChunksUnderway <= logged' - logged
    PROVE  ViewBounded'
<1>0. /\ logged \in Nat /\ ChunksUnderway \in Nat /\ ChunksUnderway <= logged
      /\ ShortLogs(page.rows, 2 * logged - ChunksUnderway) /\ ShortLogs(listing.rows, logged)
  BY ViewCounts
<1>1. ViewNumbers' /\ ViewLogs'
  BY DEF ViewBounded, ViewNumbers, ViewLogs
<1>01. logged \in Nat /\ ChunksUnderway \in Nat /\ ChunksUnderway <= logged
  BY <1>0
<1>2. PICK g : g = logged
  OBVIOUS
<1>3. PICK n : n = ChunksUnderway
  OBVIOUS
<1>4. PICK l : l = logged'
  OBVIOUS
<1>40. PICK u : u = ChunksUnderway'
  OBVIOUS
<1>41. g \in Nat /\ l \in Nat /\ n \in Nat /\ u \in Nat /\ n <= g /\ g <= l /\ u - n <= l - g
  BY <1>0, <1>2, <1>3, <1>4, <1>40
<1>42. u <= l /\ 2 * g - n \in Int /\ 2 * l - u \in Int /\ 2 * g - n <= 2 * l - u
  BY <1>41, FedBounds
<1>5. ViewWire'
  BY <1>4, <1>40, <1>42 DEF ViewWire
<1>6. ShortLogs(listing.rows, l)
  <2>1. ShortLogs(listing.rows, g)
    BY <1>0, <1>2
  <2> QED BY <1>41, <2>1, BriefMore
<1>7. ShortLogs(page.rows, 2 * l - u)
  <2>1. ShortLogs(page.rows, 2 * g - n)
    BY <1>0, <1>2, <1>3
  <2> QED BY <1>42, <2>1, BriefMore
<1>8. ViewRowsBrief'
  BY <1>4, <1>40, <1>6, <1>7 DEF ViewRowsBrief
<1> QED BY <1>1, <1>5, <1>8 DEF ViewBounded

\* What a message to the room adds to the wire.
LEMMA WireFed ==
    ASSUME NEW w \in Seq(Carrier), NEW m \in Carrier, NEW b,
           b = w \/ b = Append(w, m)
    PROVE  /\ b \in Seq(Carrier) /\ ChunksSent(b) \in Nat /\ ChunksSent(w) \in Nat
           /\ ChunksSent(b) <= ChunksSent(w) + 1
           /\ m.status # "log" => ChunksSent(b) = ChunksSent(w)
<1>1. m \in Message
  BY DEF Carrier
<1>2. w \in Seq(Message)
  BY CarriersAreMessages
<1>3. /\ ChunksSent(w) \in Nat
      /\ ChunksSent(Append(w, m)) = ChunksSent(w) + (IF m.status = "log" THEN 1 ELSE 0)
  BY <1>1, <1>2, WaitingMore
<1>4. Append(w, m) \in Seq(Carrier)
  OBVIOUS
<1>5. CASE b = w
  BY <1>3, <1>5
<1>6. CASE b = Append(w, m)
  <2>1. CASE m.status = "log"
    BY <1>3, <1>4, <1>6, <2>1
  <2>2. CASE m.status # "log"
    BY <1>3, <1>4, <1>6, <2>2
  <2> QED BY <2>1, <2>2
<1> QED BY <1>5, <1>6

LEMMA SeqStays ==
    ASSUME NEW S, NEW s \in Seq(S), NEW b, b = s \/ b = << >> \/ \E c \in S : b = Append(s, c)
    PROVE  b \in Seq(S)
<1>1. CASE b = s
  BY <1>1
<1>2. CASE b = << >>
  BY <1>2
<1>3. ASSUME NEW c \in S, b = Append(s, c) PROVE b \in Seq(S)
  BY <1>3
<1> QED BY <1>1, <1>2, <1>3

LEMMA ViewFed ==
    ASSUME ViewTyped, Logs, ViewBounded,
           AnnounceStatus \/ ReadChunk \/ PostChunk \/ ChunkLost \/ Joins \/ Disconnect
    PROVE  ViewBounded'
<1> USE DEF workerVars, clientVars
<1>0. /\ logged \in Nat /\ MaxChunks \in Nat /\ ChunksSent(wire) \in Nat
      /\ Cardinality(chunkPosts) \in Nat
      /\ ChunksUnderway \in Nat /\ ChunksUnderway = ChunksSent(wire) + Cardinality(chunkPosts)
      /\ ChunksUnderway <= logged /\ logged <= MaxChunks
  BY ViewCounts DEF ViewBounded, ViewNumbers
<1>01. wire \in Seq(Carrier) /\ liveLog \in Seq(Chunk) /\ looks \in 0..MaxLooks /\ inRoom \in BOOLEAN
  BY DEF ViewBounded, ViewWire, ViewLogs, ViewNumbers
<1>02. UNCHANGED <<page, listing, hydration>>
  BY DEF AnnounceStatus, ReadChunk, PostChunk, ChunkLost, Joins, Disconnect
<1>03. ASSUME NEW w \in Nat, NEW n \in Nat, ChunksSent(wire') = w, Cardinality(chunkPosts') = n
       PROVE  ChunksUnderway' \in Nat /\ ChunksUnderway' = w + n
  BY <1>03 DEF ChunksUnderway
<1>1. CASE AnnounceStatus
  <2> DEFINE m == [status |-> notice, output |-> runDoc.output]
  <2>1. /\ notice \in RunStatus
        /\ wire' = wire \/ wire' = Append(wire, m)
        /\ liveLog' = liveLog \/ liveLog' = << >>
        /\ UNCHANGED <<logged, chunkPosts, looks, inRoom>>
    BY <1>1 DEF AnnounceStatus, ToRoom, ViewTyped
  <2>2. runDoc.output \in Seq(Chunk) /\ Len(runDoc.output) <= logged
    BY DocLog DEF ViewBounded
  <2>3. m \in Carrier /\ m.status # "log"
    <3>1. Len(runDoc.output) \in Nat
      BY <2>2
    <3>2. Len(runDoc.output) <= MaxChunks
      BY <1>0, <2>2, <3>1
    <3>3. runDoc.output \in Seq(Nat)
      BY DEF ViewTyped
    <3>4. m.status # "log" /\ m.status \in RunStatus
      BY <2>1 DEF RunStatus
    <3> QED BY <2>2, <3>2, <3>3, <3>4 DEF Carrier, Message
  <2> HIDE DEF m
  <2>4. wire' \in Seq(Carrier) /\ ChunksSent(wire') = ChunksSent(wire)
    BY <1>01, <2>1, <2>3, WireFed
  <2>5. ChunksUnderway' = ChunksUnderway
    BY <2>1, <2>4 DEF ChunksUnderway
  <2>6. liveLog' \in Seq(Chunk)
    BY <1>01, <2>1, SeqStays
  <2>7. /\ logged' \in Nat /\ logged <= logged' /\ logged' <= MaxChunks
        /\ ChunksUnderway' \in Nat /\ ChunksUnderway' - ChunksUnderway <= logged' - logged
    BY <1>0, <2>1, <2>5
  <2> QED BY <1>01, <1>02, <2>1, <2>4, <2>6, <2>7, ViewBoundedFed
<1>2. CASE ReadChunk
  <2>1. /\ logged < MaxChunks /\ logged' = logged + 1
        /\ chunkPosts' = chunkPosts \cup {logged + 1}
        /\ UNCHANGED <<liveLog, wire, looks, inRoom>>
    BY <1>2 DEF ReadChunk
  <2>2. Cardinality(chunkPosts') = Cardinality(chunkPosts) + 1
    BY <2>1, NoMoreThanRead
  <2>3. ChunksUnderway' = ChunksUnderway + 1
    <3>1. PICK n : n = Cardinality(chunkPosts)
      OBVIOUS
    <3>2. PICK w : w = ChunksSent(wire)
      OBVIOUS
    <3>3. n \in Nat /\ w \in Nat /\ ChunksUnderway = w + n
      BY <1>0, <3>1, <3>2
    <3>4. ChunksUnderway' = w + (n + 1)
      BY <2>1, <2>2, <3>1, <3>2 DEF ChunksUnderway
    <3> QED BY <3>3, <3>4
  <2>4. /\ logged' \in Nat /\ logged <= logged' /\ logged' <= MaxChunks
        /\ ChunksUnderway' \in Nat /\ ChunksUnderway' - ChunksUnderway <= logged' - logged
    BY <1>0, <2>1, <2>3
  <2> QED BY <1>01, <1>02, <2>1, <2>4, ViewBoundedFed
<1>3. CASE PostChunk \/ ChunkLost
  <2>1. PICK c \in chunkPosts :
           /\ chunkPosts' = chunkPosts \ {c}
           /\ wire' = wire \/ wire' = Append(wire, [status |-> "log", output |-> <<c>>])
           /\ liveLog' = liveLog \/ liveLog' = Append(liveLog, c)
           /\ UNCHANGED <<logged, looks, inRoom>>
    BY <1>3 DEF PostChunk, ChunkLost
  <2> DEFINE m == [status |-> "log", output |-> <<c>>]
  <2>2. c \in Chunk /\ c \in Nat /\ 1 <= MaxChunks
    <3>1. c \in 1..logged
      BY DEF ViewTyped
    <3> QED BY <1>0, <3>1 DEF Chunk
  <2>3. m \in Carrier
    <3>1. <<c>> \in Seq(Nat) /\ <<c>> \in Seq(Chunk) /\ Len(<<c>>) = 1
      BY <2>2
    <3>2. m \in Message
      BY <3>1 DEF Message
    <3> QED BY <2>2, <3>1, <3>2 DEF Carrier
  <2>4. wire' = wire \/ wire' = Append(wire, m)
    BY <2>1
  <2> HIDE DEF m
  <2>5. /\ wire' \in Seq(Carrier) /\ ChunksSent(wire') \in Nat /\ ChunksSent(wire') <= ChunksSent(wire) + 1
    BY <1>01, <2>3, <2>4, WireFed
  <2>6. Cardinality(chunkPosts') = Cardinality(chunkPosts) - 1 /\ Cardinality(chunkPosts') \in Nat
    <3>1. Cardinality(chunkPosts') = Cardinality(chunkPosts) - 1
      BY <2>1, NoMoreThanRead
    <3>2. IsFiniteSet(chunkPosts')
      BY <2>1, NoMoreThanRead, FS_Subset
    <3>3. Cardinality(chunkPosts') \in Nat
      BY <3>2, FS_CardinalityType
    <3> QED BY <3>1, <3>3
  <2>7. ChunksUnderway' \in Nat /\ ChunksUnderway' <= ChunksUnderway
    <3>1. PICK n : n = Cardinality(chunkPosts')
      OBVIOUS
    <3>2. PICK w : w = ChunksSent(wire')
      OBVIOUS
    <3>3. n \in Nat /\ w \in Nat /\ n = Cardinality(chunkPosts) - 1 /\ w <= ChunksSent(wire) + 1
      BY <2>5, <2>6, <3>1, <3>2
    <3>4. w + n \in Nat /\ w + n <= ChunksUnderway
      BY <1>0, <3>3
    <3>5. ChunksUnderway' = w + n
      BY <3>1, <3>2 DEF ChunksUnderway
    <3> QED BY <3>4, <3>5
  <2>8. liveLog' \in Seq(Chunk)
    <3>1. liveLog' = liveLog \/ \E d \in Chunk : liveLog' = Append(liveLog, d)
      BY <2>1, <2>2
    <3> QED BY <1>01, <3>1, SeqStays
  <2>9. /\ logged' \in Nat /\ logged <= logged' /\ logged' <= MaxChunks
        /\ ChunksUnderway' - ChunksUnderway <= logged' - logged
    BY <1>0, <2>1, <2>7
  <2> QED BY <1>01, <1>02, <2>1, <2>5, <2>7, <2>8, <2>9, ViewBoundedFed
<1>4. CASE Joins \/ Disconnect
  <2>1. /\ UNCHANGED <<logged, chunkPosts, liveLog>> /\ inRoom' \in BOOLEAN
        /\ wire' = wire \/ wire' = << >>
    BY <1>4 DEF Joins, Disconnect
  <2>2. looks' \in 0..MaxLooks
    BY <1>01, <1>4, LiveViewAssumption DEF Joins, Disconnect, Look
  <2>3. wire' \in Seq(Carrier) /\ ChunksSent(wire') \in Nat /\ ChunksSent(wire') <= ChunksSent(wire)
    <3>1. wire' \in Seq(Carrier)
      BY <1>01, <2>1, SeqStays
    <3>2. CASE wire' = wire
      BY <1>0, <3>1, <3>2
    <3>3. CASE wire' = << >>
      <4>1. ChunksSent(wire') = 0
        BY <3>3, NothingWaits
      <4> QED BY <1>0, <3>1, <4>1
    <3> QED BY <2>1, <3>2, <3>3
  <2>4. ChunksUnderway' \in Nat /\ ChunksUnderway' <= ChunksUnderway
    <3>1. PICK w : w = ChunksSent(wire')
      OBVIOUS
    <3>2. w \in Nat /\ w <= ChunksSent(wire)
      BY <2>3, <3>1
    <3>3. w + Cardinality(chunkPosts) \in Nat /\ w + Cardinality(chunkPosts) <= ChunksUnderway
      BY <1>0, <3>2
    <3>4. ChunksUnderway' = w + Cardinality(chunkPosts)
      BY <2>1, <3>1 DEF ChunksUnderway
    <3> QED BY <3>3, <3>4
  <2>5. /\ logged' \in Nat /\ logged <= logged' /\ logged' <= MaxChunks
        /\ ChunksUnderway' - ChunksUnderway <= logged' - logged
    BY <1>0, <2>1, <2>4
  <2> QED BY <1>01, <1>02, <2>1, <2>2, <2>3, <2>4, <2>5, ViewBoundedFed
<1> QED BY <1>1, <1>2, <1>3, <1>4

\* At most one row, with a log of at most k chunks.
LEMMA BriefOne ==
    ASSUME NEW items, NEW k, items = {} \/ \E x : items = {x} /\ x.output \in Seq(Chunk) /\ Len(x.output) <= k
    PROVE  ShortLogs(items, k)
BY DEF ShortLogs, Lone

LEMMA ViewShown ==
    ASSUME ViewTyped, Logs, ViewBounded,
           \/ AnswerList \/ ShowList \/ OpenDrawer \/ Focus \/ ChangeFilters \/ ServeLogs
           \/ StartDelete \/ ServeDelete \/ ShowDeletion \/ AnnouncementLost
           \/ \E from \in RunStatus \cup {"none"}, to \in RunStatus : WriteRunStatus(from, to)
           \/ UNCHANGED liveViewVars
    PROVE  ViewBounded'
<1> USE DEF workerVars, clientVars
<1>0. /\ liveLog \in Seq(Chunk) /\ hydration.output \in Seq(Chunk)
      /\ looks \in 0..MaxLooks /\ inRoom \in BOOLEAN
      /\ ShortLogs(listing.rows, logged) /\ logged \in Nat
  BY ViewCounts DEF ViewBounded, ViewLogs, ViewNumbers
<1>1. UNCHANGED <<logged, chunkPosts, wire, liveLog, inRoom>>
  BY DEF AnswerList, ShowList, OpenDrawer, Focus, ChangeFilters, ServeLogs, StartDelete, ServeDelete,
         ShowDeletion, AnnouncementLost, WriteRunStatus, liveViewVars
<1>2. looks' \in 0..MaxLooks
  <2>1. looks' = looks \/ (looks < MaxLooks /\ looks' = looks + 1)
    BY DEF AnswerList, ShowList, OpenDrawer, Focus, ChangeFilters, ServeLogs, StartDelete, ServeDelete,
           ShowDeletion, AnnouncementLost, WriteRunStatus, liveViewVars, Look
  <2> QED BY <1>0, <2>1, LiveViewAssumption
<1>3. hydration'.output \in Seq(Chunk)
  <2>1. << >> \in Seq(Chunk) /\ NoHydration.output = << >> /\ [NoHydration EXCEPT !.at = "asked"].output = << >>
    BY DEF NoHydration
  <2>2. CASE ServeLogs
    <3>1. hydration'.output \in {<< >>, liveLog, runDoc.output}
      BY <2>2 DEF ServeLogs, NoHydration
    <3>2. runDoc.output \in Seq(Chunk)
      BY DocLog DEF ViewBounded
    <3> QED BY <1>0, <2>1, <3>1, <3>2
  <2>3. CASE ~ServeLogs
    <3>1. hydration' \in {hydration, NoHydration, [NoHydration EXCEPT !.at = "asked"]}
      BY <2>3 DEF AnswerList, ShowList, OpenDrawer, Focus, ChangeFilters, StartDelete, ServeDelete,
             ShowDeletion, AnnouncementLost, WriteRunStatus, liveViewVars
    <3> QED BY <1>0, <2>1, <3>1
  <2> QED BY <2>2, <2>3
<1>4. listing'.rows \in {{}, listing.rows} \/ ShortLogs(listing'.rows, logged)
  <2>1. NoFetch.rows = {} /\ [NoFetch EXCEPT !.at = "asked"].rows = {}
    BY DEF NoFetch
  <2>2. CASE AnswerList
    <3>1. listing'.rows = Listed
      BY <2>2 DEF AnswerList
    <3>2. runDoc.output \in Seq(Chunk) /\ Len(runDoc.output) <= logged
      BY DocLog DEF ViewBounded
    <3>3. ShortLogs(Listed, logged)
      BY <3>2 DEF Listed, ShortLogs, Lone
    <3> QED BY <3>1, <3>3
  <2>3. CASE ~AnswerList
    <3>1. listing' \in {listing, NoFetch, [NoFetch EXCEPT !.at = "asked"]}
      BY <2>3 DEF ShowList, OpenDrawer, Focus, ChangeFilters, ServeLogs, StartDelete, ServeDelete,
             ShowDeletion, Refetch, AnnouncementLost, WriteRunStatus, liveViewVars
    <3> QED BY <2>1, <3>1
  <2> QED BY <2>2, <2>3
<1>5. page'.rows \in {{}, page.rows} \/ ShortLogs(page'.rows, logged)
  <2>1. page \in PageType
    BY DEF ViewTyped
  <2>2. CASE ShowList
    BY <1>0, <2>2 DEF ShowList
  <2>3. CASE ChangeFilters
    BY <2>3 DEF ChangeFilters, Nothing
  <2>4. CASE ShowDeletion
    BY <2>1, <2>4 DEF ShowDeletion, PageType
  <2>5. CASE ~ShowList /\ ~ChangeFilters /\ ~ShowDeletion
    <3>1. page' = page
      BY <2>5 DEF AnswerList, OpenDrawer, Focus, ServeLogs, StartDelete, ServeDelete,
             AnnouncementLost, WriteRunStatus, liveViewVars
    <3> QED BY <3>1
  <2> QED BY <2>2, <2>3, <2>4, <2>5
<1> QED BY <1>0, <1>1, <1>2, <1>3, <1>4, <1>5, ViewBoundedStays

LEMMA ViewMerged ==
    ASSUME ViewTyped, Logs, ViewBounded, OnUpdate \/ OnLog \/ Hydrate
    PROVE  ViewBounded'
<1> USE DEF workerVars, clientVars
<1>0. /\ logged \in Nat /\ ChunksSent(wire) \in Nat /\ Cardinality(chunkPosts) \in Nat
      /\ ChunksUnderway \in Nat /\ ChunksUnderway = ChunksSent(wire) + Cardinality(chunkPosts)
      /\ ChunksUnderway <= logged
      /\ ShortLogs(page.rows, 2 * logged - ChunksUnderway) /\ ShortLogs(listing.rows, logged)
  BY ViewCounts
<1>01. /\ wire \in Seq(Carrier) /\ wire \in Seq(Message)
       /\ liveLog \in Seq(Chunk) /\ hydration.output \in Seq(Chunk)
  BY CarriersAreMessages DEF ViewBounded, ViewWire, ViewLogs
<1>02. /\ page \in PageType /\ listing \in ListingType
       /\ \A r \in page.rows : r \in ViewRow
  BY DEF ViewTyped, PageType
<1>1. CASE OnUpdate
  <2>1. /\ wire # << >> /\ Head(wire).status # "log" /\ wire' = Tail(wire)
        /\ UNCHANGED <<logged, chunkPosts, liveLog, inRoom, hydration, looks>>
        /\ page' = page \/ page' = [page EXCEPT !.rows = {Merged(row, Head(wire)) : row \in page.rows}]
        /\ listing' = listing \/ Refetch
    BY <1>1 DEF OnUpdate
  <2>2. ChunksSent(wire') = ChunksSent(wire) /\ wire' \in Seq(Carrier)
    <3>1. Tail(wire) \in Seq(Carrier)
      BY <1>01, <2>1, WireShrinks
    <3>2. /\ ChunksSent(Tail(wire)) \in Nat
          /\ ChunksSent(wire) = ChunksSent(Tail(wire)) + (IF Head(wire).status = "log" THEN 1 ELSE 0)
      BY <1>01, <2>1, WaitingLess
    <3>3. ChunksSent(wire) = ChunksSent(Tail(wire))
      BY <2>1, <3>2
    <3> QED BY <2>1, <3>1, <3>3
  <2>3. ChunksUnderway' = ChunksUnderway
    BY <2>1, <2>2 DEF ChunksUnderway
  <2>4. ViewNumbers' /\ ViewWire' /\ ViewLogs'
    BY <1>0, <1>01, <2>1, <2>2, <2>3 DEF ViewBounded, ViewNumbers, ViewWire, ViewLogs
  <2>5. ShortLogs(listing'.rows, logged)
    <3>1. listing'.rows = {} \/ listing'.rows = listing.rows
      BY <2>1 DEF Refetch, NoFetch
    <3> QED BY <1>0, <3>1, NoLogs
  <2>6. PICK k : k = 2 * logged - ChunksUnderway
    OBVIOUS
  <2>7. k \in Int /\ logged <= k /\ ShortLogs(page.rows, k)
    BY <1>0, <2>6
  <2>8. ShortLogs(page'.rows, k)
    <3>1. CASE page' = page
      BY <2>7, <3>1
    <3>2. CASE page' = [page EXCEPT !.rows = {Merged(row, Head(wire)) : row \in page.rows}]
      <4>1. page'.rows = {Merged(row, Head(wire)) : row \in page.rows}
        BY <1>02, <3>2 DEF PageType
      <4>2. CASE page.rows = {}
        BY <4>1, <4>2, NoLogs
      <4>3. CASE page.rows # {}
        <5>1. PICK r \in page.rows : page.rows = {r}
          BY <2>7, <4>3 DEF ShortLogs, Lone
        <5>2. r.output \in Seq(Chunk) /\ Len(r.output) <= k
          BY <2>7, <5>1 DEF ShortLogs
        <5>3. Head(wire).status = "PASSED" => Head(wire).output = Full
          <6>1. 1 \in DOMAIN wire /\ Head(wire) = wire[1]
            BY <1>01, <2>1, WireShrinks
          <6> QED BY <6>1 DEF Logs
        <5>4. Full \in Seq(Chunk) /\ Len(Full) <= k
          <6>1. Full \in Seq(Chunk) /\ Len(Full) = logged
            BY DocLog DEF ViewBounded
          <6> QED BY <2>7, <6>1
        <5> DEFINE x == Merged(r, Head(wire))
        <5>5. x.output = IF Head(wire).status = "PASSED" THEN Head(wire).output ELSE r.output
          BY DEF Merged
        <5>6. page'.rows = {x}
          BY <4>1, <5>1
        <5> HIDE DEF x
        <5>7. x.output \in Seq(Chunk) /\ Len(x.output) <= k
          BY <5>2, <5>3, <5>4, <5>5
        <5> QED BY <5>6, <5>7, BriefOne
      <4> QED BY <4>2, <4>3
    <3> QED BY <2>1, <3>1, <3>2
  <2>9. ViewRowsBrief'
    BY <2>1, <2>3, <2>5, <2>6, <2>8 DEF ViewRowsBrief
  <2> QED BY <2>4, <2>9 DEF ViewBounded
<1>2. CASE OnLog
  <2>1. /\ wire # << >> /\ Head(wire).status = "log" /\ wire' = Tail(wire)
        /\ UNCHANGED <<logged, chunkPosts, liveLog, inRoom, hydration, listing, looks>>
        /\ page' = [page EXCEPT !.rows =
                        {[row EXCEPT !.output = @ \o Head(wire).output] : row \in page.rows}]
    BY <1>2 DEF OnLog
  <2>2. Head(wire) \in Carrier /\ Tail(wire) \in Seq(Carrier)
    BY <1>01, <2>1, WireShrinks
  <2>3. ChunksSent(wire) = ChunksSent(wire') + 1 /\ ChunksSent(wire') \in Nat
    BY <1>01, <2>1, WaitingLess
  <2>4. PICK u : u \in Nat /\ u = ChunksUnderway' /\ ChunksUnderway = u + 1
    <3>1. PICK w : w = ChunksSent(wire')
      OBVIOUS
    <3>2. PICK n : n = Cardinality(chunkPosts)
      OBVIOUS
    <3>3. ChunksUnderway' = w + n
      BY <2>1, <3>1, <3>2 DEF ChunksUnderway
    <3>4. w \in Nat /\ n \in Nat /\ ChunksUnderway = w + 1 + n
      BY <1>0, <2>3, <3>1, <3>2
    <3>5. w + n \in Nat /\ ChunksUnderway = (w + n) + 1
      BY <3>4
    <3> QED BY <3>3, <3>5
  <2>40. PICK g : g \in Nat /\ g = logged /\ u + 1 <= g
    BY <1>0, <2>4
  <2>5. u <= logged
    <3>0. u \in Nat
      BY <2>4
    <3>1. u <= g
      BY <3>0, <2>40
    <3> QED BY <2>40, <3>1
  <2>6. ViewNumbers' /\ ViewWire' /\ ViewLogs'
    BY <1>01, <2>1, <2>2, <2>4, <2>5 DEF ViewBounded, ViewNumbers, ViewWire, ViewLogs
  <2>7. PICK k : k = 2 * g - (u + 1)
    OBVIOUS
  <2>8. k \in Int /\ k + 1 = 2 * logged - u /\ ShortLogs(page.rows, k)
    <3>1. k \in Int /\ k + 1 = 2 * g - u
      BY <2>4, <2>40, <2>7
    <3>2. k = 2 * logged - ChunksUnderway
      BY <2>4, <2>40, <2>7
    <3> QED BY <1>0, <2>40, <3>1, <3>2
  <2>9. ShortLogs(page'.rows, k + 1)
    <3>1. page'.rows = {[row EXCEPT !.output = @ \o Head(wire).output] : row \in page.rows}
      BY <1>02, <2>1 DEF PageType
    <3>2. CASE page.rows = {}
      BY <3>1, <3>2, NoLogs
    <3>3. CASE page.rows # {}
      <4>1. PICK r \in page.rows : page.rows = {r}
        BY <2>8, <3>3 DEF ShortLogs, Lone
      <4>2. r.output \in Seq(Chunk) /\ Len(r.output) <= k /\ Len(r.output) \in Nat
        BY <2>8, <4>1 DEF ShortLogs
      <4> DEFINE o == Head(wire).output
                 x == [r EXCEPT !.output = @ \o o]
      <4>3. o \in Seq(Chunk) /\ Len(o) = 1
        BY <2>1, <2>2 DEF Carrier
      <4>4. x.output = r.output \o o
        BY <1>02, <4>1 DEF ViewRow
      <4>5. page'.rows = {x}
        BY <3>1, <4>1
      <4> HIDE DEF o, x
      <4>6. r.output \o o \in Seq(Chunk) /\ Len(r.output \o o) = Len(r.output) + 1
        BY <4>2, <4>3, ConcatProperties
      <4>7. x.output \in Seq(Chunk) /\ Len(x.output) <= k + 1
        BY <2>8, <4>2, <4>4, <4>6
      <4> QED BY <4>5, <4>7, BriefOne
    <3> QED BY <3>2, <3>3
  <2>10. ViewRowsBrief'
    <3>1. ShortLogs(page'.rows, 2 * logged - u)
      BY <2>8, <2>9
    <3> QED BY <1>0, <2>1, <2>4, <3>1 DEF ViewRowsBrief
  <2> QED BY <2>6, <2>10 DEF ViewBounded
<1>3. CASE Hydrate
  <2>1. /\ UNCHANGED <<logged, chunkPosts, wire, liveLog, inRoom, listing, looks>>
        /\ page' = [page EXCEPT !.rows = {Hydrated(row) : row \in page.rows}]
        /\ hydration' = NoHydration
    BY <1>3 DEF Hydrate
  <2>2. hydration'.output \in Seq(Chunk)
    BY <2>1 DEF NoHydration
  <2>3. ChunksUnderway' = ChunksUnderway
    BY <2>1 DEF ChunksUnderway
  <2>4. ViewNumbers' /\ ViewWire' /\ ViewLogs'
    BY <1>01, <2>1, <2>2, <2>3 DEF ViewBounded, ViewNumbers, ViewWire, ViewLogs
  <2>5. PICK k : k = 2 * logged - ChunksUnderway
    OBVIOUS
  <2>6. k \in Int /\ logged <= k /\ ShortLogs(page.rows, k)
    BY <1>0, <2>5
  <2>7. ShortLogs(page'.rows, k)
    <3>1. page'.rows = {Hydrated(row) : row \in page.rows}
      BY <1>02, <2>1 DEF PageType
    <3>2. CASE page.rows = {}
      BY <3>1, <3>2, NoLogs
    <3>3. CASE page.rows # {}
      <4>1. PICK r \in page.rows : page.rows = {r}
        BY <2>6, <3>3 DEF ShortLogs, Lone
      <4>2. r.output \in Seq(Chunk) /\ Len(r.output) <= k
        BY <2>6, <4>1 DEF ShortLogs
      <4>3. hydration.output \in Seq(Chunk) /\ Len(hydration.output) <= k
        <5>1. Len(hydration.output) \in Nat /\ Len(hydration.output) <= logged
          BY <1>01 DEF Logs
        <5> QED BY <1>0, <1>01, <2>6, <5>1
      <4>4. Hydrated(r).output \in {r.output, hydration.output}
        BY <1>02, <4>1 DEF Hydrated, ViewRow
      <4>5. page'.rows = {Hydrated(r)}
        BY <3>1, <4>1
      <4>6. Hydrated(r).output \in Seq(Chunk) /\ Len(Hydrated(r).output) <= k
        BY <4>2, <4>3, <4>4
      <4> QED BY <4>5, <4>6, BriefOne
    <3> QED BY <3>2, <3>3
  <2>8. ViewRowsBrief'
    BY <1>0, <2>1, <2>3, <2>5, <2>7 DEF ViewRowsBrief
  <2> QED BY <2>4, <2>8 DEF ViewBounded
<1> QED BY <1>1, <1>2, <1>3

LEMMA ViewBoundedStep ==
    ASSUME ViewTyped, Logs, ViewBounded, [LiveViewNext]_liveViewVars
    PROVE  ViewBounded'
BY ViewFed, ViewShown, ViewMerged DEF LiveViewNext, RunStatus

LEMMA LogOf ==
    ASSUME NEW o \in Seq(Chunk), Len(o) <= 2 * MaxChunks
    PROVE  o \in Log
<1>1. PICK n \in Nat : n = 2 * MaxChunks
  BY LiveViewAssumption
<1>2. Len(o) \in 0..n /\ o \in [1..Len(o) -> Chunk]
  BY <1>1
<1>3. o \in SeqOf(Chunk, n)
  BY <1>2 DEF SeqOf
<1> QED BY <1>1, <1>3 DEF Log, Chunk

LEMMA ViewTyping == ViewTyped /\ Logs /\ ViewBounded => LiveViewTypeOK
<1> SUFFICES ASSUME ViewTyped, Logs, ViewBounded PROVE LiveViewTypeOK
  OBVIOUS
<1>0. /\ logged \in Nat /\ MaxChunks \in Nat /\ logged <= MaxChunks
      /\ ChunksUnderway \in Nat
  BY ViewCounts DEF ViewBounded, ViewNumbers
<1>00. ShortLogs(page.rows, 2 * logged - ChunksUnderway) /\ ShortLogs(listing.rows, logged)
  BY ViewCounts
<1>1. ASSUME NEW o \in Seq(Chunk), Len(o) <= logged PROVE o \in Log
  <2>1. Len(o) \in Nat
    BY <1>1
  <2>2. Len(o) <= 2 * MaxChunks
    BY <1>0, <1>1, <2>1
  <2> QED BY <2>2, LogOf
<1>2. runDoc.output \in Log
  BY <1>1, DocLog DEF ViewBounded
<1>3. liveLog \in Log
  <2>1. liveLog \in Seq(Chunk) /\ Len(liveLog) \in Nat /\ Cardinality(chunkPosts) \in Nat
    BY ViewCounts DEF ViewBounded, ViewLogs
  <2>2. Len(liveLog) <= logged
    BY <1>0, <2>1 DEF Logs
  <2> QED BY <1>1, <2>1, <2>2
<1>4. hydration.output \in Log
  BY <1>1 DEF ViewBounded, ViewLogs, Logs
<1>5. \A i \in DOMAIN wire : wire[i].status \in RunStatus \cup {"log"} /\ wire[i].output \in Log
  <2> SUFFICES ASSUME NEW i \in DOMAIN wire
               PROVE  wire[i].status \in RunStatus \cup {"log"} /\ wire[i].output \in Log
    OBVIOUS
  <2>1. wire[i] \in Carrier
    BY DEF ViewBounded, ViewWire
  <2>2. wire[i] \in Message /\ wire[i].output \in Seq(Chunk) /\ Len(wire[i].output) <= MaxChunks
    BY <2>1 DEF Carrier
  <2>3. PICK o : o = wire[i].output
    OBVIOUS
  <2>4. o \in Seq(Chunk) /\ Len(o) <= 2 * MaxChunks
    <3>1. o \in Seq(Chunk) /\ Len(o) \in Nat /\ Len(o) <= MaxChunks
      BY <2>2, <2>3
    <3> QED BY <1>0, <3>1
  <2> QED BY <2>2, <2>3, <2>4, LogOf DEF Message
<1>6. page.rows \subseteq RunRow
  <2> SUFFICES ASSUME NEW r \in page.rows PROVE r \in RunRow
    OBVIOUS
  <2>1. r \in ViewRow
    BY DEF ViewTyped, PageType
  <2>2. PICK o : o = r.output
    OBVIOUS
  <2>3. PICK k : k = 2 * logged - ChunksUnderway
    OBVIOUS
  <2>4. o \in Seq(Chunk) /\ Len(o) <= k
    BY <1>00, <2>2, <2>3 DEF ShortLogs
  <2>5. Len(o) \in Nat /\ k \in Int /\ k <= 2 * MaxChunks
    BY <1>0, <2>3, <2>4
  <2>6. Len(o) <= 2 * MaxChunks
    BY <1>0, <2>4, <2>5
  <2>7. o \in Log
    BY <2>4, <2>6, LogOf
  <2> QED BY <2>1, <2>2, <2>7 DEF ViewRow, RunRow
<1>7. listing.rows \subseteq RunRow
  <2> SUFFICES ASSUME NEW r \in listing.rows PROVE r \in RunRow
    OBVIOUS
  <2>1. r \in ViewRow
    BY DEF ViewTyped, ListingType
  <2>2. r.output \in Seq(Chunk) /\ Len(r.output) <= logged
    BY <1>00 DEF ShortLogs
  <2>3. r.output \in Log
    BY <1>1, <2>2
  <2> QED BY <2>1, <2>3 DEF ViewRow, RunRow
<1>8. Cardinality(page.rows) <= 1
  BY <1>00, LoneCount DEF ShortLogs
<1>9. logged \in 0..MaxChunks /\ chunkPosts \subseteq 1..logged
  BY <1>0 DEF ViewTyped
<1>10. /\ runDoc.status \in RunStatus \cup {"none"} /\ runDoc.deleted \in BOOLEAN
       /\ notice \in RunStatus \cup {"none"} /\ late \in BOOLEAN /\ stale \in BOOLEAN
       /\ deletion \in {"idle", "single", "bulk", "done", "refused"}
  BY DEF ViewTyped
<1>11. inRoom \in BOOLEAN /\ looks \in 0..MaxLooks
  BY DEF ViewBounded, ViewNumbers
<1>12. /\ page.loaded \in BOOLEAN /\ listing.at \in {"idle", "asked", "answered"}
       /\ hydration.at \in {"idle", "asked", "live", "answered"}
  BY DEF ViewTyped, PageType, ListingType, HydrationType
<1> QED
  BY <1>2, <1>3, <1>4, <1>5, <1>6, <1>7, <1>8, <1>9, <1>10, <1>11, <1>12 DEF LiveViewTypeOK

\* The invariant of the live view with what its types need.
ViewTypes == ViewTyped /\ ViewInv /\ ViewBounded

LEMMA ViewTypesStart == LiveViewInit => ViewTypes
BY ViewStarts, ViewBoundedStart DEF ViewTypes

LEMMA ViewTypesStep == ViewTypes /\ [LiveViewNext]_liveViewVars => ViewTypes'
BY ViewTypedKept, LogsKept, SettlingKept, ViewBoundedStep DEF ViewTypes, ViewInv

LEMMA ViewTypesFit == ViewTypes => LiveViewTypeOK
BY ViewTyping DEF ViewTypes, ViewInv

\* The types of the live view in every state: the log that is shown, which takes chunks from
\* the socket, the log of the answer and the log of the verdict, is never longer than the
\* whole log twice (useExecutions.ts, ExecutionDrawer.tsx).
THEOREM ViewAlwaysTyped == LiveViewSpec => []LiveViewTypeOK
BY ViewTypesStart, ViewTypesStep, ViewTypesFit, PTL DEF LiveViewSpec

----------------------------------------------------------------------------
(***************************** The test cases *****************************)

Suggested == UNION {[s -> 0..MaxEditions] : s \in SUBSET TestCase}
Applying == [todo : SUBSET TestCase, all : BOOLEAN, done : SUBSET TestCase, rows : Shelf,
             applied : SUBSET TestCase, suggestions : Suggested]
FormOn == [open : BOOLEAN, of : SUBSET TestCase, base : 0..MaxEditions, text : 0..MaxEditions,
           steps : 0..MaxEditions]
Saved == [at : {"idle", "sent", "served", "failed"}, of : SUBSET TestCase, base : 0..MaxEditions,
          text : 0..MaxEditions, steps : 0..MaxEditions]
OptimizerShown == [suggestions : Suggested, applied : SUBSET TestCase, applying : SUBSET TestCase]

\* The test cases of done say what is suggested for them, unless they were reworked.
SuggestedStored(done, suggestions, held, again) ==
    \A i \in done \cap DOMAIN suggestions \cap DOMAIN held :
        i \in again \/ held[i].steps = suggestions[i]

LibraryTyped ==
    /\ created \subseteq TestCase /\ library \in Shelf /\ DOMAIN library \subseteq created /\ rows \in Shelf
    /\ typed \in [created -> 0..MaxEditions] /\ overtaken \subseteq created /\ reworked \subseteq created
    /\ edition \in 0..MaxEditions /\ openings \in 0..MaxOpenings

PageTyped ==
    /\ drawer \in FormOn /\ (drawer.of = {} \/ \E i \in TestCase : drawer.of = {i})
    /\ saving \in Saved
    /\ generating \in BOOLEAN /\ suite \in {"idle", "generating", "inserting"} /\ optimizing \subseteq TestCase

OptimizerTyped ==
    /\ optimizer \in OptimizerShown /\ optimizer.applied \subseteq created
    /\ \A a \in applies : /\ a \in Applying /\ a.todo \subseteq DOMAIN a.suggestions
                          /\ a.applied \subseteq created /\ a.done \subseteq created

TextsKept == \A i \in DOMAIN library \ overtaken : library[i].text = typed[i]

\* Also of the test cases a request under way has done or will say are applied.
AppliedKept ==
    /\ SuggestedStored(optimizer.applied, optimizer.suggestions, library, reworked)
    /\ \A a \in applies :
           SuggestedStored(a.applied \cup a.done, optimizer.suggestions, library, reworked)

LibraryInv == LibraryTyped /\ PageTyped /\ OptimizerTyped /\ TextsKept /\ AppliedKept

LEMMA LibraryBounds == MaxEditions \in Nat /\ MaxOpenings \in Nat
BY TestLibraryAssumption

LEMMA OnShelf == \A f : f \in Shelf <=> f \in [DOMAIN f -> TestBody] /\ DOMAIN f \subseteq TestCase
BY DEF Shelf

LEMMA AsSuggested == \A f : f \in Suggested <=> f \in [DOMAIN f -> 0..MaxEditions] /\ DOMAIN f \subseteq TestCase
BY DEF Suggested

LEMMA NothingSuggested == << >> \in Suggested /\ DOMAIN << >> = {}
<1>1. DOMAIN << >> = {} /\ << >> = [i \in {} |-> 0]
  OBVIOUS
<1>2. << >> \in [{} -> 0..MaxEditions]
  BY <1>1
<1> QED
  BY <1>1, <1>2, AsSuggested

LEMMA ShelfExtended ==
    ASSUME NEW f \in Shelf, NEW i \in TestCase, NEW x \in TestBody
    PROVE  /\ Extended(f, i, x) \in Shelf /\ DOMAIN Extended(f, i, x) = DOMAIN f \cup {i}
           /\ Extended(f, i, x)[i] = x
           /\ \A j \in DOMAIN f : j # i => Extended(f, i, x)[j] = f[j]
<1>1. f \in [DOMAIN f -> TestBody] /\ DOMAIN f \subseteq TestCase
  BY OnShelf
<1> DEFINE g == Extended(f, i, x)
<1>2. g = [j \in DOMAIN f \cup {i} |-> IF j = i THEN x ELSE f[j]]
  BY DEF Extended
<1> HIDE DEF g
<1>3. g \in [DOMAIN f \cup {i} -> TestBody] /\ DOMAIN g = DOMAIN f \cup {i}
  BY <1>1, <1>2
<1>4. g \in Shelf
  BY <1>1, <1>3, OnShelf
<1>5. g[i] = x /\ \A j \in DOMAIN f : j # i => g[j] = f[j]
  BY <1>2
<1> QED
  BY <1>3, <1>4, <1>5 DEF g

LEMMA ShelfChanged ==
    ASSUME NEW f \in Shelf, NEW i \in DOMAIN f, NEW x \in TestBody
    PROVE  /\ [f EXCEPT ![i] = x] \in Shelf /\ DOMAIN [f EXCEPT ![i] = x] = DOMAIN f
           /\ [f EXCEPT ![i] = x][i] = x
           /\ \A j \in DOMAIN f : j # i => [f EXCEPT ![i] = x][j] = f[j]
<1>1. f \in [DOMAIN f -> TestBody] /\ DOMAIN f \subseteq TestCase
  BY OnShelf
<1> DEFINE g == [f EXCEPT ![i] = x]
<1>2. g \in [DOMAIN f -> TestBody] /\ DOMAIN g = DOMAIN f /\ g[i] = x /\ \A j \in DOMAIN f : j # i => g[j] = f[j]
  BY <1>1
<1> HIDE DEF g
<1>3. g \in Shelf
  BY <1>1, <1>2, OnShelf
<1> QED
  BY <1>2, <1>3 DEF g

LEMMA ShelfBody == ASSUME NEW f \in Shelf, NEW i \in DOMAIN f PROVE f[i] \in TestBody /\ i \in TestCase
BY OnShelf

LEMMA LibraryStart == TestLibraryInit => LibraryInv
<1> SUFFICES ASSUME TestLibraryInit PROVE LibraryInv
  OBVIOUS
<1>1. /\ created \in SUBSET TestCase
      /\ library \in [created -> TestBody] /\ (\A i \in created : library[i].text = 0 /\ library[i].steps = 0)
      /\ rows = library /\ typed = [i \in created |-> 0]
      /\ drawer = NoDrawer /\ saving = NoSaving /\ generating = FALSE /\ suite = "idle"
      /\ optimizing = {} /\ optimizer = [suggestions |-> << >>, applied |-> {}, applying |-> {}]
      /\ applies = {} /\ edition = 0 /\ openings = 0 /\ overtaken = {} /\ reworked = {}
  BY DEF TestLibraryInit
<1>2. 0 \in 0..MaxEditions /\ 0 \in 0..MaxOpenings
  BY LibraryBounds
<1>3. library \in Shelf /\ DOMAIN library = created
  BY <1>1, OnShelf
<1>4. LibraryTyped
  BY <1>1, <1>2, <1>3 DEF LibraryTyped
<1>5. PageTyped
  BY <1>1, <1>2 DEF PageTyped, NoDrawer, NoSaving, FormOn, Saved
<1>6. optimizer \in OptimizerShown /\ optimizer.applied = {}
  BY <1>1, NothingSuggested DEF OptimizerShown
<1>7. OptimizerTyped
  BY <1>1, <1>6 DEF OptimizerTyped
<1>8. TextsKept
  BY <1>1, <1>3 DEF TextsKept
<1>9. AppliedKept
  BY <1>1, <1>6 DEF AppliedKept, SuggestedStored
<1> QED
  BY <1>4, <1>5, <1>7, <1>8, <1>9 DEF LibraryInv

\* Only the page moves.
LEMMA PageMoves ==
    ASSUME LibraryInv, UNCHANGED <<library, created, typed, overtaken, reworked, optimizer, applies>>,
           rows' \in Shelf, edition' \in 0..MaxEditions, openings' \in 0..MaxOpenings, PageTyped'
    PROVE  LibraryInv'
<1>1. LibraryTyped' /\ OptimizerTyped' /\ TextsKept' /\ AppliedKept'
  BY DEF LibraryInv, LibraryTyped, OptimizerTyped, TextsKept, AppliedKept
<1> QED
  BY <1>1 DEF LibraryInv

\* One test case is given a body, and is not in doubt unless it says so.
LEMMA BodyStored ==
    ASSUME LibraryInv, NEW i \in TestCase,
           library' \in Shelf, DOMAIN library' = DOMAIN library \cup {i},
           \A j \in DOMAIN library : j # i => library'[j] = library[j],
           created' = created \cup {i},
           typed' \in [created' -> 0..MaxEditions], \A j \in created : j # i => typed'[j] = typed[j],
           overtaken' \subseteq created', \A j \in overtaken : j # i => j \in overtaken',
           reworked' \subseteq created', \A j \in reworked : j # i => j \in reworked',
           i \in overtaken' \/ library'[i].text = typed'[i],
           i \in reworked' \/ i \notin created \/
               (i \in DOMAIN optimizer.suggestions /\ library'[i].steps = optimizer.suggestions[i]),
           rows' \in Shelf, edition' \in 0..MaxEditions, openings' \in 0..MaxOpenings,
           UNCHANGED optimizer, PageTyped', OptimizerTyped',
           \A a \in applies' : \E b \in applies : /\ a.applied = b.applied
                                                  /\ a.done = b.done \/ (a.done = b.done \cup {i} /\ i \in created)
    PROVE  LibraryInv'
<1>1. LibraryTyped'
  BY DEF LibraryInv, LibraryTyped
<1>2. TextsKept'
  <2>1. ASSUME NEW j \in DOMAIN library', j \notin overtaken' PROVE library'[j].text = typed'[j]
    <3>1. CASE j # i
      <4>1. j \in DOMAIN library /\ j \notin overtaken /\ j \in created
        BY <2>1, <3>1 DEF LibraryInv, LibraryTyped
      <4> QED
        BY <3>1, <4>1 DEF LibraryInv, TextsKept
    <3> QED
      BY <2>1, <3>1
  <2> QED
    BY <2>1 DEF TextsKept
<1>3. ASSUME NEW old \in SUBSET created, NEW done,
             done = old \/ (done = old \cup {i} /\ i \in created),
             SuggestedStored(old, optimizer.suggestions, library, reworked)
      PROVE  SuggestedStored(done, optimizer.suggestions, library', reworked')
  <2>1. ASSUME NEW j \in done \cap DOMAIN optimizer.suggestions \cap DOMAIN library'
        PROVE  j \in reworked' \/ library'[j].steps = optimizer.suggestions[j]
    <3>1. CASE j = i
      <4>1. i \in created
        BY <1>3, <3>1
      <4> QED
        BY <3>1, <4>1
    <3>2. CASE j # i
      <4>1. j \in old /\ j \in DOMAIN library
        BY <1>3, <2>1, <3>2
      <4>2. j \in reworked \/ library[j].steps = optimizer.suggestions[j]
        BY <1>3, <2>1, <4>1 DEF SuggestedStored
      <4> QED
        BY <3>2, <4>1, <4>2
    <3> QED
      BY <3>1, <3>2
  <2> QED
    BY <2>1 DEF SuggestedStored
<1>4. AppliedKept'
  <2>1. SuggestedStored(optimizer.applied, optimizer.suggestions, library', reworked')
    <3>1. optimizer.applied \in SUBSET created
          /\ SuggestedStored(optimizer.applied, optimizer.suggestions, library, reworked)
      BY DEF LibraryInv, OptimizerTyped, AppliedKept
    <3> QED
      BY <1>3, <3>1
  <2>2. ASSUME NEW a \in applies'
        PROVE  SuggestedStored(a.applied \cup a.done, optimizer.suggestions, library', reworked')
    <3>1. PICK b \in applies : /\ a.applied = b.applied
                               /\ a.done = b.done \/ (a.done = b.done \cup {i} /\ i \in created)
      OBVIOUS
    <3> DEFINE old == b.applied \cup b.done
               done == a.applied \cup a.done
    <3>2. old \in SUBSET created /\ SuggestedStored(old, optimizer.suggestions, library, reworked)
      BY <3>1 DEF LibraryInv, OptimizerTyped, AppliedKept
    <3>3. done = old \/ (done = old \cup {i} /\ i \in created)
      BY <3>1
    <3> HIDE DEF old, done
    <3>4. SuggestedStored(done, optimizer.suggestions, library', reworked')
      BY <1>3, <3>2, <3>3
    <3> QED
      BY <3>4 DEF done
  <2> QED
    BY <2>1, <2>2 DEF AppliedKept
<1> QED
  BY <1>1, <1>2, <1>4 DEF LibraryInv

\* The optimizer or its requests move: nothing is stored.
LEMMA OptimizerMoves ==
    ASSUME LibraryInv, UNCHANGED <<library, created, typed, overtaken>>,
           reworked' \subseteq created, rows' \in Shelf, edition' \in 0..MaxEditions,
           openings' \in 0..MaxOpenings, PageTyped', OptimizerTyped', AppliedKept'
    PROVE  LibraryInv'
<1>1. LibraryTyped' /\ TextsKept'
  BY DEF LibraryInv, LibraryTyped, TextsKept
<1> QED
  BY <1>1 DEF LibraryInv

LEMMA LibraryStep == LibraryInv /\ [TestLibraryNext]_libraryVars => LibraryInv'
<1> SUFFICES ASSUME LibraryInv, [TestLibraryNext]_libraryVars PROVE LibraryInv'
  OBVIOUS
<1> USE LibraryBounds
<1>a. LibraryTyped /\ PageTyped /\ OptimizerTyped /\ TextsKept /\ AppliedKept
  BY DEF LibraryInv
<1>b. edition \in 0..MaxEditions /\ (Edit => edition' \in 0..MaxEditions)
  BY <1>a DEF LibraryTyped, Edit
<1>c. openings \in 0..MaxOpenings /\ (Open => openings' \in 0..MaxOpenings)
  BY <1>a DEF LibraryTyped, Open
<1>d. rows \in Shelf /\ library \in Shelf
  BY <1>a DEF LibraryTyped
<1>e. UNCHANGED <<drawer, saving, generating, suite, optimizing>> => PageTyped'
  BY <1>a DEF PageTyped
<1>f. UNCHANGED <<optimizer, applies>> /\ created \subseteq created' => OptimizerTyped'
  BY <1>a DEF OptimizerTyped
<1>1. CASE LoadList
  BY <1>1, <1>b, <1>c, <1>d, <1>e, PageMoves DEF LoadList, pageVars
<1>2. CASE EditElsewhere
  <2>1. PICK i \in DOMAIN library :
          /\ library' = [library EXCEPT ![i] = [text |-> edition', steps |-> edition', type |-> "MANUAL"]]
          /\ typed' = [typed EXCEPT ![i] = edition']
          /\ overtaken' = overtaken \ {i} /\ reworked' = reworked \cup {i}
    BY <1>2 DEF EditElsewhere
  <2> DEFINE body == [text |-> edition', steps |-> edition', type |-> "MANUAL"]
  <2>2. edition' \in 0..MaxEditions
    BY <1>2, <1>b DEF EditElsewhere
  <2>3. body \in TestBody /\ body.text = edition'
    BY <2>2 DEF TestBody
  <2>4. library' = [library EXCEPT ![i] = body]
    BY <2>1
  <2> HIDE DEF body
  <2>5. /\ library' \in Shelf /\ DOMAIN library' = DOMAIN library /\ library'[i] = body
        /\ \A j \in DOMAIN library : j # i => library'[j] = library[j]
    BY <1>d, <2>3, <2>4, ShelfChanged
  <2>6. i \in TestCase /\ i \in created
    BY <1>a, <1>d, ShelfBody DEF LibraryTyped
  <2>7. typed' \in [created -> 0..MaxEditions] /\ typed'[i] = edition'
        /\ \A j \in created : j # i => typed'[j] = typed[j]
    BY <1>a, <2>1, <2>2, <2>6 DEF LibraryTyped
  <2>8. UNCHANGED <<rows, drawer, saving, generating, suite, optimizing, optimizer, applies, created, openings>>
    BY <1>2 DEF EditElsewhere, pageVars
  <2>9. PageTyped' /\ OptimizerTyped'
    BY <1>e, <1>f, <2>8
  <2>10. DOMAIN library' = DOMAIN library \cup {i} /\ created' = created \cup {i}
    BY <2>5, <2>6, <2>8
  <2>11. typed' \in [created' -> 0..MaxEditions]
    BY <2>7, <2>8
  <2>12. /\ overtaken' \subseteq created' /\ \A j \in overtaken : j # i => j \in overtaken'
         /\ reworked' \subseteq created' /\ \A j \in reworked : j # i => j \in reworked'
         /\ i \in reworked' /\ library'[i].text = typed'[i]
    BY <1>a, <2>1, <2>3, <2>5, <2>6, <2>7, <2>8 DEF LibraryTyped
  <2>13. \A a \in applies' : \E b \in applies : a.applied = b.applied /\ a.done = b.done
    BY <2>8
  <2>14. rows' \in Shelf /\ openings' \in 0..MaxOpenings
    BY <1>c, <1>d, <2>8
  <2> QED
    BY <2>2, <2>5, <2>6, <2>7, <2>8, <2>9, <2>10, <2>11, <2>12, <2>13, <2>14, BodyStored
<1>3. CASE DeleteTestCase
  <2>1. PICK i \in DOMAIN rows : /\ library' = [j \in DOMAIN library \ {i} |-> library[j]]
                                 /\ rows' \in {library', rows}
    BY <1>3 DEF DeleteTestCase
  <2>2. UNCHANGED <<drawer, saving, generating, suite, optimizing, optimizer, applies, created, edition, typed,
                    overtaken, reworked>>
        /\ openings' \in 0..MaxOpenings
    BY <1>3, <1>c DEF DeleteTestCase, pageVars
  <2>3. library' \in Shelf /\ DOMAIN library' \subseteq DOMAIN library
        /\ \A j \in DOMAIN library' : library'[j] = library[j]
    <3>1. library \in [DOMAIN library -> TestBody] /\ DOMAIN library \subseteq TestCase
      BY <1>d, OnShelf
    <3>2. library' \in [DOMAIN library \ {i} -> TestBody] /\ DOMAIN library' = DOMAIN library \ {i}
          /\ \A j \in DOMAIN library' : library'[j] = library[j]
      BY <2>1, <3>1
    <3> QED
      BY <3>1, <3>2, OnShelf
  <2>4. rows' \in Shelf
    BY <1>d, <2>1, <2>3
  <2>5. LibraryTyped'
    BY <1>a, <2>2, <2>3, <2>4 DEF LibraryTyped
  <2>6. PageTyped' /\ OptimizerTyped'
    BY <1>e, <1>f, <2>2
  <2>7. TextsKept'
    BY <1>a, <2>2, <2>3 DEF TextsKept
  <2>8. AppliedKept'
    <3>1. ASSUME NEW done, SuggestedStored(done, optimizer.suggestions, library, reworked)
          PROVE  SuggestedStored(done, optimizer.suggestions, library', reworked)
      BY <2>3, <3>1 DEF SuggestedStored
    <3> QED
      BY <1>a, <2>2, <3>1 DEF AppliedKept
  <2> QED
    BY <2>5, <2>6, <2>7, <2>8 DEF LibraryInv
<1>4. CASE OpenTestDrawer
  <2>1. \/ drawer' = [NoDrawer EXCEPT !.open = TRUE]
        \/ \E i \in DOMAIN rows : drawer' = [open |-> TRUE, of |-> {i}, base |-> rows[i].text,
                                             text |-> rows[i].text, steps |-> rows[i].steps]
    BY <1>4 DEF OpenTestDrawer
  <2>2. drawer' \in FormOn /\ (drawer'.of = {} \/ \E i \in TestCase : drawer'.of = {i})
    <3>1. CASE drawer' = [NoDrawer EXCEPT !.open = TRUE]
      <4>1. 0 \in 0..MaxEditions
        OBVIOUS
      <4>2. drawer' = [open |-> TRUE, of |-> {}, base |-> 0, text |-> 0, steps |-> 0]
        BY <3>1 DEF NoDrawer
      <4> QED
        BY <4>1, <4>2 DEF FormOn
    <3>2. ASSUME NEW i \in DOMAIN rows,
                 drawer' = [open |-> TRUE, of |-> {i}, base |-> rows[i].text,
                            text |-> rows[i].text, steps |-> rows[i].steps]
          PROVE  drawer' \in FormOn /\ (drawer'.of = {} \/ \E k \in TestCase : drawer'.of = {k})
      <4>1. rows[i] \in TestBody /\ i \in TestCase
        BY <1>d, ShelfBody
      <4> QED
        BY <3>2, <4>1 DEF FormOn, TestBody
    <3> QED
      BY <2>1, <3>1, <3>2
  <2>3. PageTyped'
    BY <1>4, <1>a, <2>2 DEF OpenTestDrawer, PageTyped
  <2> QED
    BY <1>4, <1>b, <1>c, <1>d, <2>3, PageMoves DEF OpenTestDrawer
<1>5. CASE CloseTestDrawer
  <2>1. drawer' = NoDrawer /\ NoDrawer \in FormOn /\ NoDrawer.of = {}
    BY <1>5 DEF CloseTestDrawer, NoDrawer, FormOn
  <2>2. PageTyped'
    BY <1>5, <1>a, <2>1 DEF CloseTestDrawer, PageTyped
  <2> QED
    BY <1>5, <1>b, <1>c, <1>d, <2>2, PageMoves DEF CloseTestDrawer
<1>6. CASE Type
  <2>1. edition' \in 0..MaxEditions
    BY <1>6, <1>b DEF Type
  <2>2. drawer' \in FormOn /\ drawer'.of = drawer.of
    BY <1>6, <1>a, <2>1 DEF Type, PageTyped, FormOn
  <2>3. PageTyped'
    BY <1>6, <1>a, <2>2 DEF Type, PageTyped
  <2> QED
    BY <1>6, <1>c, <1>d, <2>1, <2>3, PageMoves DEF Type
<1>7. CASE StartGenerating
  <2>1. PageTyped'
    BY <1>7, <1>a DEF StartGenerating, PageTyped
  <2> QED
    BY <1>7, <1>b, <1>c, <1>d, <2>1, PageMoves DEF StartGenerating
<1>8. CASE StepsGenerated
  <2>1. edition' \in 0..MaxEditions
    BY <1>8, <1>b DEF StepsGenerated
  <2>2. drawer' \in FormOn /\ drawer'.of = drawer.of
    BY <1>8, <1>a, <2>1 DEF StepsGenerated, PageTyped, FormOn
  <2>3. PageTyped'
    BY <1>8, <1>a, <2>2 DEF StepsGenerated, PageTyped
  <2> QED
    BY <1>8, <1>c, <1>d, <2>1, <2>3, PageMoves DEF StepsGenerated
<1>9. CASE StartSave
  <2>1. saving' \in Saved
    BY <1>9, <1>a DEF StartSave, PageTyped, FormOn, Saved
  <2>2. PageTyped'
    BY <1>9, <1>a, <2>1 DEF StartSave, PageTyped
  <2> QED
    BY <1>9, <1>b, <1>c, <1>d, <2>2, PageMoves DEF StartSave
<1>10. CASE ServeSave
  <2>1. PICK i :
        /\ i \in (IF saving.of = {} THEN TestCase \ created ELSE saving.of \cap DOMAIN library)
        /\ saving' = [saving EXCEPT !.at = "served"]
        /\ library' = Extended(library, i, [text |-> saving.text, steps |-> saving.steps, type |-> "MANUAL"])
        /\ typed' = Extended(typed, i, IF saving.of = {} \/ saving.text # saving.base THEN saving.text
                                       ELSE typed[i])
        /\ overtaken' = IF saving.text # saving.base THEN overtaken \ {i}
                        ELSE IF saving.of # {} /\ library[i].text # saving.base THEN overtaken \cup {i}
                        ELSE overtaken
        /\ created' = created \cup {i} /\ reworked' = reworked \cup {i}
    BY <1>10 DEF ServeSave
  <2> DEFINE body == [text |-> saving.text, steps |-> saving.steps, type |-> "MANUAL"]
             given == IF saving.of = {} \/ saving.text # saving.base THEN saving.text ELSE typed[i]
  <2>2. saving \in Saved /\ saving.text \in 0..MaxEditions /\ saving.steps \in 0..MaxEditions
    BY <1>a DEF PageTyped, Saved
  <2>3. i \in TestCase /\ (saving.of = {} => i \notin created) /\ (saving.of # {} => i \in DOMAIN library)
    BY <1>d, <2>1, ShelfBody
  <2>4. body \in TestBody /\ body.text = saving.text
    BY <2>2 DEF TestBody
  <2>5. library' = Extended(library, i, body) /\ typed' = Extended(typed, i, given)
    BY <2>1
  <2>6. saving.of # {} => i \in created /\ typed[i] \in 0..MaxEditions
    BY <1>a, <2>3 DEF LibraryTyped
  <2>7. given \in 0..MaxEditions
    BY <2>2, <2>6
  <2>8. /\ given = saving.text \/ (saving.of # {} /\ saving.text = saving.base /\ given = typed[i])
    OBVIOUS
  <2> HIDE DEF body, given
  <2>9. /\ library' \in Shelf /\ DOMAIN library' = DOMAIN library \cup {i} /\ library'[i] = body
        /\ \A j \in DOMAIN library : j # i => library'[j] = library[j]
    <3>1. library \in Shelf /\ i \in TestCase /\ body \in TestBody
      BY <1>d, <2>3, <2>4
    <3>2. library' = Extended(library, i, body)
      BY <2>5
    <3>3. /\ Extended(library, i, body) \in Shelf
          /\ DOMAIN Extended(library, i, body) = DOMAIN library \cup {i}
          /\ Extended(library, i, body)[i] = body
          /\ \A j \in DOMAIN library : j # i => Extended(library, i, body)[j] = library[j]
      BY <3>1, ShelfExtended
    <3> QED
      BY <3>2, <3>3
  <2>10. typed' \in [created' -> 0..MaxEditions] /\ typed'[i] = given
         /\ \A j \in created : j # i => typed'[j] = typed[j]
    BY <1>a, <2>1, <2>5, <2>7 DEF LibraryTyped, Extended
  <2>11. i \in overtaken' \/ library'[i].text = typed'[i]
    <3>1. CASE given = saving.text
      BY <2>4, <2>9, <2>10, <3>1
    <3>2. CASE saving.of # {} /\ saving.text = saving.base /\ given = typed[i]
      <4>1. CASE library[i].text # saving.base
        BY <2>1, <3>2, <4>1
      <4>2. CASE library[i].text = saving.base
        <5>1. overtaken' = overtaken
          BY <2>1, <3>2, <4>2
        <5>2. i \in overtaken \/ library[i].text = typed[i]
          BY <1>a, <2>3, <3>2 DEF TextsKept
        <5> QED
          BY <2>4, <2>9, <2>10, <3>2, <4>2, <5>1, <5>2
      <4> QED
        BY <4>1, <4>2
    <3> QED
      BY <2>8, <3>1, <3>2
  <2>12. /\ overtaken' \subseteq created' /\ \A j \in overtaken : j # i => j \in overtaken'
         /\ reworked' \subseteq created' /\ \A j \in reworked : j # i => j \in reworked'
         /\ i \in reworked'
    BY <1>a, <2>1 DEF LibraryTyped
  <2>13. UNCHANGED <<rows, drawer, generating, suite, optimizing, optimizer, applies, edition, openings>>
    BY <1>10 DEF ServeSave
  <2>14. PageTyped'
    BY <1>a, <2>1, <2>13 DEF PageTyped, Saved
  <2>15. OptimizerTyped'
    BY <1>f, <2>1, <2>13
  <2>16. \A a \in applies' : \E b \in applies : a.applied = b.applied /\ a.done = b.done
    BY <2>13
  <2>17. rows' \in Shelf /\ openings' \in 0..MaxOpenings /\ edition' \in 0..MaxEditions
    BY <1>b, <1>c, <1>d, <2>13
  <2> QED
    BY <2>1, <2>3, <2>9, <2>10, <2>11, <2>12, <2>13, <2>14, <2>15, <2>16, <2>17, BodyStored
<1>11. CASE SaveFails
  <2>1. PageTyped'
    BY <1>11, <1>a DEF SaveFails, PageTyped, Saved
  <2> QED
    BY <1>11, <1>b, <1>c, <1>d, <2>1, PageMoves DEF SaveFails
<1>12. CASE FinishSave
  <2>1. NoSaving \in Saved /\ NoDrawer \in FormOn /\ NoDrawer.of = {}
    BY DEF NoSaving, NoDrawer, Saved, FormOn
  <2>2. saving' = NoSaving /\ (drawer' = NoDrawer \/ drawer' = drawer) /\ rows' \in {library, rows}
        /\ UNCHANGED <<library, generating, suite, optimizing, optimizer, applies, created, edition, typed,
                       overtaken, reworked, openings>>
    BY <1>12 DEF FinishSave
  <2>3. PageTyped'
    BY <1>a, <2>1, <2>2 DEF PageTyped
  <2> QED
    BY <1>b, <1>c, <1>d, <2>2, <2>3, PageMoves
<1>13. CASE StartSuite
  <2>1. PageTyped'
    BY <1>13, <1>a DEF StartSuite, PageTyped
  <2> QED
    BY <1>13, <1>b, <1>c, <1>d, <2>1, PageMoves DEF StartSuite
<1>14. CASE SuiteGenerated
  <2>1. PageTyped'
    BY <1>14, <1>a DEF SuiteGenerated, PageTyped
  <2> QED
    BY <1>14, <1>b, <1>c, <1>d, <2>1, PageMoves DEF SuiteGenerated
<1>15. CASE InsertSuite
  <2>0. suite' = "idle" /\ UNCHANGED <<drawer, saving, generating, optimizing, optimizer, applies, edition,
                                       overtaken, reworked, openings>>
    BY <1>15 DEF InsertSuite
  <2>1. PageTyped'
    BY <1>a, <2>0 DEF PageTyped
  <2>2. CASE UNCHANGED <<library, typed, created, rows>>
    BY <1>b, <1>c, <1>d, <2>0, <2>1, <2>2, PageMoves
  <2>3. ASSUME NEW i \in TestCase \ created,
               library' = Extended(library, i, [text |-> edition, steps |-> edition, type |-> "MANUAL"]),
               typed' = Extended(typed, i, edition), created' = created \cup {i}, rows' \in {library', rows}
        PROVE  LibraryInv'
    <3> DEFINE body == [text |-> edition, steps |-> edition, type |-> "MANUAL"]
    <3>1. body \in TestBody /\ body.text = edition
      BY <1>b DEF TestBody
    <3>2. library' = Extended(library, i, body)
      BY <2>3
    <3> HIDE DEF body
    <3>3. /\ library' \in Shelf /\ DOMAIN library' = DOMAIN library \cup {i} /\ library'[i] = body
          /\ \A j \in DOMAIN library : j # i => library'[j] = library[j]
      BY <1>d, <3>1, <3>2, ShelfExtended
    <3>4. typed' \in [created' -> 0..MaxEditions] /\ typed'[i] = edition
          /\ \A j \in created : j # i => typed'[j] = typed[j]
      BY <1>a, <1>b, <2>3 DEF LibraryTyped, Extended
    <3>5. /\ overtaken' \subseteq created' /\ \A j \in overtaken : j # i => j \in overtaken'
          /\ reworked' \subseteq created' /\ \A j \in reworked : j # i => j \in reworked'
          /\ library'[i].text = typed'[i] /\ i \notin created
      BY <1>a, <2>0, <2>3, <3>1, <3>3, <3>4 DEF LibraryTyped
    <3>6. OptimizerTyped'
      BY <1>f, <2>0, <2>3
    <3>7. \A a \in applies' : \E b \in applies : a.applied = b.applied /\ a.done = b.done
      BY <2>0
    <3>8. rows' \in Shelf /\ openings' \in 0..MaxOpenings /\ edition' \in 0..MaxEditions
      BY <1>b, <1>c, <1>d, <2>0, <2>3, <3>3
    <3> QED
      BY <2>0, <2>1, <2>3, <3>3, <3>4, <3>5, <3>6, <3>7, <3>8, BodyStored
  <2> QED
    BY <1>15, <2>2, <2>3 DEF InsertSuite
<1>16. CASE StartOptimizing
  <2>1. optimizing' \subseteq TestCase
    <3>1. optimizing' \subseteq DOMAIN rows
      BY <1>16 DEF StartOptimizing
    <3> QED
      BY <1>d, <3>1, OnShelf
  <2>2. PageTyped'
    BY <1>16, <1>a, <2>1 DEF StartOptimizing, PageTyped
  <2> QED
    BY <1>16, <1>b, <1>c, <1>d, <2>2, PageMoves DEF StartOptimizing
<1>17. CASE Optimized
  <2>0. optimizing' = {} /\ UNCHANGED <<library, rows, drawer, saving, generating, suite, applies, created,
                                        typed, overtaken, openings>>
    BY <1>17 DEF Optimized
  <2>1. PageTyped'
    BY <1>a, <2>0 DEF PageTyped
  <2>2. CASE UNCHANGED <<optimizer, reworked, edition>>
    BY <1>b, <1>c, <1>d, <2>0, <2>1, <2>2, PageMoves
  <2>3. ASSUME Edit, NEW s \in SUBSET (optimizing \cap DOMAIN library),
               optimizer' = [optimizer EXCEPT !.suggestions = [i \in s |-> edition']],
               reworked' = reworked \cup
                   (s \cap (optimizer.applied \cup UNION {a.applied \cup a.done : a \in applies}))
        PROVE  LibraryInv'
    <3>1. edition' \in 0..MaxEditions
      BY <1>b, <2>3
    <3> DEFINE now == [i \in s |-> edition']
    <3>2. now \in Suggested /\ DOMAIN now = s
      <4>1. now \in [s -> 0..MaxEditions] /\ s \in SUBSET TestCase
        BY <1>a, <3>1 DEF PageTyped
      <4> QED
        BY <4>1 DEF Suggested
    <3>3. optimizer' = [optimizer EXCEPT !.suggestions = now]
      BY <2>3
    <3> HIDE DEF now
    <3>4. optimizer' \in OptimizerShown /\ optimizer'.suggestions = now /\ optimizer'.applied = optimizer.applied
      BY <1>a, <3>2, <3>3 DEF OptimizerTyped, OptimizerShown
    <3>5. OptimizerTyped'
      BY <1>a, <2>0, <3>4 DEF OptimizerTyped
    <3>6. reworked' \subseteq created
      <4>1. \A a \in applies : a.applied \subseteq created /\ a.done \subseteq created
        BY <1>a DEF OptimizerTyped
      <4>2. UNION {a.applied \cup a.done : a \in applies} \subseteq created
        BY <4>1
      <4> QED
        BY <1>a, <2>3, <4>2 DEF OptimizerTyped, LibraryTyped
    <3>7. SuggestedStored(optimizer'.applied, now, library, reworked')
      BY <2>3, <3>2, <3>4 DEF SuggestedStored
    <3>8. ASSUME NEW a \in applies PROVE SuggestedStored(a.applied \cup a.done, now, library, reworked')
      <4>1. a.applied \cup a.done \subseteq UNION {b.applied \cup b.done : b \in applies}
        OBVIOUS
      <4> QED
        BY <2>3, <3>2, <4>1 DEF SuggestedStored
    <3>9. AppliedKept'
      BY <2>0, <3>4, <3>7, <3>8 DEF AppliedKept
    <3> QED
      BY <1>c, <1>d, <2>0, <2>1, <3>1, <3>5, <3>6, <3>9, OptimizerMoves
  <2> QED
    BY <1>17, <2>2, <2>3 DEF Optimized
<1>18. CASE CloseOptimizer
  <2>1. optimizer' = [optimizer EXCEPT !.suggestions = << >>]
        /\ UNCHANGED <<library, rows, drawer, saving, generating, suite, optimizing, applies, created, edition,
                       typed, overtaken, reworked, openings>>
    BY <1>18 DEF CloseOptimizer
  <2>2. optimizer' \in OptimizerShown /\ optimizer'.suggestions = << >> /\ optimizer'.applied = optimizer.applied
    BY <1>a, <2>1, NothingSuggested DEF OptimizerTyped, OptimizerShown
  <2>3. OptimizerTyped'
    BY <1>a, <2>1, <2>2 DEF OptimizerTyped
  <2>4. AppliedKept'
    BY <2>2, NothingSuggested DEF AppliedKept, SuggestedStored
  <2>5. reworked' \subseteq created
    BY <1>a, <2>1 DEF LibraryTyped
  <2> QED
    BY <1>b, <1>c, <1>d, <1>e, <2>1, <2>3, <2>4, <2>5, OptimizerMoves
<1>19. CASE StartApply
  <2>1. PICK todo \in SUBSET (DOMAIN optimizer.suggestions \ optimizer.applied) :
          /\ applies' = applies \cup
               {[todo |-> todo, all |-> Cardinality(todo) > 1, done |-> {}, rows |-> rows,
                 applied |-> optimizer.applied, suggestions |-> optimizer.suggestions]}
          /\ \E i \in todo : optimizer' = [optimizer EXCEPT !.applying = {i}]
    BY <1>19 DEF StartApply
  <2>2. openings' \in 0..MaxOpenings
        /\ UNCHANGED <<library, rows, drawer, saving, generating, suite, optimizing, created, edition, typed,
                       overtaken, reworked>>
    BY <1>19, <1>c DEF StartApply
  <2> DEFINE all == Cardinality(todo) > 1
             new == [todo |-> todo, all |-> all, done |-> {}, rows |-> rows,
                     applied |-> optimizer.applied, suggestions |-> optimizer.suggestions]
  <2>3. all \in BOOLEAN /\ applies' = applies \cup {new}
    BY <2>1
  <2> HIDE DEF all
  <2>4. optimizer \in OptimizerShown /\ optimizer.applied \in SUBSET TestCase /\ optimizer.suggestions \in Suggested
    BY <1>a DEF OptimizerTyped, OptimizerShown
  <2>5. todo \in SUBSET TestCase /\ todo \subseteq DOMAIN optimizer.suggestions
    BY <2>4, AsSuggested
  <2>6. /\ new \in Applying /\ new.todo = todo /\ new.suggestions = optimizer.suggestions
        /\ new.applied = optimizer.applied /\ new.done = {}
    BY <1>d, <2>3, <2>4, <2>5 DEF Applying
  <2> HIDE DEF new
  <2>7. optimizer' \in OptimizerShown /\ optimizer'.suggestions = optimizer.suggestions
        /\ optimizer'.applied = optimizer.applied
    <3>1. PICK i \in todo : optimizer' = [optimizer EXCEPT !.applying = {i}]
      BY <2>1
    <3>2. {i} \in SUBSET TestCase
      BY <2>5
    <3> QED
      BY <2>4, <3>1, <3>2 DEF OptimizerShown
  <2>8. OptimizerTyped'
    BY <1>a, <2>2, <2>3, <2>5, <2>6, <2>7 DEF OptimizerTyped
  <2>9. AppliedKept'
    <3>1. new.applied \cup new.done = optimizer.applied
      BY <2>6
    <3> QED
      BY <1>a, <2>2, <2>3, <2>7, <3>1 DEF AppliedKept
  <2>10. reworked' \subseteq created
    BY <1>a, <2>2 DEF LibraryTyped
  <2> QED
    BY <1>b, <1>d, <1>e, <2>2, <2>8, <2>9, <2>10, OptimizerMoves
<1>20. CASE ServeApply
  <2>a. PICK a \in applies : \E i \in a.todo \cap DOMAIN library :
        /\ i \in DOMAIN a.rows
        /\ library' = [library EXCEPT ![i] = Applied(a.rows[i], a.suggestions[i])]
        /\ applies' = (applies \ {a}) \cup {[a EXCEPT !.todo = @ \ {i}, !.done = @ \cup {i}]}
        /\ overtaken' = IF library[i].text # a.rows[i].text THEN overtaken \cup {i} ELSE overtaken
        /\ reworked' = IF a.suggestions = optimizer.suggestions THEN reworked \ {i} ELSE reworked \cup {i}
        /\ UNCHANGED <<rows, drawer, saving, generating, suite, optimizing, optimizer,
                       created, edition, typed, openings>>
    BY <1>20 DEF ServeApply
  <2>1. PICK i \in a.todo \cap DOMAIN library :
        /\ i \in DOMAIN a.rows
        /\ library' = [library EXCEPT ![i] = Applied(a.rows[i], a.suggestions[i])]
        /\ applies' = (applies \ {a}) \cup {[a EXCEPT !.todo = @ \ {i}, !.done = @ \cup {i}]}
        /\ overtaken' = IF library[i].text # a.rows[i].text THEN overtaken \cup {i} ELSE overtaken
        /\ reworked' = IF a.suggestions = optimizer.suggestions THEN reworked \ {i} ELSE reworked \cup {i}
        /\ UNCHANGED <<rows, drawer, saving, generating, suite, optimizing, optimizer,
                       created, edition, typed, openings>>
    BY <2>a
  <2>b. a \in applies /\ i \in a.todo /\ i \in DOMAIN library
    BY <2>a, <2>1
  <2> DEFINE body == Applied(a.rows[i], a.suggestions[i])
             d == [a EXCEPT !.todo = @ \ {i}, !.done = @ \cup {i}]
  <2>2. a \in Applying /\ a.todo \subseteq DOMAIN a.suggestions /\ a.applied \subseteq created /\ a.done \subseteq created
    BY <1>a, <2>b DEF OptimizerTyped
  <2>3. a.rows \in Shelf /\ a.suggestions \in Suggested /\ i \in DOMAIN a.suggestions
    BY <2>2 DEF Applying
  <2>4. a.rows[i] \in TestBody /\ i \in TestCase
    BY <2>1, <2>b, <2>3, ShelfBody
  <2>5. a.suggestions[i] \in 0..MaxEditions
    BY <2>3, AsSuggested
  <2>6. body \in TestBody /\ body.text = a.rows[i].text /\ body.steps = a.suggestions[i]
    BY <2>4, <2>5 DEF Applied, TestBody
  <2>7. i \in created
    BY <1>a, <2>1, <2>b DEF LibraryTyped
  <2>8. d \in Applying /\ d.todo = a.todo \ {i} /\ d.done = a.done \cup {i} /\ d.applied = a.applied
        /\ d.suggestions = a.suggestions
    BY <2>2, <2>4 DEF Applying
  <2>9. library' = [library EXCEPT ![i] = body] /\ applies' = (applies \ {a}) \cup {d}
    BY <2>1, <2>b
  <2> HIDE DEF body, d
  <2>10. /\ library' \in Shelf /\ DOMAIN library' = DOMAIN library /\ library'[i] = body
         /\ \A j \in DOMAIN library : j # i => library'[j] = library[j]
    <3>1. library \in Shelf /\ i \in DOMAIN library /\ body \in TestBody
      BY <1>d, <2>b, <2>6
    <3>2. library' = [library EXCEPT ![i] = body]
      BY <2>9
    <3> QED
      BY <3>1, <3>2, ShelfChanged
  <2>11. PageTyped'
    BY <1>e, <2>1, <2>b
  <2>12. OptimizerTyped'
    BY <1>a, <2>1, <2>b, <2>2, <2>7, <2>8, <2>9 DEF OptimizerTyped
  <2>13. i \in overtaken' \/ library'[i].text = typed'[i]
    <3>1. CASE library[i].text # a.rows[i].text
      BY <2>1, <2>b, <3>1
    <3>2. CASE library[i].text = a.rows[i].text
      <4>1. overtaken' = overtaken
        BY <2>1, <2>b, <3>2
      <4>2. i \in overtaken \/ library[i].text = typed[i]
        BY <1>a, <2>1, <2>b DEF TextsKept
      <4> QED
        BY <2>1, <2>b, <2>6, <2>10, <3>2, <4>1, <4>2
    <3> QED
      BY <3>1, <3>2
  <2>14. i \in reworked' \/ (i \in DOMAIN optimizer.suggestions /\ library'[i].steps = optimizer.suggestions[i])
    BY <2>1, <2>b, <2>3, <2>6, <2>10
  <2>15. /\ overtaken' \subseteq created' /\ \A j \in overtaken : j # i => j \in overtaken'
         /\ reworked' \subseteq created' /\ \A j \in reworked : j # i => j \in reworked'
    BY <1>a, <2>1, <2>b, <2>7 DEF LibraryTyped
  <2>16. DOMAIN library' = DOMAIN library \cup {i} /\ created' = created \cup {i}
    BY <2>1, <2>b, <2>7, <2>10
  <2>17. typed' \in [created' -> 0..MaxEditions] /\ \A j \in created : j # i => typed'[j] = typed[j]
    BY <1>a, <2>1, <2>b DEF LibraryTyped
  <2>18. \A e \in applies' : \E b \in applies :
             e.applied = b.applied /\ (e.done = b.done \/ (e.done = b.done \cup {i} /\ i \in created))
    BY <2>7, <2>8, <2>9
  <2>19. rows' \in Shelf /\ openings' \in 0..MaxOpenings /\ edition' \in 0..MaxEditions
    BY <1>b, <1>c, <1>d, <2>1, <2>b
  <2> QED
    BY <2>1, <2>b, <2>4, <2>10, <2>11, <2>12, <2>13, <2>14, <2>15, <2>16, <2>17, <2>18, <2>19, BodyStored
<1>21. CASE ApplyFails
  <2>1. PICK a \in applies :
          /\ applies' = (applies \ {a}) \cup {[a EXCEPT !.todo = {}]}
          /\ UNCHANGED <<library, rows, drawer, saving, generating, suite, optimizing, optimizer,
                         created, edition, typed, overtaken, reworked, openings>>
    BY <1>21 DEF ApplyFails
  <2> DEFINE d == [a EXCEPT !.todo = {}]
  <2>2. a \in Applying /\ a.applied \subseteq created /\ a.done \subseteq created
    BY <1>a DEF OptimizerTyped
  <2>3. d \in Applying /\ d.todo = {} /\ d.done = a.done /\ d.applied = a.applied
    BY <2>2 DEF Applying
  <2>4. applies' = (applies \ {a}) \cup {d}
    BY <2>1
  <2> HIDE DEF d
  <2>5. OptimizerTyped'
    BY <1>a, <2>1, <2>2, <2>3, <2>4 DEF OptimizerTyped
  <2>6. AppliedKept'
    <3>1. d.applied \cup d.done = a.applied \cup a.done
      BY <2>3
    <3> QED
      BY <1>a, <2>1, <2>4, <3>1 DEF AppliedKept
  <2>7. reworked' \subseteq created
    BY <1>a, <2>1 DEF LibraryTyped
  <2> QED
    BY <1>b, <1>c, <1>d, <1>e, <2>1, <2>5, <2>6, <2>7, OptimizerMoves
<1>22. CASE FinishApply
  <2>1. PICK a \in applies :
        /\ a.todo = {} /\ applies' = applies \ {a}
        /\ optimizer' = [suggestions |-> IF a.all /\ a.done # {} THEN << >> ELSE optimizer.suggestions,
                         applied |-> IF a.done # {} THEN a.applied \cup a.done ELSE optimizer.applied,
                         applying |-> {}]
        /\ rows' \in {library, rows}
        /\ UNCHANGED <<library, drawer, saving, generating, suite, optimizing,
                       created, edition, typed, overtaken, reworked, openings>>
    BY <1>22 DEF FinishApply
  <2> DEFINE displayed == IF a.all /\ a.done # {} THEN << >> ELSE optimizer.suggestions
             applied == IF a.done # {} THEN a.applied \cup a.done ELSE optimizer.applied
  <2>2. optimizer' = [suggestions |-> displayed, applied |-> applied, applying |-> {}]
    BY <2>1
  <2>3. a \in Applying /\ a.applied \subseteq created /\ a.done \subseteq created /\ optimizer \in OptimizerShown
        /\ optimizer.applied \subseteq created /\ created \subseteq TestCase
    BY <1>a DEF OptimizerTyped, LibraryTyped
  <2>4. displayed \in Suggested /\ (displayed = optimizer.suggestions \/ DOMAIN displayed = {})
    BY <2>3, NothingSuggested DEF OptimizerShown
  <2>5. applied \subseteq created /\ (applied = a.applied \cup a.done \/ applied = optimizer.applied)
    BY <2>3
  <2> HIDE DEF displayed, applied
  <2>6. optimizer' \in OptimizerShown /\ optimizer'.suggestions = displayed /\ optimizer'.applied = applied
    <3>1. applied \in SUBSET TestCase
      BY <2>3, <2>5
    <3> QED
      BY <2>2, <2>4, <3>1 DEF OptimizerShown
  <2>7. OptimizerTyped'
    BY <1>a, <2>1, <2>5, <2>6 DEF OptimizerTyped
  <2>8. AppliedKept'
    <3>1. SuggestedStored(applied, optimizer.suggestions, library, reworked)
      BY <1>a, <2>5 DEF AppliedKept
    <3>2. ASSUME NEW done, SuggestedStored(done, optimizer.suggestions, library, reworked)
          PROVE  SuggestedStored(done, displayed, library, reworked)
      BY <2>4, <3>2 DEF SuggestedStored
    <3>3. \A b \in applies' : SuggestedStored(b.applied \cup b.done, optimizer.suggestions, library, reworked)
      BY <1>a, <2>1 DEF AppliedKept
    <3> QED
      BY <2>1, <2>6, <3>1, <3>2, <3>3 DEF AppliedKept
  <2>9. reworked' \subseteq created
    BY <1>a, <2>1 DEF LibraryTyped
  <2>10. rows' \in Shelf
    BY <1>d, <2>1
  <2> QED
    BY <1>b, <1>c, <1>e, <2>1, <2>7, <2>8, <2>9, <2>10, OptimizerMoves
<1>23. CASE UNCHANGED libraryVars
  BY <1>23, <1>b, <1>c, <1>d, <1>e, PageMoves DEF libraryVars
<1> QED
  BY <1>1, <1>2, <1>3, <1>4, <1>5, <1>6, <1>7, <1>8, <1>9, <1>10, <1>11, <1>12, <1>13, <1>14, <1>15, <1>16,
     <1>17, <1>18, <1>19, <1>20, <1>21, <1>22, <1>23 DEF TestLibraryNext

LEMMA LibraryShown == LibraryInv => LibraryKept /\ TestLibraryTypeOK
<1> SUFFICES ASSUME LibraryInv PROVE LibraryKept /\ TestLibraryTypeOK
  OBVIOUS
<1>1. LibraryKept
  BY DEF LibraryInv, TextsKept, AppliedKept, SuggestedStored, LibraryKept
<1>2. Cardinality(drawer.of) <= 1
  <2>1. CASE drawer.of = {}
    BY <2>1, FS_EmptySet
  <2>2. ASSUME NEW i \in TestCase, drawer.of = {i} PROVE Cardinality(drawer.of) <= 1
    BY <2>2, FS_Singleton
  <2> QED
    BY <2>1, <2>2 DEF LibraryInv, PageTyped
<1>3. DOMAIN optimizer.suggestions \subseteq TestCase /\ optimizer.applied \subseteq TestCase
  BY AsSuggested DEF LibraryInv, OptimizerTyped, OptimizerShown
<1>4. \A a \in applies : a.todo \cup a.done \cup a.applied \subseteq TestCase /\ a.rows \in Shelf
  BY DEF LibraryInv, OptimizerTyped, Applying
<1>5. drawer.open \in BOOLEAN /\ drawer.of \subseteq TestCase
  BY DEF LibraryInv, PageTyped, FormOn
<1>6. saving.at \in {"idle", "sent", "served", "failed"} /\ saving.of \subseteq TestCase
  BY DEF LibraryInv, PageTyped, Saved
<1>7. TestLibraryTypeOK
  BY <1>2, <1>3, <1>4, <1>5, <1>6 DEF LibraryInv, LibraryTyped, PageTyped, TestLibraryTypeOK
<1> QED
  BY <1>1, <1>7

\* LibraryKept in every state, for any cases, copies and numbers of edits: a test case keeps
\* the text it was given last although the forms and the optimizer write it whole, unless
\* a writer started from an older copy (TestCases.tsx, TestCaseDrawer.tsx).
THEOREM LibraryAlwaysKept == TestLibrarySpec => [](LibraryKept /\ TestLibraryTypeOK)
<1>1. TestLibraryInit => LibraryInv
  BY LibraryStart
<1>2. LibraryInv /\ [TestLibraryNext]_libraryVars => LibraryInv'
  BY LibraryStep
<1> QED
  BY <1>1, <1>2, LibraryShown, PTL DEF TestLibrarySpec

----------------------------------------------------------------------------
(*********************** The organization settings ************************)

ReadsTold(ps, doc) ==
    \A w \in ps : w.at = "read" => \A p \in Path \ w.missed : w.seen[p] = doc[p]

PanelsTold(panels, doc) ==
    \A t \in Tab : panels[t].at = "answered" =>
        \A p \in Path \ panels[t].missed : panels[t].seen[p] = doc[p]

\* A request of the tab t has written the path p, and its answer is still to come.
TabAnswered(ps, t, p) ==
    \E w \in ps : w.live /\ TabOf(w.of) = t /\ w.path = p /\ w.at # "sent"

\* The features are being fetched again.
Rereading(panels, t) == t = "features" /\ panels[t].at \in {"asked", "answered"}

TabsCurrent ==
    \A t \in Tab : \A p \in PathsOf(t) \ behind :
        showing[p] = orgDoc[p] \/ TabAnswered(patches, t, p) \/ Rereading(panel, t)

OrgInv ==
    /\ OrgSettingsTypeOK
    /\ \A w \in patches : w.path \in PathsUnder(w.of)
    /\ orgDoc = storedLast
    /\ ReadsTold(patches, orgDoc) /\ PanelsTold(panel, orgDoc)
    /\ TabsCurrent

LEMMA OrgBounds == MaxChanges \in Nat /\ MaxTabs \in Nat /\ MaxLostAnswers \in Nat
BY OrgSettingsAssumption

LEMMA TabsPaths ==
  /\ \A t \in Tab : PathsOf(t) \subseteq Path
  /\ \A c \in Control : TabOf(c) \in Tab /\ PathsUnder(c) \subseteq PathsOf(TabOf(c))
  /\ \A c \in Control : PathsUnder(c) \subseteq Path
<1>1. \A t \in Tab : PathsOf(t) \subseteq Path
  BY DEF Path
<1>2. \A c \in Control : TabOf(c) \in Tab /\ PathsUnder(c) \subseteq PathsOf(TabOf(c))
  BY DEF Control, TabOf, Tab, PathsUnder, PathsOf
<1> QED
  BY <1>1, <1>2

PanelRec == [at : {"closed", "asked", "answered", "shown"}, seen : Doc, missed : SUBSET Path]

LEMMA NoPanelTyped ==
  /\ Nothing0 \in Doc /\ NoPanel \in PanelRec
  /\ \A at \in {"closed", "asked", "answered", "shown"} :
        [NoPanel EXCEPT !.at = at] \in PanelRec /\ [NoPanel EXCEPT !.at = at].at = at
<1>1. Nothing0 \in Doc
  BY OrgBounds DEF Nothing0, Doc
<1> QED
  BY <1>1 DEF NoPanel, PanelRec

LEMMA OrgStart == OrgSettingsInit => OrgInv
<1> USE OrgBounds
<1> SUFFICES ASSUME OrgSettingsInit PROVE OrgInv
  OBVIOUS
<1>1. OrgSettingsTypeOK
  <2>1. 0 \in 0..MaxChanges /\ 0 \in 0..MaxTabs /\ 0 \in 0..MaxLostAnswers
    OBVIOUS
  <2> QED
    BY <2>1, NoPanelTyped DEF OrgSettingsInit, OrgSettingsTypeOK, PanelRec
<1>2. \A t \in Tab : panel[t].at = "closed"
  BY DEF OrgSettingsInit, NoPanel
<1> QED
  BY <1>1, <1>2 DEF OrgSettingsInit, OrgInv, ReadsTold, PanelsTold, TabsCurrent

LEMMA WriteTyped ==
  ASSUME NEW doc \in Doc, NEW paths \in SUBSET Path, NEW v \in 0..MaxChanges
  PROVE  [p \in Path |-> IF p \in paths THEN v ELSE doc[p]] \in Doc
BY DEF Doc

\* What holds once the paths are written and everything under way has missed them.
AllTold(ps, paths) ==
  /\ orgDoc' \in Doc /\ storedLast' \in Doc /\ orgDoc' = storedLast'
  /\ AllMissing(ps, paths) \subseteq Patch
  /\ \A w \in AllMissing(ps, paths) : w.path \in PathsUnder(w.of)
  /\ ReadsTold(AllMissing(ps, paths), orgDoc')
  /\ PanelsMissing(paths) \in [Tab -> PanelRec]
  /\ PanelsTold(PanelsMissing(paths), orgDoc')
  /\ \A t \in Tab : PanelsMissing(paths)[t].at = panel[t].at
  /\ \A w \in ps : \E u \in AllMissing(ps, paths) :
         u.live = w.live /\ u.of = w.of /\ u.path = w.path /\ u.at = w.at

\* What is known of the document after some paths are written.
LEMMA TellingWritten ==
  ASSUME OrgInv, NEW paths \in SUBSET Path, NEW v \in 0..MaxChanges,
         NEW ps, ps \subseteq patches,
         orgDoc' = [p \in Path |-> IF p \in paths THEN v ELSE orgDoc[p]],
         storedLast' = [p \in Path |-> IF p \in paths THEN v ELSE storedLast[p]]
  PROVE  AllTold(ps, paths)
<1>1. orgDoc' \in Doc /\ storedLast' \in Doc /\ orgDoc' = storedLast'
  BY WriteTyped DEF OrgInv, OrgSettingsTypeOK
<1>2. ASSUME NEW w \in Patch
      PROVE  Missing(w, paths) = [w EXCEPT !.missed = w.missed \cup paths]
             /\ Missing(w, paths) \in Patch
  BY <1>2 DEF Missing, Patch
<1>3. ASSUME NEW u \in AllMissing(ps, paths)
      PROVE  \E w \in ps : u = (IF w.at = "read" THEN Missing(w, paths) ELSE w)
  BY <1>3 DEF AllMissing
<1>4. ps \subseteq Patch
  BY DEF OrgInv, OrgSettingsTypeOK
<1>5. ASSUME NEW u \in AllMissing(ps, paths)
      PROVE  /\ u \in Patch /\ u.path \in PathsUnder(u.of)
             /\ u.at = "read" => \A p \in Path \ u.missed : u.seen[p] = orgDoc'[p]
  <2>1. PICK w \in ps : u = (IF w.at = "read" THEN Missing(w, paths) ELSE w)
    BY <1>3
  <2>2. w \in Patch /\ w.path \in PathsUnder(w.of)
    BY <1>4 DEF OrgInv
  <2>3. CASE w.at = "read"
    <3>1. \A p \in Path \ w.missed : w.seen[p] = orgDoc[p]
      BY <2>3 DEF OrgInv, ReadsTold
    <3>2. /\ u \in Patch /\ u.seen = w.seen /\ u.missed = w.missed \cup paths
          /\ u.path = w.path /\ u.of = w.of
      BY <1>2, <2>1, <2>2, <2>3 DEF Patch
    <3> QED
      BY <2>2, <3>1, <3>2
  <2>4. CASE w.at # "read"
    BY <2>1, <2>2, <2>4
  <2> QED
    BY <2>3, <2>4
<1>6. ASSUME NEW w \in ps
      PROVE  \E u \in AllMissing(ps, paths) :
               u.live = w.live /\ u.of = w.of /\ u.path = w.path /\ u.at = w.at
  <2> DEFINE u == IF w.at = "read" THEN Missing(w, paths) ELSE w
  <2>1. u \in AllMissing(ps, paths)
    BY DEF AllMissing
  <2>2. u.live = w.live /\ u.of = w.of /\ u.path = w.path /\ u.at = w.at
    BY <1>2, <1>4 DEF Patch
  <2> HIDE DEF u
  <2> QED
    BY <2>1, <2>2
<1>7. ASSUME NEW t \in Tab
      PROVE  /\ PanelsMissing(paths)[t] \in PanelRec
             /\ PanelsMissing(paths)[t].at = panel[t].at
             /\ panel[t].at = "answered" =>
                  \A p \in Path \ PanelsMissing(paths)[t].missed :
                     PanelsMissing(paths)[t].seen[p] = orgDoc'[p]
  <2>1. panel[t] \in PanelRec
    BY DEF OrgInv, OrgSettingsTypeOK, PanelRec
  <2>2. CASE panel[t].at = "answered"
    <3>1. PanelsMissing(paths)[t] = [panel[t] EXCEPT !.missed = panel[t].missed \cup paths]
      BY <2>1, <2>2 DEF PanelsMissing, Missing, PanelRec
    <3>2. \A p \in Path \ panel[t].missed : panel[t].seen[p] = orgDoc[p]
      BY <2>2 DEF OrgInv, PanelsTold
    <3>3. /\ PanelsMissing(paths)[t] \in PanelRec
          /\ PanelsMissing(paths)[t].at = panel[t].at
          /\ PanelsMissing(paths)[t].seen = panel[t].seen
          /\ PanelsMissing(paths)[t].missed = panel[t].missed \cup paths
      BY <2>1, <3>1 DEF PanelRec
    <3> QED
      BY <3>2, <3>3
  <2>3. CASE panel[t].at # "answered"
    BY <2>1, <2>3 DEF PanelsMissing
  <2> QED
    BY <2>2, <2>3
<1>8. PanelsMissing(paths) \in [Tab -> PanelRec]
  <2>1. PanelsMissing(paths) = [t \in Tab |-> PanelsMissing(paths)[t]]
    BY DEF PanelsMissing
  <2> QED
    BY <1>7, <2>1
<1> QED
  BY <1>1, <1>5, <1>6, <1>7, <1>8 DEF AllTold, ReadsTold, PanelsTold

\* What a tab learns is current but where it is noted as missed.
LEMMA Learning ==
  ASSUME OrgInv, NEW t \in Tab, NEW seen \in Doc, NEW overdue \in SUBSET Path,
         \A p \in Path \ overdue : seen[p] = orgDoc[p],
         Learn(t, seen, overdue)
  PROVE  /\ showing' \in Doc /\ behind' \subseteq Path
         /\ \A p \in PathsOf(t) \ behind' : showing'[p] = orgDoc[p]
         /\ \A u \in Tab \ {t} : \A p \in PathsOf(u) \ behind' :
               p \notin behind /\ showing'[p] = showing[p]
<1>1. PathsOf(t) \subseteq Path /\ \A u \in Tab : PathsOf(u) \subseteq Path
  BY TabsPaths
<1>2. \A u \in Tab \ {t} : PathsOf(u) \cap PathsOf(t) = {}
  BY OrgSettingsPaths
<1>3. /\ showing' = [p \in Path |-> IF p \in PathsOf(t) THEN seen[p] ELSE showing[p]]
      /\ behind' = (behind \ PathsOf(t)) \cup (overdue \cap PathsOf(t))
  BY DEF Learn
<1>4. showing \in [Path -> 0..MaxChanges] /\ seen \in [Path -> 0..MaxChanges] /\ behind \subseteq Path
  BY DEF OrgInv, OrgSettingsTypeOK, Doc
<1>5. showing' \in Doc
  BY <1>3, <1>4 DEF Doc
<1> QED
  BY <1>1, <1>2, <1>3, <1>4, <1>5

LEMMA OrgStep == OrgInv /\ [OrgSettingsNext]_orgSettingsVars => OrgInv'
<1> SUFFICES ASSUME OrgInv, [OrgSettingsNext]_orgSettingsVars PROVE OrgInv'
  OBVIOUS
<1>0. /\ orgDoc \in Doc /\ showing \in Doc /\ storedLast \in Doc /\ behind \subseteq Path
      /\ patches \subseteq Patch /\ panel \in [Tab -> PanelRec]
      /\ changes \in 0..MaxChanges /\ opened \in 0..MaxTabs /\ lost \in 0..MaxLostAnswers
      /\ \A w \in patches : w.path \in PathsUnder(w.of) /\ w.path \in PathsOf(TabOf(w.of))
                            /\ TabOf(w.of) \in Tab /\ w.path \in Path
      /\ \A w \in patches : w.of \in Control
      /\ orgDoc = storedLast
  <2>1. \A w \in patches : w.of \in Control
    BY DEF OrgInv, OrgSettingsTypeOK, Patch
  <2> QED
    BY <2>1, TabsPaths DEF OrgInv, OrgSettingsTypeOK, PanelRec
<1> USE OrgBounds
<1>1. ASSUME NEW t \in Tab, OpenTab(t) PROVE OrgInv'
  <2>1. /\ opened' \in 0..MaxTabs /\ panel' = [panel EXCEPT ![t] = [NoPanel EXCEPT !.at = "asked"]]
        /\ patches' = {IF TabOf(p.of) = t THEN [p EXCEPT !.live = FALSE] ELSE p : p \in patches}
        /\ behind' = behind \cup {p.path : p \in {q \in patches : TabOf(q.of) = t}}
        /\ UNCHANGED <<orgDoc, showing, changes, lost, storedLast>>
    BY <1>0, <1>1 DEF OpenTab
  <2>2. /\ panel' \in [Tab -> PanelRec] /\ panel'[t].at = "asked"
        /\ \A u \in Tab \ {t} : panel'[u] = panel[u]
    BY <1>0, <2>1, NoPanelTyped
  <2>3. ASSUME NEW w \in patches' PROVE
          /\ w \in Patch
          /\ \E q \in patches : /\ w.of = q.of /\ w.path = q.path /\ w.at = q.at
                                /\ w.seen = q.seen /\ w.missed = q.missed
    <3>1. PICK q \in patches : w = IF TabOf(q.of) = t THEN [q EXCEPT !.live = FALSE] ELSE q
      BY <2>1
    <3>2. q \in Patch
      BY <1>0
    <3>3. q \in patches /\ /\ w.of = q.of /\ w.path = q.path /\ w.at = q.at
                           /\ w.seen = q.seen /\ w.missed = q.missed
      BY <3>1, <3>2 DEF Patch
    <3>4. w \in Patch
      BY <3>1, <3>2 DEF Patch
    <3> QED
      BY <3>3, <3>4
  <2>4. behind' \subseteq Path
    BY <1>0, <2>1
  <2>5. ReadsTold(patches', orgDoc')
    BY <2>1, <2>3 DEF ReadsTold, OrgInv
  <2>6. PanelsTold(panel', orgDoc')
    BY <2>1, <2>2 DEF PanelsTold, OrgInv
  <2>7. ASSUME NEW u \in Tab, NEW p \in PathsOf(u) \ behind'
        PROVE  showing[p] = orgDoc[p] \/ TabAnswered(patches', u, p) \/ Rereading(panel', u)
    <3>1. showing[p] = orgDoc[p] \/ TabAnswered(patches, u, p) \/ Rereading(panel, u)
      BY <2>1, <2>7 DEF OrgInv, TabsCurrent
    <3>2. CASE Rereading(panel, u)
      BY <2>2, <3>2 DEF Rereading
    <3>3. CASE TabAnswered(patches, u, p)
      <4>1. PICK w \in patches : w.live /\ TabOf(w.of) = u /\ w.path = p /\ w.at # "sent"
        BY <3>3 DEF TabAnswered
      <4>2. TabOf(w.of) # t
        BY <2>1, <2>7, <4>1
      <4>3. w \in patches'
        BY <2>1, <4>2
      <4> QED
        BY <4>1, <4>3 DEF TabAnswered
    <3> QED
      BY <3>1, <3>2, <3>3
  <2>8. OrgSettingsTypeOK'
    BY <1>0, <2>1, <2>2, <2>3, <2>4 DEF OrgSettingsTypeOK, PanelRec
  <2>9. \A w \in patches' : w.path \in PathsUnder(w.of)
    BY <1>0, <2>3
  <2> QED
    BY <1>0, <2>1, <2>5, <2>6, <2>7, <2>8, <2>9 DEF OrgInv, TabsCurrent
<1>2. ASSUME NEW t \in Tab, ServeTab(t) PROVE OrgInv'
  <2>1. /\ panel[t].at = "asked"
        /\ panel' = [panel EXCEPT ![t] = [at |-> "answered", seen |-> orgDoc, missed |-> {}]]
        /\ UNCHANGED <<orgDoc, patches, showing, changes, opened, lost, storedLast, behind>>
    BY <1>2 DEF ServeTab
  <2>2. [at |-> "answered", seen |-> orgDoc, missed |-> {}] \in PanelRec
    BY <1>0 DEF PanelRec
  <2>3. /\ panel' \in [Tab -> PanelRec] /\ panel'[t].at = "answered" /\ panel'[t].seen = orgDoc
        /\ \A u \in Tab \ {t} : panel'[u] = panel[u]
    BY <1>0, <2>1, <2>2
  <2>4. PanelsTold(panel', orgDoc')
    BY <2>1, <2>3 DEF PanelsTold, OrgInv
  <2>5. \A u \in Tab : Rereading(panel, u) => Rereading(panel', u)
    BY <2>3 DEF Rereading
  <2>6. OrgSettingsTypeOK'
    BY <1>0, <2>1, <2>3 DEF OrgSettingsTypeOK, PanelRec
  <2> QED
    BY <1>0, <2>1, <2>4, <2>5, <2>6 DEF OrgInv, TabsCurrent
<1>3. ASSUME NEW t \in Tab, ShowTab(t) PROVE OrgInv'
  <2>1. /\ panel[t].at = "answered"
        /\ panel' = [panel EXCEPT ![t] = [NoPanel EXCEPT !.at = "shown"]]
        /\ Learn(t, panel[t].seen, panel[t].missed)
        /\ UNCHANGED <<orgDoc, patches, changes, opened, lost, storedLast>>
    BY <1>3 DEF ShowTab
  <2>2. panel[t].seen \in Doc /\ panel[t].missed \in SUBSET Path
        /\ \A p \in Path \ panel[t].missed : panel[t].seen[p] = orgDoc[p]
    <3>1. panel[t] \in PanelRec
      BY <1>0
    <3> QED
      BY <2>1, <3>1 DEF OrgInv, PanelsTold, PanelRec
  <2>3. /\ showing' \in Doc /\ behind' \subseteq Path
        /\ \A p \in PathsOf(t) \ behind' : showing'[p] = orgDoc[p]
        /\ \A u \in Tab \ {t} : \A p \in PathsOf(u) \ behind' :
               p \notin behind /\ showing'[p] = showing[p]
    BY <2>1, <2>2, Learning
  <2>4. /\ panel' \in [Tab -> PanelRec] /\ panel'[t].at = "shown"
        /\ \A u \in Tab \ {t} : panel'[u] = panel[u]
    BY <1>0, <2>1, NoPanelTyped
  <2>5. PanelsTold(panel', orgDoc')
    BY <2>1, <2>4 DEF PanelsTold, OrgInv
  <2>6. ASSUME NEW u \in Tab, NEW p \in PathsOf(u) \ behind'
        PROVE  showing'[p] = orgDoc[p] \/ TabAnswered(patches, u, p) \/ Rereading(panel', u)
    <3>1. CASE u = t
      BY <2>3, <3>1
    <3>2. CASE u # t
      BY <2>3, <2>4, <3>2 DEF OrgInv, TabsCurrent, Rereading
    <3> QED
      BY <3>1, <3>2
  <2>7. OrgSettingsTypeOK'
    BY <1>0, <2>1, <2>3, <2>4 DEF OrgSettingsTypeOK, PanelRec
  <2> QED
    BY <1>0, <2>1, <2>5, <2>6, <2>7 DEF OrgInv, TabsCurrent
<1>4. ASSUME NEW t \in Tab, FetchFails(t) PROVE OrgInv'
  <2>1. /\ lost' \in 0..MaxLostAnswers /\ behind' = behind \cup PathsOf(t)
        /\ panel' = [panel EXCEPT ![t] = [NoPanel EXCEPT !.at = IF t = "organization" THEN "closed" ELSE "shown"]]
        /\ UNCHANGED <<orgDoc, patches, showing, changes, opened, storedLast>>
    BY <1>0, <1>4 DEF FetchFails
  <2>2. /\ panel' \in [Tab -> PanelRec] /\ panel'[t].at \in {"closed", "shown"}
        /\ \A u \in Tab \ {t} : panel'[u] = panel[u]
    BY <1>0, <2>1, NoPanelTyped
  <2>3. PanelsTold(panel', orgDoc')
    BY <2>1, <2>2 DEF PanelsTold, OrgInv
  <2>4. behind' \subseteq Path
    BY <1>0, <2>1, TabsPaths
  <2>5. ASSUME NEW u \in Tab, NEW p \in PathsOf(u) \ behind'
        PROVE  showing[p] = orgDoc[p] \/ TabAnswered(patches, u, p) \/ Rereading(panel', u)
    <3>1. u # t
      BY <2>1, <2>5
    <3> QED
      BY <2>1, <2>2, <2>5, <3>1 DEF OrgInv, TabsCurrent, Rereading
  <2>6. OrgSettingsTypeOK'
    BY <1>0, <2>1, <2>2, <2>4 DEF OrgSettingsTypeOK, PanelRec
  <2> QED
    BY <1>0, <2>1, <2>3, <2>5, <2>6 DEF OrgInv, TabsCurrent
<1>5. ASSUME NEW c \in Control, StartPatch(c) PROVE OrgInv'
  <2>1. PICK path \in PathsUnder(c) :
           patches' = patches \cup
             {[of |-> c, path |-> path, value |-> IF c = "removingKey" THEN 0 ELSE changes', at |-> "sent",
               seen |-> Nothing0, missed |-> {}, live |-> TRUE]}
    BY <1>5 DEF StartPatch
  <2>2. changes' \in 0..MaxChanges /\ UNCHANGED <<orgDoc, panel, showing, opened, lost, storedLast, behind>>
    BY <1>0, <1>5 DEF StartPatch
  <2> DEFINE v == IF c = "removingKey" THEN 0 ELSE changes'
             new == [of |-> c, path |-> path, value |-> v, at |-> "sent",
                     seen |-> Nothing0, missed |-> {}, live |-> TRUE]
  <2>3. v \in 0..MaxChanges
    BY <2>2
  <2> HIDE DEF v
  <2>4. new \in Patch /\ new.at = "sent" /\ new.path \in PathsUnder(new.of)
    <3>1. path \in Path
      BY <2>1, TabsPaths
    <3> QED
      BY <2>1, <2>3, <3>1, NoPanelTyped DEF Patch
  <2>5. patches' = patches \cup {new}
    BY <2>1 DEF v
  <2> HIDE DEF new
  <2>6. ReadsTold(patches', orgDoc')
    BY <2>2, <2>4, <2>5 DEF ReadsTold, OrgInv
  <2>7. \A u \in Tab : \A p : TabAnswered(patches, u, p) => TabAnswered(patches', u, p)
    BY <2>5 DEF TabAnswered
  <2>8. OrgSettingsTypeOK'
    BY <1>0, <2>2, <2>4, <2>5 DEF OrgSettingsTypeOK, PanelRec
  <2> QED
    BY <1>0, <2>2, <2>4, <2>5, <2>6, <2>7, <2>8 DEF OrgInv, TabsCurrent, PanelsTold
<1>6. ASSUME NEW w \in patches, WritePatch(w) PROVE OrgInv'
  <2> DEFINE done == [w EXCEPT !.at = "written"]
             rest == patches \ {w}
  <2>1. /\ w.at = "sent" /\ Write([q \in {w.path} |-> w.value])
        /\ patches' = AllMissing(rest, {w.path}) \cup {done}
        /\ panel' = PanelsMissing({w.path})
        /\ behind' = IF w.live THEN behind ELSE behind \cup {w.path}
        /\ UNCHANGED <<showing, changes, opened, lost>>
    BY <1>6 DEF WritePatch
  <2>2. w \in Patch /\ w.path \in Path /\ w.value \in 0..MaxChanges /\ w.live \in BOOLEAN
    BY <1>0 DEF Patch
  <2>3. /\ done \in Patch /\ done.at = "written" /\ done.path = w.path /\ done.of = w.of /\ done.live = w.live
    BY <2>2 DEF Patch
  <2>4. /\ orgDoc' = [p \in Path |-> IF p \in {w.path} THEN w.value ELSE orgDoc[p]]
        /\ storedLast' = [p \in Path |-> IF p \in {w.path} THEN w.value ELSE storedLast[p]]
    BY <2>1 DEF Write, Stored
  <2>5. rest \subseteq patches /\ {w.path} \in SUBSET Path
    BY <2>2
  <2> HIDE DEF done, rest
  <2>6. /\ orgDoc' \in Doc /\ storedLast' \in Doc /\ orgDoc' = storedLast'
        /\ AllMissing(rest, {w.path}) \subseteq Patch
        /\ \A x \in AllMissing(rest, {w.path}) : x.path \in PathsUnder(x.of)
        /\ ReadsTold(AllMissing(rest, {w.path}), orgDoc')
        /\ panel' \in [Tab -> PanelRec]
        /\ PanelsTold(panel', orgDoc')
        /\ \A t \in Tab : panel'[t].at = panel[t].at
        /\ \A x \in rest : \E u \in AllMissing(rest, {w.path}) :
               u.live = x.live /\ u.of = x.of /\ u.path = x.path /\ u.at = x.at
    <3>1. panel' = PanelsMissing({w.path})
      BY <2>1
    <3>2. {w.path} \in SUBSET Path /\ w.value \in 0..MaxChanges /\ rest \subseteq patches
      BY <2>2, <2>5
    <3>3. AllTold(rest, {w.path})
      BY <2>4, <3>2, TellingWritten
    <3> QED BY <3>1, <3>3 DEF AllTold
  <2>7. ReadsTold(patches', orgDoc')
    BY <2>1, <2>3, <2>6 DEF ReadsTold
  <2>8. behind' \subseteq Path
    BY <1>0, <2>1, <2>2
  <2>9. ASSUME NEW u \in Tab, NEW p \in PathsOf(u) \ behind'
        PROVE  showing[p] = orgDoc'[p] \/ TabAnswered(patches', u, p) \/ Rereading(panel', u)
    <3>1. p \in Path /\ p \notin behind
      BY <2>1, <2>9, TabsPaths
    <3>2. CASE p = w.path
      <4>1. w.live
        BY <2>1, <2>9, <3>2
      <4>2. TabOf(w.of) = u
        BY <1>0, <2>9, <3>2, OrgSettingsPaths
      <4> QED
        BY <2>1, <2>3, <3>2, <4>1, <4>2 DEF TabAnswered
    <3>3. CASE p # w.path
      <4>1. orgDoc'[p] = orgDoc[p]
        BY <2>4, <3>1, <3>3
      <4>2. showing[p] = orgDoc[p] \/ TabAnswered(patches, u, p) \/ Rereading(panel, u)
        BY <2>9, <3>1 DEF OrgInv, TabsCurrent
      <4>3. Rereading(panel, u) => Rereading(panel', u)
        BY <2>6 DEF Rereading
      <4>4. ASSUME TabAnswered(patches, u, p) PROVE TabAnswered(patches', u, p)
        <5>1. PICK x \in patches : x.live /\ TabOf(x.of) = u /\ x.path = p /\ x.at # "sent"
          BY <4>4 DEF TabAnswered
        <5>2. x \in rest
          BY <3>3, <5>1 DEF rest
        <5>3. PICK y \in AllMissing(rest, {w.path}) :
                 y.live = x.live /\ y.of = x.of /\ y.path = x.path /\ y.at = x.at
          BY <2>6, <5>2
        <5> QED
          BY <2>1, <5>1, <5>3 DEF TabAnswered
      <4> QED
        BY <4>1, <4>2, <4>3, <4>4
    <3> QED
      BY <3>2, <3>3
  <2>10. OrgSettingsTypeOK'
    BY <1>0, <2>1, <2>3, <2>6, <2>8 DEF OrgSettingsTypeOK, PanelRec
  <2>11. \A x \in patches' : x.path \in PathsUnder(x.of)
    BY <1>0, <2>1, <2>3, <2>6
  <2> QED
    BY <2>1, <2>6, <2>7, <2>9, <2>10, <2>11 DEF OrgInv, TabsCurrent
<1>7. ASSUME NEW w \in patches, ReadBack(w) PROVE OrgInv'
  <2> DEFINE read == [w EXCEPT !.at = "read", !.seen = orgDoc]
  <2>1. /\ w.at = "written" /\ patches' = (patches \ {w}) \cup {read}
        /\ UNCHANGED <<orgDoc, panel, showing, changes, opened, lost, storedLast, behind>>
    BY <1>7 DEF ReadBack
  <2>2. /\ read \in Patch /\ read.at = "read" /\ read.seen = orgDoc /\ read.path = w.path
        /\ read.of = w.of /\ read.live = w.live
    BY <1>0 DEF Patch
  <2> HIDE DEF read
  <2>3. ReadsTold(patches', orgDoc')
    BY <2>1, <2>2 DEF ReadsTold, OrgInv
  <2>4. ASSUME NEW u \in Tab, NEW p, TabAnswered(patches, u, p) PROVE TabAnswered(patches', u, p)
    BY <2>1, <2>2, <2>4 DEF TabAnswered
  <2>5. OrgSettingsTypeOK'
    BY <1>0, <2>1, <2>2 DEF OrgSettingsTypeOK, PanelRec
  <2>6. \A x \in patches' : x.path \in PathsUnder(x.of)
    BY <1>0, <2>1, <2>2
  <2> QED
    BY <1>0, <2>1, <2>3, <2>4, <2>5, <2>6 DEF OrgInv, TabsCurrent, PanelsTold
<1>8. ASSUME NEW w \in patches, ShowPatch(w) PROVE OrgInv'
  <2>1. /\ w.at = "read" /\ patches' = patches \ {w}
        /\ UNCHANGED <<orgDoc, changes, opened, lost, storedLast>>
    BY <1>8 DEF ShowPatch
  <2>2. /\ w.seen \in Doc /\ w.missed \in SUBSET Path /\ w \in Patch
        /\ \A p \in Path \ w.missed : w.seen[p] = orgDoc[p]
    BY <1>0, <2>1 DEF OrgInv, ReadsTold, Patch
  <2>3. ReadsTold(patches', orgDoc')
    BY <2>1 DEF ReadsTold, OrgInv
  <2>4. ASSUME NEW u \in Tab, NEW p, TabAnswered(patches, u, p)
        PROVE  TabAnswered(patches', u, p) \/ (w.live /\ TabOf(w.of) = u /\ w.path = p)
    BY <2>1, <2>4 DEF TabAnswered
  <2>5. \A x \in patches' : x \in Patch /\ x.path \in PathsUnder(x.of)
    BY <1>0, <2>1
  <2>6. \A u \in Tab : \A p \in PathsOf(u) \ behind :
           showing[p] = orgDoc[p] \/ TabAnswered(patches, u, p) \/ Rereading(panel, u)
    BY DEF OrgInv, TabsCurrent
  <2>7. CASE ~w.live /\ UNCHANGED <<panel, showing, behind>>
    <3>1. OrgSettingsTypeOK'
      BY <1>0, <2>1, <2>5, <2>7 DEF OrgSettingsTypeOK, PanelRec
    <3> QED
      BY <1>0, <2>1, <2>3, <2>4, <2>5, <2>6, <2>7, <3>1 DEF OrgInv, TabsCurrent, PanelsTold
  <2>8. CASE /\ w.live /\ w.of = "saving" /\ showing' = [showing EXCEPT !["name"] = w.value]
             /\ behind' = (behind \ {"name"}) \cup (w.missed \cap {"name"})
                            \cup IF w.seen["name"] = w.value THEN {} ELSE {"name"}
             /\ UNCHANGED panel
    <3>1. "name" \in Path /\ PathsOf("organization") = {"name"} /\ w.path = "name"
          /\ TabOf(w.of) = "organization" /\ "organization" \in Tab
      <4>1. "organization" \in Tab /\ PathsOf("organization") = {"name"} /\ TabOf(w.of) = "organization"
        BY <2>8 DEF Tab, PathsOf, TabOf
      <4> QED
        BY <1>0, <4>1, TabsPaths
    <3>2. w.value \in 0..MaxChanges
      BY <2>2 DEF Patch
    <3>3. showing' \in Doc /\ showing'["name"] = w.value
          /\ \A p \in Path \ {"name"} : showing'[p] = showing[p]
      BY <1>0, <2>8, <3>1, <3>2 DEF Doc
    <3>4. behind' \subseteq Path
      BY <1>0, <2>8, <3>1
    <3>5. ASSUME NEW u \in Tab, NEW p \in PathsOf(u) \ behind'
          PROVE  showing'[p] = orgDoc[p] \/ TabAnswered(patches', u, p) \/ Rereading(panel, u)
      <4>1. p \in Path
        BY TabsPaths
      <4>2. CASE p = "name"
        <5>1. "name" \notin w.missed /\ w.seen["name"] = w.value
          BY <2>8, <3>5, <4>2
        <5> QED
          BY <2>2, <3>1, <3>3, <4>2, <5>1
      <4>3. CASE p # "name"
        BY <2>4, <2>6, <2>8, <3>1, <3>3, <3>5, <4>1, <4>3
      <4> QED
        BY <4>2, <4>3
    <3>6. OrgSettingsTypeOK'
      BY <1>0, <2>1, <2>5, <2>8, <3>3, <3>4 DEF OrgSettingsTypeOK, PanelRec
    <3> QED
      BY <1>0, <2>1, <2>3, <2>5, <2>8, <3>5, <3>6 DEF OrgInv, TabsCurrent, PanelsTold
  <2>9. CASE /\ w.live /\ w.of = "isUpdating"
             /\ panel' = [panel EXCEPT !["features"] = [NoPanel EXCEPT !.at = "asked"]]
             /\ UNCHANGED <<showing, behind>>
    <3>1. "features" \in Tab /\ TabOf(w.of) = "features"
      BY <2>9 DEF Tab, TabOf
    <3>2. /\ panel' \in [Tab -> PanelRec] /\ panel'["features"].at = "asked"
          /\ \A u \in Tab \ {"features"} : panel'[u] = panel[u]
      BY <1>0, <2>9, <3>1, NoPanelTyped
    <3>3. PanelsTold(panel', orgDoc')
      BY <2>1, <3>2 DEF PanelsTold, OrgInv
    <3>4. ASSUME NEW u \in Tab, NEW p \in PathsOf(u) \ behind
          PROVE  showing[p] = orgDoc[p] \/ TabAnswered(patches', u, p) \/ Rereading(panel', u)
      <4>1. CASE u = "features"
        BY <3>2, <4>1 DEF Rereading
      <4>2. CASE u # "features"
        BY <2>4, <2>6, <3>1, <4>2 DEF Rereading
      <4> QED
        BY <4>1, <4>2
    <3>5. OrgSettingsTypeOK'
      BY <1>0, <2>1, <2>5, <2>9, <3>2 DEF OrgSettingsTypeOK, PanelRec
    <3> QED
      BY <1>0, <2>1, <2>3, <2>5, <2>9, <3>3, <3>4, <3>5 DEF OrgInv, TabsCurrent
  <2>10. CASE w.live /\ TabOf(w.of) = "security" /\ Learn("security", w.seen, w.missed) /\ UNCHANGED panel
    <3>1. "security" \in Tab
      BY DEF Tab
    <3>2. /\ showing' \in Doc /\ behind' \subseteq Path
          /\ \A p \in PathsOf("security") \ behind' : showing'[p] = orgDoc[p]
          /\ \A u \in Tab \ {"security"} : \A p \in PathsOf(u) \ behind' :
               p \notin behind /\ showing'[p] = showing[p]
      BY <2>2, <2>10, <3>1, Learning
    <3>3. ASSUME NEW u \in Tab, NEW p \in PathsOf(u) \ behind'
          PROVE  showing'[p] = orgDoc[p] \/ TabAnswered(patches', u, p) \/ Rereading(panel, u)
      <4>1. CASE u = "security"
        BY <3>2, <3>3, <4>1
      <4>2. CASE u # "security"
        <5>1. p \notin behind /\ showing'[p] = showing[p]
          BY <3>2, <3>3, <4>2
        <5> QED
          BY <2>4, <2>6, <2>10, <3>3, <4>2, <5>1
      <4> QED
        BY <4>1, <4>2
    <3>4. OrgSettingsTypeOK'
      BY <1>0, <2>1, <2>5, <2>10, <3>2 DEF OrgSettingsTypeOK, PanelRec
    <3> QED
      BY <1>0, <2>1, <2>3, <2>5, <2>10, <3>3, <3>4 DEF OrgInv, TabsCurrent, PanelsTold
  <2> QED
    BY <1>8, <2>7, <2>8, <2>9, <2>10 DEF ShowPatch
<1>9. ASSUME NEW w \in patches, PatchFails(w) PROVE OrgInv'
  <2>1. /\ lost' \in 0..MaxLostAnswers /\ patches' = patches \ {w}
        /\ behind' = IF w.at = "sent" THEN behind ELSE behind \cup {w.path}
        /\ UNCHANGED <<orgDoc, panel, showing, changes, opened, storedLast>>
    BY <1>0, <1>9 DEF PatchFails
  <2>2. ReadsTold(patches', orgDoc')
    BY <2>1 DEF ReadsTold, OrgInv
  <2>3. ASSUME NEW u \in Tab, NEW p \in PathsOf(u) \ behind'
        PROVE  showing[p] = orgDoc[p] \/ TabAnswered(patches', u, p) \/ Rereading(panel, u)
    <3>1. p \notin behind /\ (p = w.path => w.at = "sent")
      BY <2>1, <2>3
    <3>2. showing[p] = orgDoc[p] \/ TabAnswered(patches, u, p) \/ Rereading(panel, u)
      BY <2>3, <3>1 DEF OrgInv, TabsCurrent
    <3>3. TabAnswered(patches, u, p) => TabAnswered(patches', u, p)
      BY <2>1, <3>1 DEF TabAnswered
    <3> QED
      BY <3>2, <3>3
  <2>4. OrgSettingsTypeOK'
    BY <1>0, <2>1 DEF OrgSettingsTypeOK, PanelRec
  <2> QED
    BY <1>0, <2>1, <2>2, <2>3, <2>4 DEF OrgInv, TabsCurrent, PanelsTold
<1>10. ASSUME PatchElsewhere PROVE OrgInv'
  <2>1. PICK t \in Tab : \E paths \in (SUBSET PathsOf(t)) \ {{}} :
          /\ Write([p \in paths |-> changes'])
          /\ patches' = AllMissing(patches, paths) /\ panel' = PanelsMissing(paths)
          /\ behind' = behind \cup paths
    BY <1>10 DEF PatchElsewhere
  <2>2. PICK paths \in (SUBSET PathsOf(t)) \ {{}} :
          /\ Write([p \in paths |-> changes'])
          /\ patches' = AllMissing(patches, paths) /\ panel' = PanelsMissing(paths)
          /\ behind' = behind \cup paths
    BY <2>1
  <2>3. changes' \in 0..MaxChanges /\ UNCHANGED <<showing, opened, lost>>
    BY <1>0, <1>10 DEF PatchElsewhere
  <2>4. paths \in SUBSET Path
    BY <2>2, TabsPaths
  <2>5. /\ orgDoc' = [p \in Path |-> IF p \in paths THEN changes' ELSE orgDoc[p]]
        /\ storedLast' = [p \in Path |-> IF p \in paths THEN changes' ELSE storedLast[p]]
    BY <2>2 DEF Write, Stored
  <2>6. patches \subseteq patches
    OBVIOUS
  <2>a. PICK v \in 0..MaxChanges : v = changes'
    BY <2>3
  <2> DEFINE ps == AllMissing(patches, paths)
             ts == PanelsMissing(paths)
  <2>7. /\ orgDoc' \in Doc /\ storedLast' \in Doc /\ orgDoc' = storedLast'
        /\ patches' \subseteq Patch
        /\ \A x \in patches' : x.path \in PathsUnder(x.of)
        /\ ReadsTold(patches', orgDoc')
        /\ panel' \in [Tab -> PanelRec]
        /\ PanelsTold(panel', orgDoc')
        /\ \A u \in Tab : panel'[u].at = panel[u].at
        /\ \A x \in patches : \E y \in patches' :
               y.live = x.live /\ y.of = x.of /\ y.path = x.path /\ y.at = x.at
    <3>1. /\ orgDoc' \in Doc /\ storedLast' \in Doc /\ orgDoc' = storedLast'
          /\ ps \subseteq Patch
          /\ \A x \in ps : x.path \in PathsUnder(x.of)
          /\ ReadsTold(ps, orgDoc')
          /\ ts \in [Tab -> PanelRec]
          /\ PanelsTold(ts, orgDoc')
          /\ \A u \in Tab : ts[u].at = panel[u].at
          /\ \A x \in patches : \E y \in ps :
                 y.live = x.live /\ y.of = x.of /\ y.path = x.path /\ y.at = x.at
      <4>1. /\ orgDoc' = [p \in Path |-> IF p \in paths THEN v ELSE orgDoc[p]]
            /\ storedLast' = [p \in Path |-> IF p \in paths THEN v ELSE storedLast[p]]
        BY <2>5, <2>a
      <4>2. AllTold(patches, paths)
        BY <2>4, <2>6, <4>1, TellingWritten
      <4> QED
        BY <4>2 DEF AllTold
    <3>2. patches' = ps /\ panel' = ts
      BY <2>2
    <3> HIDE DEF ps, ts
    <3> QED
      BY <3>1, <3>2
  <2>8. ASSUME NEW u \in Tab, NEW p \in PathsOf(u) \ behind'
        PROVE  showing[p] = orgDoc'[p] \/ TabAnswered(patches', u, p) \/ Rereading(panel', u)
    <3>1. p \in Path /\ p \notin behind /\ p \notin paths
      BY <2>2, <2>8, TabsPaths
    <3>2. orgDoc'[p] = orgDoc[p]
      BY <2>5, <3>1
    <3>3. showing[p] = orgDoc[p] \/ TabAnswered(patches, u, p) \/ Rereading(panel, u)
      BY <2>8, <3>1 DEF OrgInv, TabsCurrent
    <3>4. Rereading(panel, u) => Rereading(panel', u)
      BY <2>7 DEF Rereading
    <3>5. ASSUME TabAnswered(patches, u, p) PROVE TabAnswered(patches', u, p)
      <4>1. PICK x \in patches : x.live /\ TabOf(x.of) = u /\ x.path = p /\ x.at # "sent"
        BY <3>5 DEF TabAnswered
      <4>2. PICK y \in patches' : y.live = x.live /\ y.of = x.of /\ y.path = x.path /\ y.at = x.at
        BY <2>7
      <4> QED
        BY <4>1, <4>2 DEF TabAnswered
    <3> QED
      BY <3>2, <3>3, <3>4, <3>5
  <2>9. OrgSettingsTypeOK'
    BY <1>0, <2>2, <2>3, <2>4, <2>7 DEF OrgSettingsTypeOK, PanelRec
  <2> QED
    BY <2>3, <2>7, <2>8, <2>9 DEF OrgInv, TabsCurrent
<1>11. CASE UNCHANGED orgSettingsVars
  BY <1>11 DEF orgSettingsVars, OrgInv, OrgSettingsTypeOK, TabsCurrent
<1> QED
  BY <1>1, <1>2, <1>3, <1>4, <1>5, <1>6, <1>7, <1>8, <1>9, <1>10, <1>11 DEF OrgSettingsNext

LEMMA OrgFit == OrgInv => OrgSettingsKept /\ OrgSettingsTypeOK
BY DEF OrgInv, OrgSettingsKept, TabsCurrent, TabAnswered, Rereading

\* OrgSettingsKept in every state, for any number of requests: PATCHes of single settings never
\* undo each other, and a tab at rest shows what is stored (organization.ts, SecurityTab.tsx,
\* FeaturesTab.tsx).
THEOREM OrgAlwaysKept == OrgSettingsSpec => [](OrgSettingsKept /\ OrgSettingsTypeOK)
BY OrgStart, OrgStep, OrgFit, PTL DEF OrgSettingsSpec

----------------------------------------------------------------------------
(**************************** The run settings ****************************)

RunForm == [of : Project \cup {"none"}, base : 0..MaxSaves, edited : BOOLEAN, why : SUBSET Doubt]
Asked == [id : 1..MaxLoads, of : Project, at : {"asked", "read"}, seen : 0..MaxSaves, why : SUBSET Doubt]
Put == [at : {"none", "sent", "written", "read"}, of : Project \cup {"none"}, form : RunForm,
        seen : 0..MaxSaves, why : SUBSET Doubt]

\* What was read of the stored settings st, and not known to be outdated, is what they are.
FetchFresh(g, st) == g.at = "read" /\ g.why = {} => g.seen = st[g.of]

\* The save under way: it is made from what is stored, and its answer tells it.
PutFresh(u, st) ==
    /\ u.at # "none" => u.of \in Project
    /\ u.at = "sent" /\ u.why = {} => u.form.of = u.of /\ u.form.base = st[u.of]
    /\ u.at = "read" /\ u.why = {} => u.seen = st[u.of]

\* The form that no doubt is recorded of, while u is the save under way.
FormFresh(m, u, st) ==
    m.why = {} /\ m.of # "none" =>
        m.base = st[m.of] \/ (u.at \in {"written", "read"} /\ u.of = m.of)

FormSelected(m, p, pending) == m.why = {} => m.of = p \/ pending # {}

SettingsTyped ==
    /\ settings \in [Project -> 0..MaxSaves]
    /\ selected \in Project \cup {"none"} /\ form \in RunForm
    /\ fetches \subseteq Asked /\ putting \in Put
    /\ saves \in 0..MaxSaves /\ fetched \in 0..MaxLoads /\ lostRequests \in 0..MaxLostRequests
    /\ blind \in BOOLEAN

SettingsFresh ==
    /\ ~blind
    /\ \A g \in fetches : FetchFresh(g, settings)
    /\ PutFresh(putting, settings)
    /\ FormFresh(form, putting, settings)
    /\ FormSelected(form, selected, fetches)

\* Two projects do not have one name: none being added is there already.
ProjectsDistinct ==
    /\ projects \in Seq(Project) /\ IsInjective(projects)
    /\ listAt \in {"loading", "shown", "limited"} /\ offered \subseteq Project
    /\ adding \subseteq [at : {"sent", "written"}, of : Project]
    /\ \A a \in adding : a.at = "sent" => ~Contains(projects, a.of)
    /\ \A a, b \in adding : a.of = b.of => a = b

RunSettingsInv == SettingsTyped /\ SettingsFresh /\ ProjectsDistinct

LEMMA RunSettingsBounds ==
    "none" \notin Project /\ MaxSaves \in Nat /\ MaxLoads \in Nat /\ MaxLostRequests \in Nat
BY ProjectSettingsAssumption

\* The sequence of a finite set has each of its elements once.
LEMMA SetInSequence ==
    ASSUME NEW S, IsFiniteSet(S)
    PROVE  SetToSeq(S) \in Seq(S) /\ IsInjective(SetToSeq(S))
<1> DEFINE n == Cardinality(S)
<1>1. n \in Nat /\ ExistsBijection(1..n, S)
  BY FS_CardinalityType
<1>2. \E g \in [1..n -> S] : IsInjective(g)
  BY <1>1 DEF ExistsBijection, Bijection, Injection, IsInjective
<1>3. SetToSeq(S) \in [1..n -> S] /\ IsInjective(SetToSeq(S))
  BY <1>2 DEF SetToSeq
<1> QED
  BY <1>1, <1>3, SeqDef

LEMMA RunSettingsStart == ProjectSettingsInit => RunSettingsInv
<1> SUFFICES ASSUME ProjectSettingsInit PROVE RunSettingsInv
  OBVIOUS
<1> USE RunSettingsBounds
<1>1. /\ settings = [p \in Project |-> 0]
      /\ listAt = "loading" /\ offered = {} /\ selected = "none" /\ form = EMPTY_SETTINGS
      /\ fetches = {} /\ putting = NoSave /\ adding = {}
      /\ saves = 0 /\ fetched = 0 /\ lostRequests = 0 /\ blind = FALSE
  BY DEF ProjectSettingsInit, None
<1>2. 0 \in 0..MaxSaves /\ 0 \in 0..MaxLoads /\ 0 \in 0..MaxLostRequests
  OBVIOUS
<1>3. EMPTY_SETTINGS \in RunForm
  BY <1>2 DEF EMPTY_SETTINGS, RunForm, None
<1>4. NoSave \in Put /\ NoSave.at = "none"
  BY <1>2, <1>3 DEF NoSave, Put, None
<1>5. SettingsTyped
  BY <1>1, <1>2, <1>3, <1>4 DEF SettingsTyped
<1>6. SettingsFresh
  BY <1>1, <1>4 DEF SettingsFresh, PutFresh, FormFresh, FormSelected, EMPTY_SETTINGS, None
<1>7. ProjectsDistinct
  <2>1. PICK known \in {{}, {CHOOSE p \in Project : TRUE}, Project} : projects = SetToSeq(known)
    BY DEF ProjectSettingsInit
  <2>2. (CHOOSE p \in Project : TRUE) \in Project
    BY ProjectSettingsAssumption
  <2>3. known \subseteq Project
    BY <2>1, <2>2
  <2>4. IsFiniteSet(known)
    BY <2>3, ProjectSettingsAssumption, FS_Subset
  <2>5. projects \in Seq(Project) /\ IsInjective(projects)
    BY <2>1, <2>3, <2>4, SetInSequence, SeqMonotonic
  <2> QED
    BY <1>1, <2>5 DEF ProjectsDistinct
<1> QED
  BY <1>5, <1>6, <1>7 DEF RunSettingsInv

\* Selecting a project keeps what is known of the form, the save and the requests.
LEMMA SelectingProject ==
    ASSUME SettingsTyped, SettingsFresh, NEW p \in Project, SelectedNow(p),
           UNCHANGED <<settings, form, putting, saves, lostRequests, blind>>
    PROVE  SettingsTyped' /\ SettingsFresh'
<1> USE RunSettingsBounds
<1>1. CASE p = selected
  <2>1. UNCHANGED <<selected, fetches, fetched>>
    BY <1>1 DEF SelectedNow
  <2> QED
    BY <2>1 DEF SettingsTyped, SettingsFresh
<1>2. CASE p # selected
  <2> DEFINE new == [id |-> fetched', of |-> p, at |-> "asked", seen |-> 0, why |-> {}]
  <2>1. selected' = p /\ fetched < MaxLoads /\ fetched' = fetched + 1 /\ fetches' = fetches \cup {new}
    BY <1>2 DEF SelectedNow
  <2>2. fetched' \in 1..MaxLoads /\ fetched' \in 0..MaxLoads /\ 0 \in 0..MaxSaves
    BY <2>1 DEF SettingsTyped
  <2>3. new \in Asked /\ new.at = "asked"
    BY <2>2 DEF Asked
  <2> HIDE DEF new
  <2>4. SettingsTyped'
    BY <2>1, <2>2, <2>3 DEF SettingsTyped
  <2>5. SettingsFresh'
    BY <2>1, <2>3 DEF SettingsFresh, FetchFresh, FormSelected
  <2> QED
    BY <2>4, <2>5
<1> QED
  BY <1>1, <1>2

\* A version is stored for p: the requests that read an older one are marked.
LEMMA OutdatedFresh ==
    ASSUME SettingsTyped, SettingsFresh, NEW p \in Project, NEW why \in Doubt, Outdated(p, why),
           saves < MaxSaves, saves' = saves + 1, settings' = [settings EXCEPT ![p] = saves']
    PROVE  /\ saves' \in 0..MaxSaves /\ settings' \in [Project -> 0..MaxSaves]
           /\ settings'[p] = saves' /\ \A q \in Project : q # p => settings'[q] = settings[q]
           /\ fetches' \subseteq Asked /\ (fetches = {} <=> fetches' = {})
           /\ \A g \in fetches' : FetchFresh(g, settings')
<1> USE RunSettingsBounds
<1>1. saves' \in 0..MaxSaves
  BY DEF SettingsTyped
<1>2. /\ settings' \in [Project -> 0..MaxSaves]
      /\ settings'[p] = saves' /\ \A q \in Project : q # p => settings'[q] = settings[q]
  BY <1>1 DEF SettingsTyped
<1>3. ASSUME NEW f \in fetches
      PROVE  LET g == IF f.of = p /\ f.at = "read" THEN [f EXCEPT !.why = @ \cup {why}] ELSE f
             IN  g \in Asked /\ FetchFresh(g, settings')
  <2>1. f \in Asked /\ FetchFresh(f, settings)
    BY DEF SettingsTyped, SettingsFresh
  <2>2. CASE f.of = p /\ f.at = "read"
    <3> DEFINE g == [f EXCEPT !.why = @ \cup {why}]
    <3>1. g \in Asked /\ why \in g.why
      BY <2>1 DEF Asked
    <3> QED
      BY <2>2, <3>1 DEF FetchFresh
  <2>3. CASE ~(f.of = p /\ f.at = "read")
    <3>1. f.of \in Project
      BY <2>1 DEF Asked
    <3>2. FetchFresh(f, settings')
      BY <1>2, <2>1, <2>3, <3>1 DEF FetchFresh
    <3> QED
      BY <2>1, <2>3, <3>2
  <2> QED
    BY <2>2, <2>3
<1>4. fetches' \subseteq Asked /\ \A g \in fetches' : FetchFresh(g, settings')
  BY <1>3 DEF Outdated
<1>5. fetches = {} <=> fetches' = {}
  BY DEF Outdated
<1> QED
  BY <1>1, <1>2, <1>4, <1>5

\* The form shows what was read of p.
LEMMA LoadedFresh ==
    ASSUME NEW p \in Project, NEW seen \in 0..MaxSaves, NEW why \in SUBSET Doubt, Loaded(p, seen, why)
    PROVE  /\ form' \in RunForm /\ form'.of = p /\ form'.base = seen
           /\ form'.why = {} => why = {} /\ p = selected
<1> DEFINE doubts == why \cup (IF p = selected THEN {} ELSE {"crossed"})
<1>1. doubts \in SUBSET Doubt /\ (doubts = {} => why = {} /\ p = selected)
  BY DEF Doubt
<1>2. form' = [of |-> p, base |-> seen, edited |-> FALSE, why |-> doubts]
  BY DEF Loaded
<1> HIDE DEF doubts
<1> QED
  BY <1>1, <1>2 DEF RunForm

LEMMA SettingsStep ==
    ASSUME SettingsTyped, SettingsFresh,
           projects \in Seq(Project), offered \subseteq Project,
           adding \subseteq [at : {"sent", "written"}, of : Project],
           ProjectSettingsNext
    PROVE  SettingsTyped' /\ SettingsFresh'
<1> USE RunSettingsBounds
<1>1. ASSUME UNCHANGED <<settings, selected, form, fetches, putting, saves, fetched, blind>>,
             lostRequests' \in 0..MaxLostRequests
      PROVE  SettingsTyped' /\ SettingsFresh'
  BY <1>1 DEF SettingsTyped, SettingsFresh
<1>2. lostRequests \in 0..MaxLostRequests
      /\ (lostRequests < MaxLostRequests /\ lostRequests' = lostRequests + 1 => lostRequests' \in 0..MaxLostRequests)
  BY DEF SettingsTyped
<1>3. CASE ProjectsArrive
  <2>1. CASE projects = <<>>
    BY <1>1, <1>2, <1>3, <2>1 DEF ProjectsArrive
  <2>2. CASE projects # <<>>
    <3>1. Last(projects) \in Project
      <4>1. Len(projects) \in 1..Len(projects)
        BY <2>2, EmptySeq, LenProperties
      <4> QED
        BY <4>1, ElementOfSeq DEF Last
    <3>2. SelectedNow(Last(projects)) /\ UNCHANGED <<settings, form, putting, saves, lostRequests, blind>>
      BY <1>3, <2>2 DEF ProjectsArrive
    <3> HIDE DEF SelectedNow
    <3> QED
      BY <3>1, <3>2, SelectingProject
  <2> QED
    BY <2>1, <2>2
<1>4. CASE ProjectsFail
  BY <1>1, <1>2, <1>4 DEF ProjectsFail
<1>5. ASSUME NEW p \in Project, ChooseProject(p) PROVE SettingsTyped' /\ SettingsFresh'
  BY <1>5, SelectingProject DEF ChooseProject
<1>6. ASSUME NEW f \in fetches, ServeSettings(f) PROVE SettingsTyped' /\ SettingsFresh'
  <2> DEFINE g == [f EXCEPT !.at = "read", !.seen = settings[f.of]]
  <2>1. f \in Asked
    BY DEF SettingsTyped
  <2>2. settings[f.of] \in 0..MaxSaves
    BY <2>1 DEF SettingsTyped, Asked
  <2>3. g \in Asked /\ g.seen = settings[g.of]
    BY <2>1, <2>2 DEF Asked
  <2>4. fetches' = (fetches \ {f}) \cup {g}
        /\ UNCHANGED <<settings, selected, form, putting, saves, fetched, lostRequests, blind>>
    BY <1>6 DEF ServeSettings
  <2> HIDE DEF g
  <2>5. SettingsTyped'
    BY <2>3, <2>4 DEF SettingsTyped
  <2>6. SettingsFresh'
    BY <2>3, <2>4 DEF SettingsFresh, FetchFresh, FormSelected
  <2> QED
    BY <2>5, <2>6
<1>7. ASSUME NEW f \in fetches, SettingsArrive(f) PROVE SettingsTyped' /\ SettingsFresh'
  <2>1. f \in Asked /\ f.at = "read" /\ FetchFresh(f, settings)
    BY <1>7 DEF SettingsArrive, SettingsTyped, SettingsFresh
  <2>2. f.of \in Project /\ f.seen \in 0..MaxSaves /\ f.why \in SUBSET Doubt
    BY <2>1 DEF Asked
  <2>3. fetches' = fetches \ {f} /\ Loaded(f.of, f.seen, f.why)
        /\ UNCHANGED <<settings, selected, putting, saves, fetched, lostRequests, blind>>
    BY <1>7 DEF SettingsArrive
  <2>4. /\ form' \in RunForm /\ form'.of = f.of /\ form'.base = f.seen
        /\ form'.why = {} => f.why = {} /\ f.of = selected
    BY <2>2, <2>3, LoadedFresh
  <2>5. SettingsTyped'
    BY <2>3, <2>4 DEF SettingsTyped
  <2>6. FormFresh(form', putting, settings) /\ FormSelected(form', selected, fetches')
    BY <2>1, <2>4 DEF FetchFresh, FormFresh, FormSelected
  <2>7. SettingsFresh'
    BY <2>3, <2>6 DEF SettingsFresh
  <2> QED
    BY <2>5, <2>7
<1>8. ASSUME NEW f \in fetches, SettingsFail(f) PROVE SettingsTyped' /\ SettingsFresh'
  <2>1. f.of \in Project /\ "failed" \in Doubt /\ 0 \in 0..MaxSaves
    BY DEF SettingsTyped, Asked, Doubt
  <2>2. form' = [EMPTY_SETTINGS EXCEPT !.of = f.of, !.why = {"failed"}] /\ fetches' = fetches \ {f}
        /\ lostRequests' \in 0..MaxLostRequests
        /\ UNCHANGED <<settings, selected, putting, saves, fetched, blind>>
    BY <1>2, <1>8 DEF SettingsFail
  <2>3. form' \in RunForm /\ form'.why # {}
    BY <2>1, <2>2 DEF EMPTY_SETTINGS, RunForm
  <2>4. SettingsTyped'
    BY <2>2, <2>3 DEF SettingsTyped
  <2>5. SettingsFresh'
    BY <2>2, <2>3 DEF SettingsFresh, FormFresh, FormSelected
  <2> QED
    BY <2>4, <2>5
<1>9. CASE EditForm
  <2>1. form' = [form EXCEPT !.edited = TRUE]
        /\ UNCHANGED <<settings, selected, fetches, putting, saves, fetched, lostRequests, blind>>
    BY <1>9 DEF EditForm
  <2>2. form' \in RunForm /\ form'.of = form.of /\ form'.base = form.base /\ form'.why = form.why
    BY <2>1 DEF SettingsTyped, RunForm
  <2>3. SettingsTyped'
    BY <2>1, <2>2 DEF SettingsTyped
  <2>4. SettingsFresh'
    BY <2>1, <2>2 DEF SettingsFresh, FormFresh, FormSelected
  <2> QED
    BY <2>3, <2>4
<1>10. CASE SaveForm
  <2> DEFINE doubts == form.why \cup (IF fetches = {} THEN {} ELSE {"early"})
  <2>1. doubts \in SUBSET Doubt /\ (doubts = {} => form.why = {} /\ fetches = {})
    BY DEF SettingsTyped, RunForm, Doubt
  <2>2. putting' = [at |-> "sent", of |-> selected, form |-> form, seen |-> 0, why |-> doubts]
    BY <1>10 DEF SaveForm, NoSave, EMPTY_SETTINGS
  <2> HIDE DEF doubts
  <2>3. selected # "none" /\ putting.at = "none"
        /\ UNCHANGED <<settings, selected, form, fetches, saves, fetched, lostRequests, blind>>
    BY <1>10 DEF SaveForm, None
  <2>4. putting' \in Put
    BY <2>1, <2>2 DEF SettingsTyped, Put
  <2>5. SettingsTyped'
    BY <2>3, <2>4 DEF SettingsTyped
  <2>6. doubts = {} => form.of = selected /\ form.base = settings[selected]
    BY <2>1, <2>3 DEF SettingsFresh, FormSelected, FormFresh
  <2>7. PutFresh(putting', settings)
    BY <2>2, <2>3, <2>6 DEF PutFresh, SettingsTyped
  <2>8. FormFresh(form, putting', settings)
    BY <2>3 DEF SettingsFresh, FormFresh
  <2>9. SettingsFresh'
    BY <2>3, <2>7, <2>8 DEF SettingsFresh
  <2> QED
    BY <2>5, <2>9
<1>11. CASE WriteSettings
  <2>1. putting.at = "sent" /\ putting' = [putting EXCEPT !.at = "written"]
        /\ saves < MaxSaves /\ saves' = saves + 1
        /\ settings' = [settings EXCEPT ![putting.of] = saves'] /\ Outdated(putting.of, "overtaken")
        /\ UNCHANGED <<selected, form, fetched, lostRequests>>
    BY <1>11 DEF WriteSettings
  <2>2. blind' = (blind \/ (/\ putting.why = {}
                            /\ (putting.form.of # putting.of \/ putting.form.base # settings[putting.of])))
    BY <1>11 DEF WriteSettings
  <2>3. putting.of \in Project /\ "overtaken" \in Doubt /\ PutFresh(putting, settings)
    BY <2>1 DEF SettingsFresh, PutFresh, Doubt
  <2>4. /\ saves' \in 0..MaxSaves /\ settings' \in [Project -> 0..MaxSaves]
        /\ settings'[putting.of] = saves'
        /\ \A q \in Project : q # putting.of => settings'[q] = settings[q]
        /\ fetches' \subseteq Asked /\ (fetches = {} <=> fetches' = {})
        /\ \A g \in fetches' : FetchFresh(g, settings')
    BY <2>1, <2>3, OutdatedFresh
  <2>5. putting' \in Put /\ putting'.at = "written" /\ putting'.of = putting.of
    BY <2>1 DEF SettingsTyped, Put
  <2>12. blind' \in BOOLEAN
    BY <2>2
  <2>6. SettingsTyped'
    BY <2>1, <2>4, <2>5, <2>12 DEF SettingsTyped
  <2>7. ~blind'
    BY <2>1, <2>2, <2>3 DEF SettingsFresh, PutFresh
  <2>8. PutFresh(putting', settings')
    BY <2>3, <2>5 DEF PutFresh
  <2>9. FormFresh(form, putting', settings')
    BY <2>1, <2>4, <2>5 DEF SettingsFresh, FormFresh, SettingsTyped, RunForm
  <2>10. FormSelected(form, selected, fetches')
    BY <2>4 DEF SettingsFresh, FormSelected
  <2>11. SettingsFresh'
    BY <2>1, <2>4, <2>7, <2>8, <2>9, <2>10 DEF SettingsFresh
  <2> QED
    BY <2>6, <2>11
<1>12. CASE ReadSettingsBack
  <2>1. putting.at = "written"
        /\ putting' = [putting EXCEPT !.at = "read", !.seen = settings[putting.of], !.why = {}]
        /\ UNCHANGED <<settings, selected, form, fetches, saves, fetched, lostRequests, blind>>
    BY <1>12 DEF ReadSettingsBack
  <2>2. putting.of \in Project
    BY <2>1 DEF SettingsFresh, PutFresh
  <2>3. settings[putting.of] \in 0..MaxSaves
    BY <2>2 DEF SettingsTyped
  <2>4. putting' \in Put /\ putting'.at = "read" /\ putting'.of = putting.of
        /\ putting'.seen = settings[putting.of]
    BY <2>1, <2>3 DEF SettingsTyped, Put
  <2>5. SettingsTyped'
    BY <2>1, <2>4 DEF SettingsTyped
  <2>6. PutFresh(putting', settings) /\ FormFresh(form, putting', settings)
    BY <2>1, <2>2, <2>4 DEF SettingsFresh, PutFresh, FormFresh
  <2>7. SettingsFresh'
    BY <2>1, <2>6 DEF SettingsFresh
  <2> QED
    BY <2>5, <2>7
<1>13. CASE SaveAnswered
  <2>1. putting.at = "read" /\ putting' = NoSave /\ Loaded(putting.of, putting.seen, putting.why)
        /\ UNCHANGED <<settings, selected, fetches, saves, fetched, lostRequests, blind>>
    BY <1>13 DEF SaveAnswered
  <2>2. putting.of \in Project /\ putting.seen \in 0..MaxSaves /\ putting.why \in SUBSET Doubt
        /\ (putting.why = {} => putting.seen = settings[putting.of])
    BY <2>1 DEF SettingsTyped, SettingsFresh, PutFresh, Put
  <2>3. /\ form' \in RunForm /\ form'.of = putting.of /\ form'.base = putting.seen
        /\ form'.why = {} => putting.why = {} /\ putting.of = selected
    BY <2>1, <2>2, LoadedFresh
  <2>4. NoSave \in Put /\ NoSave.at = "none"
    BY DEF NoSave, Put, EMPTY_SETTINGS, RunForm, None
  <2>5. SettingsTyped'
    BY <2>1, <2>3, <2>4 DEF SettingsTyped
  <2>6. PutFresh(NoSave, settings) /\ FormFresh(form', NoSave, settings)
        /\ FormSelected(form', selected, fetches)
    BY <2>2, <2>3, <2>4 DEF PutFresh, FormFresh, FormSelected
  <2>7. SettingsFresh'
    BY <2>1, <2>6 DEF SettingsFresh
  <2> QED
    BY <2>5, <2>7
<1>14. CASE SaveFormFails
  <2>1. putting.at # "none" /\ putting' = NoSave /\ lostRequests' \in 0..MaxLostRequests
        /\ form' = [form EXCEPT !.why = @ \cup IF putting.at = "sent" THEN {} ELSE {"failed"}]
        /\ UNCHANGED <<settings, selected, fetches, saves, fetched, blind>>
    BY <1>2, <1>14 DEF SaveFormFails
  <2>2. form' \in RunForm /\ form'.of = form.of /\ form'.base = form.base
        /\ (form'.why = {} => form.why = {} /\ putting.at = "sent")
    <3>1. CASE putting.at = "sent"
      BY <2>1, <3>1 DEF SettingsTyped, RunForm
    <3>2. CASE putting.at # "sent"
      <4>1. "failed" \in Doubt /\ form' = [form EXCEPT !.why = @ \cup {"failed"}]
        BY <2>1, <3>2 DEF Doubt
      <4>2. form' \in RunForm /\ form'.of = form.of /\ form'.base = form.base /\ "failed" \in form'.why
        BY <4>1 DEF SettingsTyped, RunForm
      <4> QED
        BY <4>2
    <3> QED
      BY <3>1, <3>2
  <2>4. NoSave \in Put /\ NoSave.at = "none"
    BY DEF NoSave, Put, EMPTY_SETTINGS, RunForm, None
  <2>5. SettingsTyped'
    BY <2>1, <2>2, <2>4 DEF SettingsTyped
  <2>6. PutFresh(NoSave, settings) /\ FormFresh(form', NoSave, settings)
        /\ FormSelected(form', selected, fetches)
    BY <2>1, <2>2, <2>4 DEF SettingsFresh, PutFresh, FormFresh, FormSelected
  <2>7. SettingsFresh'
    BY <2>1, <2>6 DEF SettingsFresh
  <2> QED
    BY <2>5, <2>7
<1>15. ASSUME NEW p \in Project, SaveElsewhere(p) PROVE SettingsTyped' /\ SettingsFresh'
  <2>1. saves < MaxSaves /\ saves' = saves + 1
        /\ settings' = [settings EXCEPT ![p] = saves'] /\ Outdated(p, "elsewhere")
        /\ form' = (IF form.of = p THEN [form EXCEPT !.why = @ \cup {"elsewhere"}] ELSE form)
        /\ putting' = (IF putting.of = p THEN [putting EXCEPT !.why = @ \cup {"elsewhere"}] ELSE putting)
        /\ UNCHANGED <<selected, fetched, lostRequests, blind>>
    BY <1>15 DEF SaveElsewhere
  <2>2. "elsewhere" \in Doubt
    BY DEF Doubt
  <2>3. /\ saves' \in 0..MaxSaves /\ settings' \in [Project -> 0..MaxSaves]
        /\ \A q \in Project : q # p => settings'[q] = settings[q]
        /\ fetches' \subseteq Asked /\ (fetches = {} <=> fetches' = {})
        /\ \A g \in fetches' : FetchFresh(g, settings')
    BY <2>1, <2>2, OutdatedFresh
  <2>4. form' \in RunForm /\ form'.of = form.of /\ form'.base = form.base
        /\ (form'.why = {} => form.why = {} /\ form.of # p)
    <3>1. CASE form.of = p
      <4>1. form' \in RunForm /\ form'.of = form.of /\ form'.base = form.base /\ "elsewhere" \in form'.why
        BY <2>1, <2>2, <3>1 DEF SettingsTyped, RunForm
      <4> QED
        BY <4>1
    <3>2. CASE form.of # p
      BY <2>1, <3>2 DEF SettingsTyped
    <3> QED
      BY <3>1, <3>2
  <2>5. putting' \in Put /\ putting'.of = putting.of /\ putting'.at = putting.at
        /\ putting'.form = putting.form /\ putting'.seen = putting.seen
        /\ (putting'.why = {} => putting.why = {} /\ putting.of # p)
    <3>1. CASE putting.of = p
      <4>1. putting' \in Put /\ putting'.of = putting.of /\ putting'.at = putting.at
            /\ putting'.form = putting.form /\ putting'.seen = putting.seen /\ "elsewhere" \in putting'.why
        BY <2>1, <2>2, <3>1 DEF SettingsTyped, Put
      <4> QED
        BY <4>1
    <3>2. CASE putting.of # p
      BY <2>1, <3>2 DEF SettingsTyped
    <3> QED
      BY <3>1, <3>2
  <2>6. SettingsTyped'
    BY <2>1, <2>3, <2>4, <2>5 DEF SettingsTyped
  <2>7. PutFresh(putting', settings')
    BY <2>3, <2>5 DEF SettingsFresh, PutFresh
  <2>8. FormFresh(form', putting', settings')
    <3>1. form.of \in Project \cup {"none"}
      BY DEF SettingsTyped, RunForm
    <3> QED
      BY <2>3, <2>4, <2>5, <3>1 DEF SettingsFresh, FormFresh
  <2>9. FormSelected(form', selected, fetches')
    BY <2>3, <2>4 DEF SettingsFresh, FormSelected
  <2>10. SettingsFresh'
    BY <2>1, <2>3, <2>7, <2>8, <2>9 DEF SettingsFresh
  <2> QED
    BY <2>6, <2>10
<1>16. ASSUME NEW p \in Project, StartCreate(p) PROVE SettingsTyped' /\ SettingsFresh'
  BY <1>1, <1>2, <1>16 DEF StartCreate
<1>17. ASSUME NEW a \in adding, InsertProject(a) PROVE SettingsTyped' /\ SettingsFresh'
  BY <1>1, <1>2, <1>17 DEF InsertProject
<1>18. ASSUME NEW a \in adding, ProjectLimitReached(a) PROVE SettingsTyped' /\ SettingsFresh'
  BY <1>1, <1>2, <1>18 DEF ProjectLimitReached
<1>19. ASSUME NEW a \in adding, ProjectCreated(a) PROVE SettingsTyped' /\ SettingsFresh'
  <2>1. a.of \in Project
    OBVIOUS
  <2> QED
    BY <1>19, <2>1, SelectingProject DEF ProjectCreated
<1>20. ASSUME NEW a \in adding, CreateFails(a) PROVE SettingsTyped' /\ SettingsFresh'
  BY <1>1, <1>2, <1>20 DEF CreateFails
<1> QED
  BY <1>3, <1>4, <1>5, <1>6, <1>7, <1>8, <1>9, <1>10, <1>11, <1>12, <1>13, <1>14, <1>15, <1>16, <1>17,
     <1>18, <1>19, <1>20 DEF ProjectSettingsNext

LEMMA ProjectsStep == ASSUME ProjectsDistinct, ProjectSettingsNext PROVE ProjectsDistinct'
<1> DEFINE Added == [at : {"sent", "written"}, of : Project]
<1>1. ASSUME UNCHANGED <<projects, listAt, offered, adding>> PROVE ProjectsDistinct'
  BY <1>1 DEF ProjectsDistinct
<1>2. CASE ProjectsArrive
  <2>1. Range(projects) \subseteq Project
    <3>1. \A k \in DOMAIN projects : projects[k] \in Project
      BY DEF ProjectsDistinct
    <3> QED
      BY <3>1 DEF Range
  <2>2. listAt' = "shown" /\ offered' = Range(projects) /\ UNCHANGED <<projects, adding>>
    BY <1>2 DEF ProjectsArrive
  <2> QED
    BY <2>1, <2>2 DEF ProjectsDistinct
<1>3. CASE ProjectsFail
  BY <1>3 DEF ProjectsFail, ProjectsDistinct
<1>4. ASSUME NEW p \in Project, StartCreate(p) PROVE ProjectsDistinct'
  <2> DEFINE new == [at |-> "sent", of |-> p]
  <2>1. ~Contains(projects, p) /\ (~\E a \in adding : a.of = p) /\ adding' = adding \cup {new}
        /\ UNCHANGED <<projects, listAt, offered>>
    BY <1>4 DEF StartCreate
  <2>2. new \in Added /\ new.of = p /\ new.at = "sent"
    OBVIOUS
  <2> HIDE DEF new
  <2> QED
    BY <2>1, <2>2 DEF ProjectsDistinct
<1>5. ASSUME NEW a \in adding, InsertProject(a) PROVE ProjectsDistinct'
  <2> DEFINE done == [a EXCEPT !.at = "written"]
  <2>1. a.at = "sent" /\ projects' = Append(projects, a.of) /\ adding' = (adding \ {a}) \cup {done}
        /\ UNCHANGED <<listAt, offered>>
    BY <1>5 DEF InsertProject
  <2>2. a \in Added /\ a.of \in Project /\ ~Contains(projects, a.of)
    BY <2>1 DEF ProjectsDistinct
  <2>3. done \in Added /\ done.of = a.of /\ done.at = "written"
    BY <2>2
  <2> HIDE DEF done
  <2>4. projects \in Seq(Project) /\ Len(projects) \in Nat
    BY LenProperties DEF ProjectsDistinct
  <2>5. projects' \in Seq(Project) /\ Len(projects') = Len(projects) + 1
        /\ (\A k \in 1..Len(projects) : projects'[k] = projects[k])
        /\ projects'[Len(projects) + 1] = a.of
    BY <2>1, <2>2, <2>4, AppendProperties
  <2>6. \A k \in 1..Len(projects) : projects[k] # a.of
    BY <2>2 DEF Contains
  <2>7. ASSUME NEW i \in 1..(Len(projects) + 1), NEW k \in 1..(Len(projects) + 1),
               projects'[i] = projects'[k]
        PROVE  i = k
    <3>1. \A m \in 1..(Len(projects) + 1) : m \in 1..Len(projects) \/ m = Len(projects) + 1
      BY <2>4
    <3>2. CASE i \in 1..Len(projects) /\ k \in 1..Len(projects)
      <4>1. DOMAIN projects = 1..Len(projects)
        BY <2>4, LenProperties
      <4> QED
        BY <2>5, <2>7, <3>2, <4>1 DEF ProjectsDistinct, IsInjective
    <3> QED
      BY <2>5, <2>6, <2>7, <3>1, <3>2
  <2>8. IsInjective(projects')
    <3>1. DOMAIN projects' = 1..(Len(projects) + 1)
      BY <2>5, LenProperties
    <3> QED
      BY <2>7, <3>1 DEF IsInjective
  <2>9. ASSUME NEW b \in adding', b.at = "sent" PROVE ~Contains(projects', b.of)
    <3>1. b \in adding /\ b # a
      BY <2>1, <2>3, <2>9
    <3>2. b.of # a.of /\ ~Contains(projects, b.of)
      BY <2>9, <3>1 DEF ProjectsDistinct
    <3>3. ASSUME NEW k \in 1..(Len(projects) + 1) PROVE projects'[k] # b.of
      <4>1. k \in 1..Len(projects) \/ k = Len(projects) + 1
        BY <2>4
      <4> QED
        BY <2>5, <3>2, <4>1 DEF Contains
    <3> QED
      BY <2>5, <3>3 DEF Contains
  <2>10. adding' \subseteq Added /\ \A b, c \in adding' : b.of = c.of => b = c
    BY <2>1, <2>3 DEF ProjectsDistinct
  <2> QED
    BY <2>1, <2>5, <2>8, <2>9, <2>10 DEF ProjectsDistinct
<1>6. ASSUME NEW a \in adding, ProjectLimitReached(a) PROVE ProjectsDistinct'
  BY <1>6 DEF ProjectLimitReached, ProjectsDistinct
<1>7. ASSUME NEW a \in adding, ProjectCreated(a) PROVE ProjectsDistinct'
  BY <1>7 DEF ProjectCreated, ProjectsDistinct
<1>8. ASSUME NEW a \in adding, CreateFails(a) PROVE ProjectsDistinct'
  BY <1>8 DEF CreateFails, ProjectsDistinct
<1>9. ASSUME NEW p \in Project, ChooseProject(p) \/ SaveElsewhere(p) PROVE ProjectsDistinct'
  BY <1>1, <1>9 DEF ChooseProject, SaveElsewhere
<1>10. ASSUME NEW f \in fetches, ServeSettings(f) \/ SettingsArrive(f) \/ SettingsFail(f)
       PROVE  ProjectsDistinct'
  BY <1>1, <1>10 DEF ServeSettings, SettingsArrive, SettingsFail
<1>11. CASE EditForm \/ SaveForm \/ WriteSettings \/ ReadSettingsBack \/ SaveAnswered \/ SaveFormFails
  BY <1>1, <1>11 DEF EditForm, SaveForm, WriteSettings, ReadSettingsBack, SaveAnswered, SaveFormFails
<1> QED
  BY <1>2, <1>3, <1>4, <1>5, <1>6, <1>7, <1>8, <1>9, <1>10, <1>11 DEF ProjectSettingsNext

LEMMA RunSettingsStep ==
    RunSettingsInv /\ [ProjectSettingsNext]_projectSettingsVars => RunSettingsInv'
<1>1. ASSUME RunSettingsInv, ProjectSettingsNext PROVE RunSettingsInv'
  <2>1. SettingsTyped' /\ SettingsFresh'
    BY <1>1, SettingsStep DEF RunSettingsInv, ProjectsDistinct
  <2>2. ProjectsDistinct'
    BY <1>1, ProjectsStep DEF RunSettingsInv
  <2> QED
    BY <2>1, <2>2 DEF RunSettingsInv
<1>2. ASSUME RunSettingsInv, UNCHANGED projectSettingsVars PROVE RunSettingsInv'
  BY <1>2 DEF projectSettingsVars, RunSettingsInv, SettingsTyped, SettingsFresh, ProjectsDistinct
<1> QED
  BY <1>1, <1>2

LEMMA RunSettingsFit == RunSettingsInv => RunSettingsKept /\ ProjectSettingsTypeOK
<1> SUFFICES ASSUME RunSettingsInv PROVE RunSettingsKept /\ ProjectSettingsTypeOK
  OBVIOUS
<1>1. RunSettingsKept
  BY RunSettingsBounds DEF RunSettingsInv, SettingsTyped, SettingsFresh, FormSelected, FormFresh,
     RunSettingsKept, None
<1>2. ProjectSettingsTypeOK
  BY DEF RunSettingsInv, SettingsTyped, SettingsFresh, ProjectsDistinct, ProjectSettingsTypeOK, RunForm, Asked,
     Put, Form, Version, None
<1> QED
  BY <1>1, <1>2

\* RunSettingsKept in every state, for any projects: no save replaces a version the form was
\* not made from, and a form at rest is the selected project's (RunSettingsTab.tsx).
THEOREM RunSettingsAlwaysKept == ProjectSettingsSpec => [](RunSettingsKept /\ ProjectSettingsTypeOK)
<1>1. ProjectSettingsInit => RunSettingsInv
  BY RunSettingsStart
<1>2. RunSettingsInv /\ [ProjectSettingsNext]_projectSettingsVars => RunSettingsInv'
  BY RunSettingsStep
<1> QED
  BY <1>1, <1>2, RunSettingsFit, PTL DEF ProjectSettingsSpec

----------------------------------------------------------------------------
(**************************** The launch form *****************************)

LaunchShown == [open : BOOLEAN, env : Choice, url : Url, typed : BOOLEAN, disturbed : BOOLEAN]

\* Settings with a URL have been stored.
WithVersion(s) == s.urls # {} => s.version # 0

\* What the form m would submit while the defaults are data: LaunchFits of them.
FitsDefaults(m, data) ==
    m.open =>
        /\ m.typed <=> m.url = Typed
        /\ (~m.typed /\ ~m.disturbed /\ data.kind = "mapped" /\ data.from.urls # {}) =>
                m.env \in data.from.urls /\ m.url = <<data.from.version, m.env>>
        /\ (~m.typed /\ ~m.disturbed /\ data.kind = "bare") => m.url = DefaultUrl(data)

LaunchInv ==
    /\ LaunchTypeOK
    /\ WithVersion(kept) /\ WithVersion(query.from) /\ WithVersion(cache.from)
    /\ cache.kind = "none" => cache.from.version = 0
    /\ query.at # "none" => query.kind # "none"
    /\ route = "cycles" => ~launch.open
    /\ FitsDefaults(launch, cache)

LEMMA LaunchBounds ==
  /\ MaxVersions \in Nat /\ MaxQueries \in Nat /\ MaxLaunches \in Nat
  /\ Env \subseteq {"development", "staging", "production"}
BY LaunchFormAssumption

\* The first of some URLs is one of them.
LEMMA FirstIsOne == ASSUME NEW urls \in SUBSET Env, urls # {} PROVE First(urls) \in urls
BY LaunchBounds DEF First

LEMMA DefaultTyped ==
  ASSUME NEW data \in Cached, WithVersion(data.from)
  PROVE  DefaultUrl(data) \in Url /\ DefaultUrl(data) # Typed
<1>0. NoUrl # Typed
  BY DEF NoUrl, Typed
<1>1. CASE data.from.urls = {}
  BY <1>0, <1>1 DEF DefaultUrl, Url
<1>2. CASE data.from.urls # {}
  <2>1. /\ First(data.from.urls) \in Env /\ data.from.version \in 1..MaxVersions
    BY <1>2, FirstIsOne, LaunchBounds DEF Cached, Settings, WithVersion
  <2>2. DefaultUrl(data) = <<data.from.version, First(data.from.urls)>>
    BY <1>2 DEF DefaultUrl
  <2>3. First(data.from.urls) # "typed"
    BY <2>1, LaunchBounds
  <2> QED
    BY <2>1, <2>2, <2>3 DEF Url, Typed
<1> QED
  BY <1>1, <1>2

LEMMA MappedTyped ==
  ASSUME NEW m \in LaunchShown, NEW data \in Cached, WithVersion(data.from)
  PROVE  /\ Mapped(m, data) \in LaunchShown /\ Mapped(m, data).open = m.open
         /\ Mapped(m, data).env = m.env /\ Mapped(m, data).disturbed = m.disturbed
         /\ IF data.kind = "mapped" /\ m.env \in data.from.urls
            THEN /\ Mapped(m, data).url = <<data.from.version, m.env>> /\ Mapped(m, data).url # Typed
                 /\ ~Mapped(m, data).typed
            ELSE Mapped(m, data) = m
<1>1. CASE data.kind = "mapped" /\ m.env \in data.from.urls
  <2>1. m.env \in Env /\ m.env # "typed" /\ data.from.version \in 1..MaxVersions
    BY <1>1, LaunchBounds DEF Cached, Settings, WithVersion
  <2>2. <<data.from.version, m.env>> \in Url /\ <<data.from.version, m.env>> # Typed
    BY <2>1 DEF Url, Typed
  <2>3. Mapped(m, data) = [m EXCEPT !.url = <<data.from.version, m.env>>, !.typed = FALSE]
    BY <1>1 DEF Mapped
  <2> QED
    BY <1>1, <2>2, <2>3 DEF LaunchShown
<1>2. CASE ~(data.kind = "mapped" /\ m.env \in data.from.urls)
  BY <1>2 DEF Mapped
<1> QED
  BY <1>1, <1>2

\* A form filled from defaults fits them.
LEMMA InitialisedFits ==
  ASSUME NEW m \in LaunchShown, NEW data \in Cached, WithVersion(data.from)
  PROVE  /\ Initialised(m, data) \in LaunchShown /\ Initialised(m, data).open = m.open
         /\ Initialised(m, data).disturbed = m.disturbed
         /\ data.kind = "none" => Initialised(m, data) = m
         /\ data.kind # "none" => FitsDefaults(Initialised(m, data), data)
<1>1. CASE ~m.open \/ data.kind = "none"
  BY <1>1 DEF Initialised, FitsDefaults
<1>2. CASE m.open /\ data.kind # "none"
  <2> DEFINE env == IF data.kind # "mapped" \/ data.from.urls = {} THEN m.env
                    ELSE First(data.from.urls)
             n == Initialised(m, data)
  <2>1. n = [m EXCEPT !.env = env, !.url = DefaultUrl(data), !.typed = FALSE]
    BY <1>2 DEF Initialised, LaunchShown
  <2>2. env \in Choice
    <3>1. data.from.urls \subseteq Env
      BY DEF Cached, Settings
    <3> QED
      BY <3>1, FirstIsOne DEF LaunchShown, Choice
  <2>3. DefaultUrl(data) \in Url /\ DefaultUrl(data) # Typed
    BY DefaultTyped
  <2>4. (data.kind = "mapped" /\ data.from.urls # {}) =>
            env \in data.from.urls /\ DefaultUrl(data) = <<data.from.version, env>>
    BY FirstIsOne DEF DefaultUrl, Cached, Settings
  <2> HIDE DEF env
  <2>5. /\ n \in LaunchShown /\ n.open = m.open /\ n.disturbed = m.disturbed /\ n.env = env
        /\ n.url = DefaultUrl(data) /\ ~n.typed
    BY <2>1, <2>2, <2>3 DEF LaunchShown
  <2> HIDE DEF n
  <2>6. FitsDefaults(n, data)
    BY <2>3, <2>4, <2>5 DEF FitsDefaults
  <2> QED
    BY <1>2, <2>5, <2>6 DEF n
<1> QED
  BY <1>1, <1>2

LEMMA LaunchStart == LaunchInit => LaunchInv
<1> USE LaunchBounds
<1> SUFFICES ASSUME LaunchInit PROVE LaunchInv
  OBVIOUS
<1>1. Unset \in Settings /\ WithVersion(Unset) /\ Unset.version = 0
  BY DEF Unset, Settings, WithVersion
<1>2. NoData \in Cached /\ NoData.from = Unset /\ NoData.kind = "none"
  BY <1>1 DEF NoData, Cached
<1>3. NoQuery.at = "none" /\ NoQuery.kind = "none" /\ NoQuery.from = Unset
      /\ NoQuery \in [at : {"none", "asked", "read"}, kind : {"none", "mapped", "bare"}, from : Settings]
  BY <1>1 DEF NoQuery
<1>4. NewModal \in LaunchShown /\ ~NewModal.open
  BY DEF NewModal, LaunchShown, Choice, Url
<1>5. LaunchTypeOK
  <2>1. /\ kept = Unset /\ route = "cycles" /\ cache = NoData /\ fresh = FALSE /\ query = NoQuery
        /\ launch = NewModal /\ posts = {} /\ closing = FALSE
        /\ versions = 0 /\ queried = 0 /\ launches = 0
    BY DEF LaunchInit
  <2>2. fresh \in BOOLEAN /\ closing \in BOOLEAN
    BY <2>1
  <2> QED
    BY <1>1, <1>2, <1>3, <1>4, <2>1, <2>2 DEF LaunchTypeOK, LaunchShown
<1> QED
  BY <1>1, <1>2, <1>3, <1>4, <1>5 DEF LaunchInit, LaunchInv, FitsDefaults

\* New defaults are shown in the form only where it is, and fill it if it is open.
LEMMA ShowingFits ==
  ASSUME LaunchInv, NEW data \in Cached, WithVersion(data.from), Showing(data),
         data.kind = "none" => data.from.version = 0,
         UNCHANGED <<kept, route, posts, closing, versions, queried, launches>>,
         query' = NoQuery, fresh' = TRUE
  PROVE  LaunchInv'
<1>0. NoQuery.at = "none" /\ NoQuery.from = Unset /\ WithVersion(Unset)
      /\ NoQuery \in [at : {"none", "asked", "read"}, kind : {"none", "mapped", "bare"}, from : Settings]
  BY LaunchBounds DEF NoQuery, Unset, Settings, WithVersion
<1>1. launch \in LaunchShown /\ launch' \in LaunchShown /\ (route = "cycles" => ~launch'.open)
      /\ FitsDefaults(launch', data)
  <2>0. launch \in LaunchShown /\ cache' = data
    BY DEF LaunchInv, LaunchTypeOK, LaunchShown, Showing
  <2>1. CASE route = "cycles" \/ data = cache
    BY <2>0, <2>1 DEF Showing, LaunchInv, FitsDefaults
  <2>2. CASE route # "cycles" /\ data # cache
    <3> DEFINE m == Mapped(launch, data)
               n == Initialised(m, data)
    <3>1. launch' = [n EXCEPT !.disturbed = launch.disturbed \/ launch.typed]
      BY <2>2 DEF Showing
    <3>2. m \in LaunchShown /\ (data.kind = "none" => m = launch)
      BY <2>0, MappedTyped
    <3>3. /\ n \in LaunchShown /\ n.open = m.open /\ n.disturbed = m.disturbed
          /\ data.kind = "none" => n = m
          /\ data.kind # "none" => FitsDefaults(n, data)
      BY <3>2, InitialisedFits
    <3>4. n.disturbed = launch.disturbed
      BY <2>0, <3>3, MappedTyped
    <3> HIDE DEF m, n
    <3>5. /\ launch' \in LaunchShown /\ launch'.open = n.open /\ launch'.env = n.env
          /\ launch'.url = n.url /\ launch'.typed = n.typed
          /\ ~launch'.disturbed => ~n.disturbed
      BY <2>0, <3>1, <3>3, <3>4 DEF LaunchShown
    <3>6. ASSUME data.kind = "none" PROVE FitsDefaults(launch', data)
      BY <2>0, <3>2, <3>3, <3>5, <3>6 DEF FitsDefaults, LaunchInv
    <3>7. ASSUME data.kind # "none" PROVE FitsDefaults(launch', data)
      BY <3>3, <3>5, <3>7 DEF FitsDefaults
    <3> QED
      BY <2>0, <2>2, <3>5, <3>6, <3>7
  <2> QED
    BY <2>1, <2>2
<1>2. cache' = data
  BY DEF Showing
<1>3. LaunchTypeOK'
  BY <1>0, <1>1, <1>2 DEF LaunchInv, LaunchTypeOK, LaunchShown
<1> QED
  BY <1>0, <1>1, <1>2, <1>3 DEF LaunchInv

\* The form may change as long as it fits.
LEMMA FormFitting ==
  ASSUME LaunchInv, launch' \in LaunchShown, FitsDefaults(launch', cache),
         route' = "cycles" => ~launch'.open, route' \in {"dashboard", "cycles"},
         UNCHANGED <<kept, cache, fresh, query, versions, queried, launches>>,
         posts' \subseteq [n : 1..MaxLaunches, kind : {"run", "schedule"}, live : BOOLEAN],
         closing' \in BOOLEAN
  PROVE  LaunchInv'
<1>1. LaunchTypeOK'
  BY DEF LaunchInv, LaunchTypeOK, LaunchShown
<1> QED
  BY <1>1 DEF LaunchInv

LEMMA Closing ==
  ASSUME LaunchInv, launch' = [launch EXCEPT !.open = FALSE]
  PROVE  launch' \in LaunchShown /\ ~launch'.open /\ FitsDefaults(launch', cache)
<1>1. launch \in LaunchShown
  BY DEF LaunchInv, LaunchTypeOK, LaunchShown
<1> QED
  BY <1>1 DEF LaunchShown, FitsDefaults

LEMMA FetchingTyped ==
  ASSUME LaunchInv, NEW kind \in {"mapped", "bare"}, Fetching(kind)
  PROVE  /\ query' \in [at : {"none", "asked", "read"}, kind : {"none", "mapped", "bare"}, from : Settings]
         /\ queried' \in 0..MaxQueries /\ WithVersion(query'.from)
         /\ query'.at # "none" => query'.kind # "none"
<1>1. Unset \in Settings /\ WithVersion(Unset)
  BY LaunchBounds DEF Unset, Settings, WithVersion
<1>2. CASE UNCHANGED <<query, queried>>
  BY <1>2 DEF LaunchInv, LaunchTypeOK
<1>3. CASE /\ queried < MaxQueries /\ queried' = queried + 1
           /\ query' = [at |-> "asked", kind |-> kind, from |-> Unset]
  BY <1>1, <1>3, LaunchBounds DEF LaunchInv, LaunchTypeOK
<1> QED
  BY <1>2, <1>3 DEF Fetching

LEMMA LaunchStep == LaunchInv /\ [LaunchNext]_launchVars => LaunchInv'
<1> USE LaunchBounds
<1> SUFFICES ASSUME LaunchInv, [LaunchNext]_launchVars PROVE LaunchInv'
  OBVIOUS
<1>0. launch \in LaunchShown /\ cache \in Cached /\ WithVersion(cache.from)
      /\ posts \subseteq [n : 1..MaxLaunches, kind : {"run", "schedule"}, live : BOOLEAN]
  BY DEF LaunchInv, LaunchTypeOK, LaunchShown
<1>1. CASE StoreSettings
  <2>1. kept' \in Settings /\ WithVersion(kept') /\ versions' \in 0..MaxVersions
    BY <1>1 DEF StoreSettings, Settings, WithVersion, LaunchInv, LaunchTypeOK
  <2> QED
    BY <1>1, <2>1 DEF StoreSettings, LaunchInv, LaunchTypeOK
<1>2. CASE GoToDashboard
  <2>1. NewModal \in LaunchShown /\ ~NewModal.open
    BY DEF NewModal, LaunchShown, Choice, Url
  <2>2. launch' \in LaunchShown /\ ~launch'.open /\ FitsDefaults(launch', cache)
    BY <1>0, <1>2, <2>1, MappedTyped DEF GoToDashboard, FitsDefaults
  <2> QED
    BY <1>2, <2>2, FetchingTyped DEF GoToDashboard, LaunchInv, LaunchTypeOK, LaunchShown
<1>3. CASE LeaveDashboard
  <2>1. NewModal \in LaunchShown /\ ~NewModal.open
    BY DEF NewModal, LaunchShown, Choice, Url
  <2>2. posts' \subseteq [n : 1..MaxLaunches, kind : {"run", "schedule"}, live : BOOLEAN]
    BY <1>0, <1>3 DEF LeaveDashboard
  <2> QED
    BY <1>3, <2>1, <2>2, FormFitting DEF LeaveDashboard, FitsDefaults
<1>4. CASE OpenCycleBuilder \/ FocusWindow
  <2>1. \/ Fetching("bare") \/ Fetching("mapped")
    BY <1>4 DEF OpenCycleBuilder, FocusWindow
  <2>2. UNCHANGED <<kept, route, cache, fresh, launch, posts, closing, versions, launches>>
    BY <1>4 DEF OpenCycleBuilder, FocusWindow
  <2> QED
    BY <2>1, <2>2, FetchingTyped DEF LaunchInv, LaunchTypeOK
<1>5. CASE GrowStale
  BY <1>5 DEF GrowStale, LaunchInv, LaunchTypeOK
<1>6. CASE ServeDefaults
  <2>1. /\ query' \in [at : {"none", "asked", "read"}, kind : {"none", "mapped", "bare"}, from : Settings]
        /\ query'.from = kept /\ query'.kind = query.kind /\ query.at = "asked"
    BY <1>6 DEF ServeDefaults, LaunchInv, LaunchTypeOK
  <2> QED
    BY <1>6, <2>1 DEF ServeDefaults, LaunchInv, LaunchTypeOK
<1>7. CASE DefaultsArrive
  <2> DEFINE data == [kind |-> query.kind, from |-> query.from]
  <2>1. data \in Cached /\ WithVersion(data.from) /\ data.kind # "none"
    BY <1>7 DEF DefaultsArrive, LaunchInv, LaunchTypeOK, Cached
  <2> HIDE DEF data
  <2>2. Showing(data)
    BY <1>7 DEF DefaultsArrive, data
  <2> QED
    BY <1>7, <2>1, <2>2, ShowingFits DEF DefaultsArrive
<1>8. CASE DefaultsFail
  <2>1. NoData \in Cached /\ WithVersion(NoData.from) /\ NoData.from.version = 0
    BY DEF NoData, Cached, Unset, Settings, WithVersion
  <2> QED
    BY <1>8, <2>1, ShowingFits DEF DefaultsFail
<1>9. CASE OpenModal
  <2> DEFINE m == [launch EXCEPT !.open = TRUE, !.disturbed = FALSE]
  <2>1. m \in LaunchShown
    BY <1>0 DEF LaunchShown
  <2>2. cache.kind # "none"
    BY <1>9 DEF OpenModal, LaunchInv
  <2>3. launch' = Initialised(m, cache) /\ route = "dashboard"
    BY <1>9 DEF OpenModal
  <2> HIDE DEF m
  <2>4. launch' \in LaunchShown /\ FitsDefaults(launch', cache)
    BY <1>0, <2>1, <2>2, <2>3, InitialisedFits
  <2> QED
    BY <1>0, <1>9, <2>3, <2>4, FormFitting DEF OpenModal, LaunchInv, LaunchTypeOK
<1>10. CASE CloseModal
  BY <1>0, <1>10, Closing, FormFitting DEF CloseModal, LaunchInv, LaunchTypeOK
<1>11. CASE TypeUrl
  <2>1. launch' \in LaunchShown /\ launch'.typed /\ launch'.url = Typed /\ launch'.open = launch.open
    BY <1>0, <1>11 DEF TypeUrl, LaunchShown, Url
  <2>2. FitsDefaults(launch', cache)
    BY <2>1 DEF FitsDefaults
  <2> QED
    BY <1>0, <1>11, <2>1, <2>2, FormFitting DEF TypeUrl, LaunchInv, LaunchTypeOK
<1>12. CASE CloseLater
  BY <1>0, <1>12, Closing, FormFitting DEF CloseLater, LaunchInv, LaunchTypeOK
<1>13. ASSUME NEW e \in Choice, ChangeEnvironment(e) PROVE LaunchInv'
  <2> DEFINE m == [launch EXCEPT !.env = e]
  <2>1. m \in LaunchShown /\ m.env = e /\ m.url = launch.url /\ m.typed = launch.typed
        /\ m.open = launch.open /\ m.disturbed = launch.disturbed
    BY <1>0 DEF LaunchShown
  <2>2. launch' = Mapped(m, cache) /\ e \in Options
    BY <1>13 DEF ChangeEnvironment
  <2> HIDE DEF m
  <2>3. /\ launch' \in LaunchShown /\ launch'.open = launch.open /\ launch'.env = e
        /\ launch'.disturbed = launch.disturbed
        /\ IF cache.kind = "mapped" /\ e \in cache.from.urls
           THEN launch'.url = <<cache.from.version, e>> /\ launch'.url # Typed /\ ~launch'.typed
           ELSE launch'.url = launch.url /\ launch'.typed = launch.typed
    BY <1>0, <2>1, <2>2, MappedTyped
  <2>4. FitsDefaults(launch', cache)
    BY <2>2, <2>3 DEF Options, FitsDefaults, LaunchInv
  <2> QED
    BY <1>0, <1>13, <2>3, <2>4, FormFitting DEF ChangeEnvironment, LaunchInv, LaunchTypeOK
<1>14. ASSUME NEW kind \in {"run", "schedule"}, SubmitLaunch(kind) PROVE LaunchInv'
  <2>1. launches' \in 0..MaxLaunches
        /\ posts' \subseteq [n : 1..MaxLaunches, kind : {"run", "schedule"}, live : BOOLEAN]
    <3>1. launches \in 0..MaxLaunches /\ launches < MaxLaunches /\ launches' = launches + 1
          /\ posts' = posts \cup {[n |-> launches', kind |-> kind, live |-> TRUE]}
      BY <1>14 DEF SubmitLaunch, LaunchInv, LaunchTypeOK
    <3>2. launches' \in 1..MaxLaunches
      BY <3>1
    <3>3. [n |-> launches', kind |-> kind, live |-> TRUE]
            \in [n : 1..MaxLaunches, kind : {"run", "schedule"}, live : BOOLEAN]
      BY <3>2
    <3>4. launches' \in 0..MaxLaunches
      BY <3>1
    <3> QED
      BY <1>0, <3>1, <3>3, <3>4
  <2> QED
    BY <1>14, <2>1 DEF SubmitLaunch, LaunchInv, LaunchTypeOK
<1>15. ASSUME NEW r \in posts, LaunchAnswered(r) PROVE LaunchInv'
  <2>1. posts' \subseteq [n : 1..MaxLaunches, kind : {"run", "schedule"}, live : BOOLEAN]
        /\ UNCHANGED <<kept, route, cache, fresh, query, versions, queried, launches>>
    BY <1>0, <1>15 DEF LaunchAnswered
  <2>2. /\ launch' = [launch EXCEPT !.open = FALSE] \/ launch' = launch
        /\ closing' = TRUE \/ closing' = closing
    BY <1>15 DEF LaunchAnswered
  <2>3. launch' \in LaunchShown /\ FitsDefaults(launch', cache) /\ (launch'.open => launch.open)
    BY <1>0, <2>2, Closing DEF LaunchInv
  <2> QED
    BY <2>1, <2>2, <2>3, FormFitting DEF LaunchInv, LaunchTypeOK
<1>16. CASE UNCHANGED launchVars
  BY <1>16 DEF launchVars, LaunchInv, LaunchTypeOK
<1> QED
  BY <1>1, <1>2, <1>3, <1>4, <1>5, <1>6, <1>7, <1>8, <1>9, <1>10, <1>11, <1>12, <1>13, <1>14,
     <1>15, <1>16 DEF LaunchNext

LEMMA LaunchFit == LaunchInv => LaunchFits /\ LaunchTypeOK
BY DEF LaunchInv, FitsDefaults, LaunchFits

\* LaunchFits in every state, for any environments and any number of saves: the URL that would be
\* submitted is the one typed, or the one configured for the environment shown
\* (ExecutionModal.tsx).
THEOREM LaunchAlwaysFits == LaunchSpec => [](LaunchFits /\ LaunchTypeOK)
BY LaunchStart, LaunchStep, LaunchFit, PTL DEF LaunchSpec

----------------------------------------------------------------------------
(**************************** The test cycles *****************************)

CycleListing == [at : {"none", "asked", "read"}, seen : [Item -> Status], missed : BOOLEAN]
Building == [open : BOOLEAN, picked : SUBSET Item, at : {"none", "sent", "inserted", "refetching"},
             sent : SUBSET Item]
Playing == [open : BOOLEAN, of : Item, readOnly : BOOLEAN, steps : Marks]
Putting == [at : {"none", "sent", "written", "refetching"}, of : Item,
            verdict : Verdict \cup {"PENDING"}, steps : Marks]

\* A verdict is that of the steps, one of which is marked.
VerdictFits(verdict, steps) ==
    (\E s \in DOMAIN steps : steps[s] # "PENDING") /\ verdict = Derived(steps)

CycleTyped ==
    /\ cycle \in [Item -> StoredItem] /\ shownCycle \in [Item -> Status]
    /\ cyclesQuery \in CycleListing /\ builder \in Building /\ player \in Playing /\ completing \in Putting
    /\ players \in 0..MaxPlayers /\ refetches \in 0..MaxRefetches /\ cycleFailures \in 0..MaxFailures
    /\ cyclesBehind \in BOOLEAN

VerdictsFit ==
    /\ \A c \in Case : Terminal(cycle[c].status) => VerdictFits(cycle[c].status, cycle[c].steps)
    /\ completing.at = "sent" => VerdictFits(completing.verdict, completing.steps)

\* A list that was read, and missed nothing since, is what is stored.
ListingFresh(q, table) == q.at = "read" /\ ~q.missed => q.seen = table

\* The page shows what is stored, or a fetch or a request whose answer starts one is under way.
PageFresh(displayed, table, q, making, puts) ==
    displayed = table \/ q.at # "none" \/ making = "inserted" \/ puts = "written"

CycleInv ==
    /\ CycleTyped /\ VerdictsFit
    /\ ListingFresh(cyclesQuery, Shown(cycle))
    /\ ~cyclesBehind => PageFresh(shownCycle, Shown(cycle), cyclesQuery, builder.at, completing.at)

LEMMA CycleBounds ==
    /\ MaxPlayers \in Nat /\ MaxRefetches \in Nat /\ MaxFailures \in Nat /\ "automated" \notin Case
    /\ "PASSED" \in Verdict /\ Verdict \subseteq {"PASSED", "FAILED", "SKIPPED"} /\ "PENDING" \notin Verdict
    /\ "none" \notin Verdict
BY CyclePagesAssumption

LEMMA MarkedSteps == \A m \in Marks : \E S \in {StepsOf(c) : c \in Case} \cup {{}} : m \in [S -> StepStatus]
BY DEF Marks

LEMMA NoStepsMarks == NoSteps \in Marks /\ \A i \in Item : Unmarked(i) \in Marks
<1>1. NoSteps \in [{} -> StepStatus]
  BY DEF NoSteps
<1>2. ASSUME NEW i \in Item PROVE Unmarked(i) \in Marks
  <2>1. CASE i \in Case
    <3>1. Unmarked(i) \in [StepsOf(i) -> StepStatus]
      BY <2>1 DEF Unmarked, StepStatus
    <3> QED
      BY <2>1, <3>1 DEF Marks
  <2>2. CASE i \notin Case
    <3>1. Unmarked(i) \in [{} -> StepStatus]
      BY <2>2 DEF Unmarked, StepStatus
    <3> QED
      BY <3>1 DEF Marks
  <2> QED
    BY <2>1, <2>2
<1> QED
  BY <1>1, <1>2 DEF Marks

LEMMA MarkChanged ==
    ASSUME NEW m \in Marks, NEW s, NEW status \in Verdict
    PROVE  [m EXCEPT ![s] = status] \in Marks
<1>1. PICK S \in {StepsOf(c) : c \in Case} \cup {{}} : m \in [S -> StepStatus]
  BY MarkedSteps
<1>2. [m EXCEPT ![s] = status] \in [S -> StepStatus]
  BY <1>1 DEF StepStatus
<1> QED
  BY <1>1, <1>2 DEF Marks

\* The verdict of marked steps is one of the verdicts given.
LEMMA DerivedVerdict == \A m \in Marks : Derived(m) \in Verdict
<1> SUFFICES ASSUME NEW m \in Marks PROVE Derived(m) \in Verdict
  OBVIOUS
<1> DEFINE marks == {m[s] : s \in DOMAIN m}
<1>1. PICK S \in {StepsOf(c) : c \in Case} \cup {{}} : m \in [S -> StepStatus]
  BY MarkedSteps
<1>2. marks \subseteq StepStatus
  BY <1>1
<1>3. Derived(m) = IF "FAILED" \in marks THEN "FAILED" ELSE IF marks = {"SKIPPED"} THEN "SKIPPED" ELSE "PASSED"
  BY DEF Derived
<1> HIDE DEF marks
<1>4. CASE "FAILED" \in marks
  BY <1>2, <1>3, <1>4 DEF StepStatus
<1>5. CASE "FAILED" \notin marks /\ marks = {"SKIPPED"}
  BY <1>2, <1>3, <1>5 DEF StepStatus
<1>6. CASE "FAILED" \notin marks /\ marks # {"SKIPPED"}
  BY <1>3, <1>6, CycleBounds
<1> QED
  BY <1>4, <1>5, <1>6

LEMMA OtherVerdict == Other \in Verdict
BY CycleBounds DEF Other

LEMMA ShownRows == \A items \in [Item -> StoredItem] : Shown(items) \in [Item -> Status]
BY DEF Shown, StoredItem

LEMMA NoRowsTyped == NoRows \in [Item -> Status] /\ NoListing \in CycleListing /\ NoListing.at = "none"
BY DEF NoRows, NoListing, CycleListing, Status

LEMMA ClosedTyped ==
    ClosedBuilder \in Building /\ ClosedPlayer \in Playing /\ NoPut \in Putting
    /\ ClosedBuilder.at = "none" /\ NoPut.at = "none"
BY NoStepsMarks DEF ClosedBuilder, ClosedPlayer, NoPut, Building, Playing, Putting, Item

LEMMA CycleStart == CyclePagesInit => CycleInv
<1> SUFFICES ASSUME CyclePagesInit PROVE CycleInv
  OBVIOUS
<1>1. /\ cycle = NoItems /\ shownCycle = NoRows /\ cyclesQuery = NoListing
      /\ builder = ClosedBuilder /\ player = ClosedPlayer /\ completing = NoPut
      /\ players = 0 /\ refetches = 0 /\ cycleFailures = 0 /\ cyclesBehind = FALSE
  BY DEF CyclePagesInit
<1>2. 0 \in 0..MaxPlayers /\ 0 \in 0..MaxRefetches /\ 0 \in 0..MaxFailures
  BY CycleBounds
<1>3. NoItems \in [Item -> StoredItem]
  BY NoStepsMarks DEF NoItems, Absent, StoredItem, Status
<1>4. CycleTyped
  BY <1>1, <1>2, <1>3, NoRowsTyped, ClosedTyped DEF CycleTyped
<1>5. \A c \in Case : cycle[c].status = "none"
  BY <1>1 DEF NoItems, Absent, Item
<1>6. VerdictsFit
  BY <1>1, <1>5, CycleBounds, ClosedTyped DEF VerdictsFit, Terminal
<1>7. Shown(cycle) = NoRows
  BY <1>1 DEF Shown, NoItems, NoRows, Absent
<1> QED
  BY <1>1, <1>4, <1>6, <1>7, NoRowsTyped DEF CycleInv, ListingFresh, PageFresh

LEMMA RefetchStarted ==
    ASSUME CycleTyped, Refetching
    PROVE  cyclesQuery' \in CycleListing /\ cyclesQuery'.at = "asked" /\ refetches' \in 0..MaxRefetches
<1>1. refetches' \in 0..MaxRefetches
  BY CycleBounds DEF CycleTyped, Refetching
<1>2. cyclesQuery' \in CycleListing /\ cyclesQuery'.at = "asked"
  BY NoRowsTyped DEF Refetching, NoListing, CycleListing
<1> QED
  BY <1>1, <1>2

LEMMA CycleMissed ==
    ASSUME CycleTyped, MissingCycle
    PROVE  cyclesQuery' \in CycleListing /\ cyclesQuery'.at = cyclesQuery.at
           /\ (cyclesQuery.at = "read" => cyclesQuery'.missed)
<1>1. cyclesQuery \in CycleListing /\ (cyclesQuery.at = "read") \in BOOLEAN
  BY DEF CycleTyped
<1> QED
  BY <1>1 DEF MissingCycle, CycleListing

LEMMA CycleResumed ==
    ASSUME CycleTyped, Resumed, FetchedAgain
    PROVE  /\ builder' \in Building /\ player' \in Playing /\ completing' \in Putting
           /\ cyclesQuery' \in CycleListing /\ cyclesQuery'.at # "read"
           /\ (completing'.at = "sent" => completing' = completing)
           /\ (builder.at = "inserted" => builder' = builder)
           /\ (completing.at = "written" => completing' = completing)
<1>1. builder' \in Building /\ (builder.at = "inserted" => builder' = builder)
  BY ClosedTyped DEF CycleTyped, Resumed
<1>2. player' \in Playing
  BY ClosedTyped DEF CycleTyped, Resumed
<1>3. completing' \in Putting /\ (completing'.at = "sent" => completing' = completing)
      /\ (completing.at = "written" => completing' = completing)
  BY ClosedTyped DEF CycleTyped, Resumed
<1>4. cyclesQuery' \in CycleListing /\ cyclesQuery'.at # "read"
  BY NoRowsTyped DEF FetchedAgain, NoListing, CycleListing
<1> QED
  BY <1>1, <1>2, <1>3, <1>4

LEMMA CycleStep == CycleInv /\ [CyclePagesNext]_cyclePagesVars => CycleInv'
<1> SUFFICES ASSUME CycleInv, [CyclePagesNext]_cyclePagesVars PROVE CycleInv'
  OBVIOUS
<1> USE CycleBounds
<1>a. /\ CycleTyped /\ VerdictsFit
      /\ ListingFresh(cyclesQuery, Shown(cycle))
      /\ ~cyclesBehind => PageFresh(shownCycle, Shown(cycle), cyclesQuery, builder.at, completing.at)
  BY DEF CycleInv
<1>b. cycleFailures < MaxFailures /\ cycleFailures' = cycleFailures + 1 => cycleFailures' \in 0..MaxFailures
  BY <1>a DEF CycleTyped
\* The builder or the drawer changes.
<1>c. ASSUME UNCHANGED <<cycle, shownCycle, cyclesQuery, completing, refetches, cycleFailures, cyclesBehind>>,
             builder' \in Building, builder.at = "inserted" => builder'.at = "inserted",
             player' \in Playing, players' \in 0..MaxPlayers
      PROVE  CycleInv'
  <2>1. CycleTyped'
    BY <1>a, <1>c DEF CycleTyped
  <2>2. VerdictsFit'
    BY <1>a, <1>c DEF VerdictsFit
  <2> QED
    BY <1>a, <1>c, <2>1, <2>2 DEF CycleInv, PageFresh
<1>1. CASE RefetchCycles
  <2>1. Refetching /\ UNCHANGED <<cycle, shownCycle, builder, player, completing, players, cycleFailures,
                                  cyclesBehind>>
    BY <1>1 DEF RefetchCycles
  <2>2. cyclesQuery' \in CycleListing /\ cyclesQuery'.at = "asked" /\ refetches' \in 0..MaxRefetches
    BY <1>a, <2>1, RefetchStarted
  <2>3. CycleTyped' /\ VerdictsFit'
    BY <1>a, <2>1, <2>2 DEF CycleTyped, VerdictsFit
  <2> QED
    BY <2>2, <2>3 DEF CycleInv, ListingFresh, PageFresh
<1>2. CASE ServeCycles
  <2>1. cyclesQuery' = [at |-> "read", seen |-> Shown(cycle), missed |-> FALSE]
        /\ UNCHANGED <<cycle, shownCycle, builder, player, completing, players, refetches, cycleFailures,
                       cyclesBehind>>
    BY <1>2 DEF ServeCycles
  <2>2. Shown(cycle) \in [Item -> Status]
    BY <1>a, ShownRows DEF CycleTyped
  <2>3. cyclesQuery' \in CycleListing /\ cyclesQuery'.at = "read" /\ cyclesQuery'.seen = Shown(cycle)
    BY <2>1, <2>2 DEF CycleListing
  <2>4. CycleTyped' /\ VerdictsFit'
    BY <1>a, <2>1, <2>3 DEF CycleTyped, VerdictsFit
  <2> QED
    BY <2>1, <2>3, <2>4 DEF CycleInv, ListingFresh, PageFresh
<1>3. CASE CyclesArrive
  <2>1. cyclesQuery.at = "read" /\ FetchedAgain /\ Resumed
        /\ shownCycle' = cyclesQuery.seen /\ cyclesBehind' = cyclesQuery.missed
        /\ UNCHANGED <<cycle, players, refetches, cycleFailures>>
    BY <1>3 DEF CyclesArrive
  <2>2. /\ builder' \in Building /\ player' \in Playing /\ completing' \in Putting
        /\ cyclesQuery' \in CycleListing /\ cyclesQuery'.at # "read"
        /\ (completing'.at = "sent" => completing' = completing)
    BY <1>a, <2>1, CycleResumed
  <2>3. cyclesQuery.seen \in [Item -> Status] /\ cyclesQuery.missed \in BOOLEAN
    BY <1>a DEF CycleTyped, CycleListing
  <2>4. CycleTyped'
    BY <1>a, <2>1, <2>2, <2>3 DEF CycleTyped
  <2>5. VerdictsFit'
    BY <1>a, <2>1, <2>2 DEF VerdictsFit
  <2>6. ~cyclesBehind' => shownCycle' = Shown(cycle)
    BY <1>a, <2>1 DEF ListingFresh
  <2> QED
    BY <2>1, <2>2, <2>4, <2>5, <2>6 DEF CycleInv, ListingFresh, PageFresh
<1>4. CASE CyclesFail
  <2>1. FetchedAgain /\ Resumed /\ cyclesBehind' = TRUE /\ cycleFailures' \in 0..MaxFailures
        /\ UNCHANGED <<cycle, shownCycle, players, refetches>>
    BY <1>4, <1>b DEF CyclesFail
  <2>2. /\ builder' \in Building /\ player' \in Playing /\ completing' \in Putting
        /\ cyclesQuery' \in CycleListing /\ cyclesQuery'.at # "read"
        /\ (completing'.at = "sent" => completing' = completing)
    BY <1>a, <2>1, CycleResumed
  <2>3. CycleTyped'
    BY <1>a, <2>1, <2>2 DEF CycleTyped
  <2>4. VerdictsFit'
    BY <1>a, <2>1, <2>2 DEF VerdictsFit
  <2> QED
    BY <2>1, <2>2, <2>3, <2>4 DEF CycleInv, ListingFresh
<1>5. CASE OpenBuilder
  <2>1. builder' = [builder EXCEPT !.open = TRUE, !.picked = {}]
    BY <1>5 DEF OpenBuilder
  <2>2. builder' \in Building /\ builder'.at = builder.at
    BY <1>a, <2>1 DEF CycleTyped, Building
  <2> QED
    BY <1>a, <1>5, <1>c, <2>2 DEF OpenBuilder, CycleTyped
<1>6. CASE CloseBuilder
  <2>1. builder' = [builder EXCEPT !.open = FALSE, !.picked = {}]
    BY <1>6 DEF CloseBuilder
  <2>2. builder' \in Building /\ builder'.at = builder.at
    BY <1>a, <2>1 DEF CycleTyped, Building
  <2> QED
    BY <1>a, <1>6, <1>c, <2>2 DEF CloseBuilder, CycleTyped
<1>7. ASSUME NEW items \in SUBSET Item, Compose(items) PROVE CycleInv'
  <2> DEFINE boxed == IF items \subseteq builder.picked THEN builder.picked \ items ELSE builder.picked \cup items
  <2>1. builder' = [builder EXCEPT !.picked = boxed]
    BY <1>7 DEF Compose
  <2>2. boxed \in SUBSET Item
    BY <1>a DEF CycleTyped, Building
  <2> HIDE DEF boxed
  <2>3. builder' \in Building /\ builder'.at = builder.at
    BY <1>a, <2>1, <2>2 DEF CycleTyped, Building
  <2> QED
    BY <1>a, <1>7, <1>c, <2>3 DEF Compose, CycleTyped
<1>8. CASE LaunchCycle
  <2>1. PICK hasRunSettings \in BOOLEAN :
          builder' = [builder EXCEPT !.at = "sent", !.picked = {},
                                     !.sent = builder.picked \ IF hasRunSettings THEN {} ELSE {"automated"}]
    BY <1>8 DEF LaunchCycle
  <2> DEFINE posted == builder.picked \ IF hasRunSettings THEN {} ELSE {"automated"}
  <2>2. posted \in SUBSET Item
    BY <1>a DEF CycleTyped, Building
  <2>3. builder' = [builder EXCEPT !.at = "sent", !.picked = {}, !.sent = posted]
    BY <2>1
  <2> HIDE DEF posted
  <2>4. builder' \in Building
    BY <1>a, <2>2, <2>3 DEF CycleTyped, Building
  <2>5. builder.at = "none"
    BY <1>8 DEF LaunchCycle
  <2> QED
    BY <1>a, <1>8, <1>c, <2>4, <2>5 DEF LaunchCycle, CycleTyped
<1>9. CASE InsertCycle
  <2>1. builder.at = "sent" /\ builder' = [builder EXCEPT !.at = "inserted", !.sent = {}] /\ MissingCycle
        /\ UNCHANGED <<shownCycle, player, completing, players, refetches, cycleFailures, cyclesBehind>>
    BY <1>9 DEF InsertCycle
  <2>2. builder' \in Building /\ builder'.at = "inserted"
    BY <1>a, <2>1 DEF CycleTyped, Building
  <2>3. cyclesQuery' \in CycleListing /\ (cyclesQuery'.at = "read" => cyclesQuery'.missed)
    BY <1>a, <2>1, CycleMissed
  <2>4. cycle' = [i \in Item |-> IF i \notin builder.sent THEN Absent
                                 ELSE [status |-> IF i \in Case THEN "PENDING" ELSE "RUNNING", steps |-> Unmarked(i)]]
    BY <1>9 DEF InsertCycle
  <2>5. ASSUME NEW i \in Item
        PROVE  cycle'[i] \in StoredItem /\ cycle'[i].status \in {"none", "PENDING", "RUNNING"}
    <3>1. CASE i \notin builder.sent
      BY <2>4, <3>1, NoStepsMarks DEF Absent, StoredItem, Status
    <3>2. CASE i \in builder.sent
      <4>1. cycle'[i] = [status |-> IF i \in Case THEN "PENDING" ELSE "RUNNING", steps |-> Unmarked(i)]
        BY <2>4, <3>2
      <4> QED
        BY <4>1, NoStepsMarks DEF StoredItem, Status
    <3> QED
      BY <3>1, <3>2
  <2>6. cycle' \in [Item -> StoredItem]
    BY <2>4, <2>5
  <2>7. CycleTyped'
    BY <1>a, <2>1, <2>2, <2>3, <2>6 DEF CycleTyped
  <2>8. \A c \in Case : cycle'[c].status \notin Verdict
    BY <2>5 DEF Item
  <2>9. VerdictsFit'
    BY <1>a, <2>1, <2>8 DEF VerdictsFit, Terminal
  <2> QED
    BY <2>2, <2>3, <2>7, <2>9 DEF CycleInv, ListingFresh, PageFresh
<1>10. CASE CycleCreated
  <2>1. builder' = [builder EXCEPT !.at = "refetching"] /\ Refetching
        /\ UNCHANGED <<cycle, shownCycle, player, completing, players, cycleFailures, cyclesBehind>>
    BY <1>10 DEF CycleCreated
  <2>2. cyclesQuery' \in CycleListing /\ cyclesQuery'.at = "asked" /\ refetches' \in 0..MaxRefetches
    BY <1>a, <2>1, RefetchStarted
  <2>3. builder' \in Building
    BY <1>a, <2>1 DEF CycleTyped, Building
  <2>4. CycleTyped' /\ VerdictsFit'
    BY <1>a, <2>1, <2>2, <2>3 DEF CycleTyped, VerdictsFit
  <2> QED
    BY <2>2, <2>4 DEF CycleInv, ListingFresh, PageFresh
<1>11. CASE LaunchFails
  <2>1. builder' = [builder EXCEPT !.at = "none", !.sent = {}] /\ cycleFailures' \in 0..MaxFailures
        /\ cyclesBehind' = (cyclesBehind \/ builder.at = "inserted")
        /\ UNCHANGED <<cycle, shownCycle, cyclesQuery, player, completing, players, refetches>>
    BY <1>11, <1>b DEF LaunchFails
  <2>2. builder' \in Building /\ cyclesBehind' \in BOOLEAN
    BY <1>a, <2>1 DEF CycleTyped, Building
  <2>3. CycleTyped' /\ VerdictsFit'
    BY <1>a, <2>1, <2>2 DEF CycleTyped, VerdictsFit
  <2> QED
    BY <1>a, <2>1, <2>3 DEF CycleInv, PageFresh
<1>12. ASSUME NEW c \in Case, OpenPlayer(c) PROVE CycleInv'
  <2>1. players' \in 0..MaxPlayers
    BY <1>a, <1>12 DEF OpenPlayer, CycleTyped
  <2>2. player' \in Playing
    <3>1. Terminal(shownCycle[c]) \in BOOLEAN /\ c \in Item
      BY DEF Terminal, Item
    <3>2. player' = [open |-> TRUE, of |-> c, readOnly |-> Terminal(shownCycle[c]), steps |-> Unmarked(c)]
      BY <1>12 DEF OpenPlayer
    <3> QED
      BY <3>1, <3>2, NoStepsMarks DEF Playing
  <2> QED
    BY <1>a, <1>12, <1>c, <2>1, <2>2 DEF OpenPlayer, CycleTyped
<1>13. CASE ClosePlayer
  BY <1>a, <1>13, <1>c, ClosedTyped DEF ClosePlayer, CycleTyped
<1>14. ASSUME NEW s \in Step, NEW status \in Verdict, MarkStep(s, status) PROVE CycleInv'
  <2>1. player' = [player EXCEPT !.steps = [player.steps EXCEPT ![s] = status]]
    BY <1>14 DEF MarkStep
  <2>2. player.steps \in Marks
    BY <1>a DEF CycleTyped, Playing
  <2>3. [player.steps EXCEPT ![s] = status] \in Marks
    BY <2>2, MarkChanged
  <2>4. player' \in Playing
    BY <1>a, <2>1, <2>3 DEF CycleTyped, Playing
  <2> QED
    BY <1>a, <1>14, <1>c, <2>4 DEF MarkStep, CycleTyped
<1>15. CASE CompleteItem
  <2>1. completing' = [at |-> "sent", of |-> player.of, verdict |-> Derived(player.steps), steps |-> player.steps]
        /\ (\E s \in DOMAIN player.steps : player.steps[s] # "PENDING") /\ completing.at = "none"
        /\ UNCHANGED <<cycle, shownCycle, cyclesQuery, builder, player, players, refetches, cycleFailures,
                       cyclesBehind>>
    BY <1>15 DEF CompleteItem
  <2>2. player.of \in Item /\ player.steps \in Marks
    BY <1>a DEF CycleTyped, Playing
  <2>3. Derived(player.steps) \in Verdict
    BY <2>2, DerivedVerdict
  <2>4. completing' \in Putting
    BY <2>1, <2>2, <2>3 DEF Putting
  <2>5. CycleTyped'
    BY <1>a, <2>1, <2>4 DEF CycleTyped
  <2>6. VerdictFits(completing'.verdict, completing'.steps)
    BY <2>1 DEF VerdictFits
  <2>7. VerdictsFit'
    BY <1>a, <2>1, <2>6 DEF VerdictsFit
  <2> QED
    BY <1>a, <2>1, <2>5, <2>7 DEF CycleInv, PageFresh
<1>16. CASE WriteItem
  <2> DEFINE i == completing.of
             held == [status |-> completing.verdict, steps |-> completing.steps]
  <2>1. completing.at = "sent" /\ completing' = [completing EXCEPT !.at = "written"]
        /\ cycle' = [cycle EXCEPT ![i] = held] /\ MissingCycle
        /\ UNCHANGED <<shownCycle, builder, player, players, refetches, cycleFailures, cyclesBehind>>
    BY <1>16 DEF WriteItem
  <2>2. completing' \in Putting /\ completing'.at = "written"
    BY <1>a, <2>1 DEF CycleTyped, Putting
  <2>3. cyclesQuery' \in CycleListing /\ (cyclesQuery'.at = "read" => cyclesQuery'.missed)
    BY <1>a, <2>1, CycleMissed
  <2>4. VerdictFits(completing.verdict, completing.steps)
    BY <1>a, <2>1 DEF VerdictsFit
  <2>5. completing.steps \in Marks /\ completing.verdict \in Verdict
    <3>1. completing.steps \in Marks
      BY <1>a DEF CycleTyped, Putting
    <3> QED
      BY <2>4, <3>1, DerivedVerdict DEF VerdictFits
  <2>6. held \in StoredItem /\ held.status = completing.verdict /\ held.steps = completing.steps
    BY <2>5 DEF StoredItem, Status
  <2> HIDE DEF held
  <2>7. cycle' \in [Item -> StoredItem]
    BY <1>a, <2>1, <2>6 DEF CycleTyped
  <2>8. CycleTyped'
    BY <1>a, <2>1, <2>2, <2>3, <2>7 DEF CycleTyped
  <2>9. VerdictsFit'
    <3>1. ASSUME NEW c \in Case, Terminal(cycle'[c].status)
          PROVE  VerdictFits(cycle'[c].status, cycle'[c].steps)
      <4>1. c \in Item
        BY DEF Item
      <4>2. CASE c = i
        <5>1. cycle'[c] = held
          BY <1>a, <2>1, <4>1, <4>2 DEF CycleTyped
        <5> QED
          BY <2>4, <2>6, <5>1
      <4>3. CASE c # i
        <5>1. cycle'[c] = cycle[c]
          BY <1>a, <2>1, <4>1, <4>3 DEF CycleTyped
        <5> QED
          BY <1>a, <3>1, <5>1 DEF VerdictsFit
      <4> QED
        BY <4>2, <4>3
    <3> QED
      BY <2>2, <3>1 DEF VerdictsFit
  <2> QED
    BY <2>2, <2>3, <2>8, <2>9 DEF CycleInv, ListingFresh, PageFresh
<1>17. CASE ItemCompleted
  <2>1. completing' = [completing EXCEPT !.at = "refetching"] /\ Refetching
        /\ UNCHANGED <<cycle, shownCycle, builder, player, players, cycleFailures, cyclesBehind>>
    BY <1>17 DEF ItemCompleted
  <2>2. cyclesQuery' \in CycleListing /\ cyclesQuery'.at = "asked" /\ refetches' \in 0..MaxRefetches
    BY <1>a, <2>1, RefetchStarted
  <2>3. completing' \in Putting /\ completing'.at = "refetching"
    BY <1>a, <2>1 DEF CycleTyped, Putting
  <2>4. CycleTyped' /\ VerdictsFit'
    BY <1>a, <2>1, <2>2, <2>3 DEF CycleTyped, VerdictsFit
  <2> QED
    BY <2>2, <2>4 DEF CycleInv, ListingFresh, PageFresh
<1>18. CASE CompleteFails
  <2>1. completing' = NoPut /\ cycleFailures' \in 0..MaxFailures
        /\ cyclesBehind' = (cyclesBehind \/ completing.at = "written")
        /\ UNCHANGED <<cycle, shownCycle, cyclesQuery, builder, player, players, refetches>>
    BY <1>18, <1>b DEF CompleteFails
  <2>2. cyclesBehind' \in BOOLEAN
    BY <2>1
  <2>3. CycleTyped' /\ VerdictsFit'
    BY <1>a, <2>1, <2>2, ClosedTyped DEF CycleTyped, VerdictsFit
  <2> QED
    BY <1>a, <2>1, <2>3 DEF CycleInv, PageFresh
<1>19. ASSUME NEW c \in Case, CompleteElsewhere(c) PROVE CycleInv'
  <2> DEFINE steps == [s \in StepsOf(c) |-> Other]
  <2>1. cycle' = [cycle EXCEPT ![c].status = Derived(steps), ![c].steps = steps] /\ StepsOf(c) # {}
        /\ MissingCycle /\ cyclesBehind' = TRUE
        /\ UNCHANGED <<shownCycle, builder, player, completing, players, refetches, cycleFailures>>
    BY <1>19 DEF CompleteElsewhere
  <2>2. steps \in Marks
    <3>1. steps \in [StepsOf(c) -> StepStatus]
      BY OtherVerdict DEF StepStatus
    <3> QED
      BY <3>1 DEF Marks
  <2>3. \E s \in DOMAIN steps : steps[s] # "PENDING"
    BY <2>1, OtherVerdict
  <2> HIDE DEF steps
  <2>4. Derived(steps) \in Verdict /\ VerdictFits(Derived(steps), steps)
    BY <2>2, <2>3, DerivedVerdict DEF VerdictFits
  <2>5. c \in Item /\ cycle \in [Item -> StoredItem]
    BY <1>a DEF Item, CycleTyped
  <2>6. cycle' \in [Item -> StoredItem] /\ cycle'[c].status = Derived(steps) /\ cycle'[c].steps = steps
        /\ \A i \in Item : i # c => cycle'[i] = cycle[i]
    BY <2>1, <2>2, <2>4, <2>5 DEF StoredItem, Status
  <2>7. cyclesQuery' \in CycleListing /\ (cyclesQuery'.at = "read" => cyclesQuery'.missed)
    BY <1>a, <2>1, CycleMissed
  <2>8. CycleTyped'
    BY <1>a, <2>1, <2>6, <2>7 DEF CycleTyped
  <2>9. VerdictsFit'
    <3>1. ASSUME NEW o \in Case, Terminal(cycle'[o].status)
          PROVE  VerdictFits(cycle'[o].status, cycle'[o].steps)
      <4>1. CASE o = c
        BY <2>4, <2>6, <4>1
      <4>2. CASE o # c
        <5>1. cycle'[o] = cycle[o]
          BY <2>6, <4>2 DEF Item
        <5> QED
          BY <1>a, <3>1, <5>1 DEF VerdictsFit
      <4> QED
        BY <4>1, <4>2
    <3> QED
      BY <1>a, <2>1, <3>1 DEF VerdictsFit
  <2> QED
    BY <2>1, <2>7, <2>8, <2>9 DEF CycleInv, ListingFresh
<1>20. CASE RunFinishes
  <2>1. cycle' = [cycle EXCEPT !["automated"].status = Other]
        /\ MissingCycle /\ cyclesBehind' = TRUE
        /\ UNCHANGED <<shownCycle, builder, player, completing, players, refetches, cycleFailures>>
    BY <1>20 DEF RunFinishes
  <2>2. "automated" \in Item /\ cycle \in [Item -> StoredItem]
    BY <1>a DEF Item, CycleTyped
  <2>3. cycle' \in [Item -> StoredItem] /\ \A i \in Item : i # "automated" => cycle'[i] = cycle[i]
    BY <2>1, <2>2, OtherVerdict DEF StoredItem, Status
  <2>4. cyclesQuery' \in CycleListing /\ (cyclesQuery'.at = "read" => cyclesQuery'.missed)
    BY <1>a, <2>1, CycleMissed
  <2>5. CycleTyped'
    BY <1>a, <2>1, <2>3, <2>4 DEF CycleTyped
  <2>6. \A c \in Case : cycle'[c] = cycle[c]
    BY <2>3 DEF Item
  <2>7. VerdictsFit'
    BY <1>a, <2>1, <2>6 DEF VerdictsFit
  <2> QED
    BY <2>1, <2>4, <2>5, <2>7 DEF CycleInv, ListingFresh
<1>21. CASE UNCHANGED cyclePagesVars
  <2>1. UNCHANGED <<cycle, shownCycle, cyclesQuery, builder, player, completing, players, refetches,
                    cycleFailures, cyclesBehind>>
    BY <1>21 DEF cyclePagesVars
  <2> QED
    BY <1>a, <1>c, <2>1 DEF CycleTyped
<1>22. \A items \in {{i} : i \in Item} \cup {Case} : items \in SUBSET Item
  BY DEF Item
<1> QED
  BY <1>1, <1>2, <1>3, <1>4, <1>5, <1>6, <1>7, <1>8, <1>9, <1>10, <1>11, <1>12, <1>13, <1>14, <1>15, <1>16,
     <1>17, <1>18, <1>19, <1>20, <1>21, <1>22 DEF CyclePagesNext

LEMMA CycleShown == CycleInv => CyclePageKept /\ CyclePagesTypeOK
<1> SUFFICES ASSUME CycleInv PROVE CyclePageKept /\ CyclePagesTypeOK
  OBVIOUS
<1>1. CyclePageKept
  BY DEF CycleInv, VerdictsFit, VerdictFits, PageFresh, CyclePageKept
<1>2. CyclePagesTypeOK
  BY DEF CycleInv, CycleTyped, CyclePagesTypeOK, CycleListing, Building, Playing, Putting
<1> QED
  BY <1>1, <1>2

\* CyclePageKept in every state, for any items and steps: a completed manual item has the
\* verdict of its marked steps, and a page at rest shows what is stored
\* (ManualExecutionDrawer.tsx, TestCycles.tsx).
THEOREM CyclePageAlwaysKept == CyclePagesSpec => [](CyclePageKept /\ CyclePagesTypeOK)
<1>1. CyclePagesInit => CycleInv
  BY CycleStart
<1>2. CycleInv /\ [CyclePagesNext]_cyclePagesVars => CycleInv'
  BY CycleStep
<1> QED
  BY <1>1, <1>2, CycleShown, PTL DEF CyclePagesSpec

----------------------------------------------------------------------------
(************************* The stability analysis *************************)

ListQuery == [suite : Suite, for : {"effect", "refresh"}, n : Nat, at : {"asked", "read"}, found : Seq(Report)]
Analysing == [at : {"asked", "allowed", "read", "done"}, n : 1..MaxAnalyses, suite : Suite,
              runs : 0..LastRuns, passed : 0..LastRuns, answer : Report \cup {NoReport}]

\* An analysis whose answer has still to be inserted counts as a report.
InProgress == IF analysis.at \in {"asked", "allowed", "read"} THEN 1 ELSE 0

StabilityTyped ==
    /\ suiteRuns \in [Suite -> Seq(BOOLEAN)] /\ suiteRunsBegun \in 0..MaxSuiteRuns
    /\ \A s \in Suite : Len(suiteRuns[s]) <= suiteRunsBegun
    /\ detective \in BOOLEAN
    /\ stabilityReports \in Seq(Report) /\ Len(stabilityReports) + InProgress <= analyzed
    /\ analysis = NoAnalysis \/ analysis \in Analysing
    /\ picked \in Suite \cup {"none"} /\ report \in Report \cup {NoReport} /\ historical \in BOOLEAN
    /\ earlier \in Seq(Report) /\ historyLoading \in BOOLEAN
    /\ lists \subseteq ListQuery
    /\ doubt \subseteq {"report", "list"} /\ unsaved \subseteq 1..MaxAnalyses
    /\ analyzed \in 0..MaxAnalyses /\ picks \in 0..MaxPicks
    /\ stabilityFaults \in 0..MaxStabilityFaults

\* A report counts runs of its group.
CountedIn(runs, r) == r.runs <= Len(runs[r.suite]) /\ r.passed <= r.runs
Kept(reports, dropped, r) == r \in ToSet(reports) \/ r.n \in dropped

\* An analysis has been answered with a report, which the page does not show yet.
Unshown == analysis.at = "done" /\ analysis.answer # NoReport

\* That report is stored, so the list of its group is to be fetched again.
Unlisted == Unshown /\ analysis.answer \in ToSet(stabilityReports)

ReportsSound ==
    /\ analysis.at = "read" => /\ analysis.runs \in 1..Len(suiteRuns[analysis.suite])
                               /\ analysis.passed <= analysis.runs
    /\ \A r \in ToSet(stabilityReports) : CountedIn(suiteRuns, r)
    /\ Unshown => /\ CountedIn(suiteRuns, analysis.answer) /\ analysis.answer.suite = analysis.suite
                  /\ Kept(stabilityReports, unsaved, analysis.answer)
    /\ report # NoReport => /\ CountedIn(suiteRuns, report)
                            /\ Kept(stabilityReports, unsaved, report)
    /\ ToSet(earlier) \subseteq ToSet(stabilityReports)
    /\ \A q \in lists : \A r \in ToSet(q.found) : r \in ToSet(stabilityReports) /\ r.suite = q.suite

ReportsOfGroup ==
    "report" \notin doubt => /\ report # NoReport => report.suite = picked
                             /\ analysis # NoAnalysis => analysis.suite = picked

ListOfGroup ==
    "list" \notin doubt =>
        /\ analysis # NoAnalysis => analysis.suite = picked
        /\ \A q \in lists : q.suite = picked
        /\ (~historyLoading /\ picked # "none") => \A r \in ToSet(earlier) : r.suite = picked
        /\ ~Unlisted =>
              /\ \A q \in lists : q.at = "read" => q.found = ListOf(picked)
              /\ (lists = {} /\ picked # "none") => earlier = ListOf(picked)

StabilityInv == StabilityTyped /\ ReportsSound /\ ReportsOfGroup /\ ListOfGroup

LEMMA StabilityBounds ==
  /\ MaxSuiteRuns \in Nat /\ MaxPicks \in Nat /\ MaxStabilityFaults \in Nat /\ MaxAnalyses \in Nat
  /\ LastRuns \in Nat \ {0}
BY StabilityAssumption

LEMMA ElementsTyped == ASSUME NEW S, NEW s \in Seq(S) PROVE ToSet(s) \subseteq S /\ s \in Seq(ToSet(s))
BY DEF ToSet

LEMMA ElementsAppended ==
  ASSUME NEW S, NEW s \in Seq(S), NEW e \in S PROVE ToSet(Append(s, e)) = ToSet(s) \cup {e}
<1>1. DOMAIN Append(s, e) = DOMAIN s \cup {Len(s) + 1} /\ DOMAIN s = 1..Len(s) /\ Len(s) \in Nat
  OBVIOUS
<1>2. Append(s, e)[Len(s) + 1] = e /\ \A i \in DOMAIN s : Append(s, e)[i] = s[i]
  OBVIOUS
<1> QED
  BY <1>1, <1>2 DEF ToSet

\* The list of a group has the reports of that group that are stored.
LEMMA ListsReports ==
  ASSUME stabilityReports \in Seq(Report), NEW s
  PROVE  ListOf(s) \in Seq(Report)
         /\ \A r \in ToSet(ListOf(s)) : r \in ToSet(stabilityReports) /\ r.suite = s
<1> DEFINE of == {r \in Report : r.suite = s}
           all == ToSet(stabilityReports)
           some == Sifted(stabilityReports, of)
<1>1. stabilityReports \in Seq(all) /\ all \subseteq Report
  BY ElementsTyped
<1>2. some \in Seq(all \cap of)
  BY <1>1, SiftedType
<1>3. ListOf(s) = [i \in 1..Len(some) |-> some[(Len(some) - i) + 1]]
  BY DEF ListOf, Reverse
<1>4. all \cap of \subseteq {r \in Report : r \in all /\ r.suite = s}
  BY <1>1
<1> HIDE DEF all, of, some
<1>5. ListOf(s) \in Seq(all \cap of)
  <2>1. Len(some) \in Nat /\ \A i \in 1..Len(some) : some[(Len(some) - i) + 1] \in all \cap of
    BY <1>2
  <2> QED
    BY <1>3, <2>1
<1>6. ToSet(ListOf(s)) \subseteq all \cap of /\ ListOf(s) \in Seq(Report)
  BY <1>1, <1>4, <1>5, ElementsTyped, SeqMonotonic
<1> QED
  BY <1>4, <1>6 DEF all

LEMMA StabilityStart == StabilityInit => StabilityInv
<1> SUFFICES ASSUME StabilityInit PROVE StabilityInv
  OBVIOUS
<1>1. /\ suiteRuns = [s \in Suite |-> <<>>] /\ detective = TRUE /\ stabilityReports = <<>>
      /\ analysis = NoAnalysis /\ picked = "none" /\ report = NoReport /\ historical = FALSE
      /\ earlier = <<>> /\ historyLoading = FALSE /\ lists = {} /\ doubt = {} /\ unsaved = {}
      /\ analyzed = 0 /\ picks = 0 /\ stabilityFaults = 0 /\ suiteRunsBegun = 0
  BY DEF StabilityInit
<1>2. analysis.at = "none"
  BY <1>1 DEF NoAnalysis
<1>3. detective \in BOOLEAN /\ historical \in BOOLEAN /\ historyLoading \in BOOLEAN
  BY <1>1
<1>4. analyzed \in 0..MaxAnalyses /\ picks \in 0..MaxPicks /\ stabilityFaults \in 0..MaxStabilityFaults
      /\ suiteRunsBegun \in 0..MaxSuiteRuns
  BY <1>1, StabilityBounds
<1>5. suiteRuns \in [Suite -> Seq(BOOLEAN)] /\ \A s \in Suite : Len(suiteRuns[s]) <= suiteRunsBegun
  BY <1>1
<1>6. stabilityReports \in Seq(Report) /\ Len(stabilityReports) + InProgress <= analyzed
      /\ earlier \in Seq(Report) /\ ToSet(stabilityReports) = {} /\ ToSet(earlier) = {}
  BY <1>1, <1>2 DEF InProgress, ToSet
<1>7. StabilityTyped
  BY <1>1, <1>3, <1>4, <1>5, <1>6 DEF StabilityTyped
<1> QED
  BY <1>1, <1>2, <1>6, <1>7 DEF StabilityInv, ReportsSound, ReportsOfGroup, ListOfGroup, Unlisted, Unshown

\* What the last runs of a group are counted to.
LEMMA Verdicted == \A p, n : FromPassRate(p, n) \in Verdicts
BY DEF FromPassRate, Verdicts

LEMMA LastRunsOf ==
  ASSUME NEW all \in Seq(BOOLEAN), NEW last,
         last = SubSeq(all, IF Len(all) > LastRuns THEN Len(all) - LastRuns + 1 ELSE 1, Len(all)),
         last # <<>>
  PROVE  /\ Len(last) \in 1..LastRuns /\ Len(last) <= Len(all)
         /\ Len(Sifted(last, {TRUE})) \in 0..LastRuns /\ Len(Sifted(last, {TRUE})) <= Len(last)
<1> USE StabilityBounds
<1> DEFINE from == IF Len(all) > LastRuns THEN Len(all) - LastRuns + 1 ELSE 1
<1>1. Len(all) \in Nat /\ from \in Nat /\ from >= 1 /\ (Len(all) - from) + 1 <= LastRuns
  BY LenProperties
<1>2. last = SubSeq(all, from, Len(all))
  OBVIOUS
<1> HIDE DEF from
<1>3. last \in Seq(BOOLEAN) /\ Len(last) = IF from <= Len(all) THEN (Len(all) - from) + 1 ELSE 0
  <2>1. \A i \in from..Len(all) : all[i] \in BOOLEAN
    BY <1>1
  <2>2. SubSeq(all, from, Len(all)) \in Seq(BOOLEAN)
        /\ Len(SubSeq(all, from, Len(all))) = IF from <= Len(all) THEN Len(all) - from + 1 ELSE 0
    BY <1>1, <2>1, SubSeqProperties
  <2> QED
    BY <1>1, <1>2, <2>2
<1>4. Len(last) # 0
  BY <1>3, EmptySeq
<1>5. Len(last) \in 1..LastRuns /\ Len(last) <= Len(all)
  BY <1>1, <1>3, <1>4
<1>6. Len(Sifted(last, {TRUE})) \in Nat /\ Len(Sifted(last, {TRUE})) <= Len(last)
  BY <1>3, SiftedLen
<1>7. Len(Sifted(last, {TRUE})) \in 0..LastRuns
  <2> DEFINE k == Len(Sifted(last, {TRUE}))
             m == Len(last)
  <2>1. k \in Nat /\ k <= m /\ m \in 1..LastRuns
    BY <1>5, <1>6
  <2> HIDE DEF k, m
  <2>2. k \in 0..LastRuns
    BY <2>1
  <2> QED
    BY <2>2 DEF k
<1> QED
  BY <1>5, <1>6, <1>7

LEMMA StabilityStep == StabilityInv /\ [StabilityNext]_stabilityVars => StabilityInv'
<1> SUFFICES ASSUME StabilityInv, [StabilityNext]_stabilityVars PROVE StabilityInv'
  OBVIOUS
<1> USE StabilityBounds
<1>0. /\ suiteRuns \in [Suite -> Seq(BOOLEAN)] /\ suiteRunsBegun \in 0..MaxSuiteRuns
      /\ \A s \in Suite : Len(suiteRuns[s]) <= suiteRunsBegun /\ Len(suiteRuns[s]) \in Nat
      /\ stabilityReports \in Seq(Report) /\ Len(stabilityReports) \in Nat
      /\ analysis = NoAnalysis \/ analysis \in Analysing
      /\ picked \in Suite \cup {"none"} /\ report \in Report \cup {NoReport}
      /\ earlier \in Seq(Report) /\ lists \subseteq ListQuery
      /\ analyzed \in 0..MaxAnalyses /\ picks \in 0..MaxPicks
      /\ stabilityFaults \in 0..MaxStabilityFaults
      /\ StabilityTyped
  BY DEF StabilityInv, StabilityTyped
<1>00. analysis.at \in {"none", "asked", "allowed", "read", "done"} /\ (analysis.at = "none" <=> analysis = NoAnalysis)
       /\ NoAnalysis.at = "none"
  BY <1>0 DEF NoAnalysis, Analysing
<1>f. Faulty => stabilityFaults' \in 0..MaxStabilityFaults
  BY <1>0 DEF Faulty
<1>1. ASSUME suiteRuns' \in [Suite -> Seq(BOOLEAN)], suiteRunsBegun' \in 0..MaxSuiteRuns,
             \A u \in Suite : /\ Len(suiteRuns[u]) <= Len(suiteRuns'[u]) /\ Len(suiteRuns'[u]) \in Nat
                              /\ Len(suiteRuns'[u]) <= suiteRunsBegun',
             UNCHANGED <<detective, stabilityReports, analysis, picked, report, historical, earlier,
                   historyLoading, lists, doubt, unsaved, analyzed, picks, stabilityFaults>>
      PROVE  StabilityInv'
  <2>1. UNCHANGED <<detective, stabilityReports, analysis, picked, report, historical, earlier,
                   historyLoading, lists, doubt, unsaved, analyzed, picks, stabilityFaults>>
    BY <1>1
  <2>3. \A u \in Suite : Len(suiteRuns[u]) <= Len(suiteRuns'[u]) /\ Len(suiteRuns'[u]) \in Nat
    BY <1>1
  <2>4. \A r \in Report : CountedIn(suiteRuns, r) => CountedIn(suiteRuns', r)
    <3>1. ASSUME NEW r \in Report, CountedIn(suiteRuns, r) PROVE CountedIn(suiteRuns', r)
      <4>1. r.suite \in Suite /\ r.runs \in Nat
        BY DEF Report
      <4>2. r.runs <= Len(suiteRuns[r.suite]) /\ r.passed <= r.runs
        BY <3>1 DEF CountedIn
      <4>3. Len(suiteRuns[r.suite]) <= Len(suiteRuns'[r.suite]) /\ Len(suiteRuns'[r.suite]) \in Nat
            /\ Len(suiteRuns[r.suite]) \in Nat
        BY <1>0, <2>3, <4>1
      <4>4. r.runs <= Len(suiteRuns'[r.suite])
        BY <4>1, <4>2, <4>3
      <4> QED
        BY <4>2, <4>4 DEF CountedIn
    <3> QED
      BY <3>1
  <2>5. StabilityTyped'
    BY <1>1 DEF StabilityInv, StabilityTyped, InProgress
  <2>6. \A r \in ToSet(stabilityReports) : r \in Report
    BY <1>0, ElementsTyped
  <2>7. Unshown => analysis.answer \in Report
    BY <1>0, <1>00 DEF Unshown, Analysing
  <2>9. analysis.at = "read" => analysis.runs \in 1..Len(suiteRuns'[analysis.suite])
                                /\ analysis.passed <= analysis.runs
    <3> SUFFICES ASSUME analysis.at = "read"
                 PROVE  analysis.runs \in 1..Len(suiteRuns'[analysis.suite]) /\ analysis.passed <= analysis.runs
      OBVIOUS
    <3>1. analysis.suite \in Suite
      BY <1>0, <1>00 DEF Analysing
    <3>2. analysis.runs \in 1..Len(suiteRuns[analysis.suite]) /\ analysis.passed <= analysis.runs
      BY DEF StabilityInv, ReportsSound
    <3> QED
      BY <1>0, <2>3, <3>1, <3>2
  <2>8. ReportsSound'
    BY <1>0, <2>1, <2>4, <2>6, <2>7, <2>9 DEF StabilityInv, ReportsSound, Unshown
  <2> QED
    BY <2>1, <2>5, <2>8 DEF StabilityInv, ReportsOfGroup, ListOfGroup, Unlisted, Unshown, ListOf
<1>1a. ASSUME NEW s \in Suite, SuiteRunStarts(s) PROVE StabilityInv'
  <2>1. /\ suiteRunsBegun < MaxSuiteRuns /\ suiteRunsBegun' = suiteRunsBegun + 1
        /\ suiteRuns' = [suiteRuns EXCEPT ![s] = Append(suiteRuns[s], FALSE)]
        /\ UNCHANGED <<detective, stabilityReports, analysis, picked, report, historical, earlier,
                   historyLoading, lists, doubt, unsaved, analyzed, picks, stabilityFaults>>
    BY <1>0, <1>1a DEF SuiteRunStarts
  <2>2. Append(suiteRuns[s], FALSE) \in Seq(BOOLEAN)
        /\ Len(Append(suiteRuns[s], FALSE)) = Len(suiteRuns[s]) + 1
    BY <1>0, AppendProperties
  <2>3. /\ suiteRuns' \in [Suite -> Seq(BOOLEAN)]
        /\ \A u \in Suite : Len(suiteRuns[u]) <= Len(suiteRuns'[u]) /\ Len(suiteRuns'[u]) \in Nat
                            /\ Len(suiteRuns'[u]) <= suiteRunsBegun'
    BY <1>0, <2>1, <2>2
  <2>4. suiteRunsBegun' \in 0..MaxSuiteRuns
    BY <1>0, <2>1
  <2> QED
    BY <1>1, <2>1, <2>3, <2>4
<1>1b. ASSUME NEW s \in Suite, NEW i \in DOMAIN suiteRuns[s], SuiteRunPasses(s, i) PROVE StabilityInv'
  <2> DEFINE more == [suiteRuns[s] EXCEPT ![i] = TRUE]
  <2>1. /\ suiteRuns' = [suiteRuns EXCEPT ![s] = more] /\ UNCHANGED suiteRunsBegun
        /\ UNCHANGED <<detective, stabilityReports, analysis, picked, report, historical, earlier,
                   historyLoading, lists, doubt, unsaved, analyzed, picks, stabilityFaults>>
    BY <1>1b DEF SuiteRunPasses
  <2>2. more \in Seq(BOOLEAN) /\ Len(more) = Len(suiteRuns[s])
    <3>1. suiteRuns[s] \in Seq(BOOLEAN)
      BY <1>0
    <3> QED
      BY <3>1
  <2> HIDE DEF more
  <2>3. /\ suiteRuns' \in [Suite -> Seq(BOOLEAN)]
        /\ \A u \in Suite : Len(suiteRuns[u]) <= Len(suiteRuns'[u]) /\ Len(suiteRuns'[u]) \in Nat
                            /\ Len(suiteRuns'[u]) <= suiteRunsBegun'
    BY <1>0, <2>1, <2>2
  <2>4. suiteRunsBegun' \in 0..MaxSuiteRuns
    BY <1>0, <2>1
  <2> QED
    BY <1>1, <2>1, <2>3, <2>4
<1>2. CASE DisableDetective
  <2>1. detective' \in BOOLEAN
    BY <1>2 DEF DisableDetective
  <2> QED
    BY <1>2, <2>1 DEF DisableDetective, StabilityInv, StabilityTyped, InProgress, ReportsSound,
       ReportsOfGroup, ListOfGroup, Unlisted, Unshown, ListOf
<1>3. ASSUME NEW s \in Suite \cup {"none"}, PickSuite(s) PROVE StabilityInv'
  <2> DEFINE rest == {q \in lists : q.for # "effect"}
             new == [suite |-> s, for |-> "effect", n |-> analyzed + picks + 1, at |-> "asked", found |-> <<>>]
  <2>1. /\ picks' \in 0..MaxPicks /\ picked' = s /\ report' = NoReport /\ historical' = FALSE
        /\ doubt' = IF analysis # NoAnalysis THEN {"report", "list"}
                    ELSE IF Requested("refresh") THEN {"list"} ELSE {}
        /\ UNCHANGED <<suiteRuns, suiteRunsBegun, detective, stabilityReports, analysis, unsaved,
                       analyzed, stabilityFaults>>
    BY <1>0, <1>3 DEF PickSuite
  <2>2. \/ s = "none" /\ lists' = rest /\ earlier' = <<>> /\ UNCHANGED historyLoading
        \/ s # "none" /\ lists' = rest \cup {new} /\ historyLoading' = TRUE /\ UNCHANGED earlier
    BY <1>3 DEF PickSuite, Listing
  <2>3. s # "none" => new \in ListQuery
    <3>1. analyzed + picks + 1 \in Nat /\ <<>> \in Seq(Report)
      BY <1>0
    <3> QED
      BY <3>1 DEF ListQuery
  <2>4. new.suite = s /\ new.at = "asked" /\ new.found = <<>> /\ ToSet(<<>>) = {}
    BY DEF ToSet
  <2> HIDE DEF new
  <2>5. lists' \subseteq ListQuery /\ \A q \in lists' : q \in lists \/ q = new
    BY <1>0, <2>2, <2>3
  <2>6. earlier' \in Seq(Report) /\ ToSet(earlier') \subseteq ToSet(earlier) /\ historyLoading' \in BOOLEAN
    <3>1. <<>> \in Seq(Report) /\ historyLoading \in BOOLEAN
      BY <1>0 DEF StabilityTyped
    <3>2. CASE earlier' = <<>> /\ UNCHANGED historyLoading
      BY <2>4, <3>1, <3>2
    <3>3. CASE historyLoading' = TRUE /\ UNCHANGED earlier
      <4>1. historyLoading' \in BOOLEAN
        BY <3>3
      <4> QED
        BY <1>0, <3>3, <4>1
    <3> QED
      BY <2>2, <3>2, <3>3
  <2>7. StabilityTyped'
    <3>1. historical' \in BOOLEAN /\ doubt' \subseteq {"report", "list"}
      BY <2>1
    <3> QED
      BY <1>0, <2>1, <2>5, <2>6, <3>1 DEF StabilityTyped, InProgress
  <2>8. ReportsSound'
    BY <2>1, <2>4, <2>5, <2>6 DEF StabilityInv, ReportsSound, Unshown
  <2>9. ReportsOfGroup'
    BY <2>1 DEF ReportsOfGroup
  <2>10. "list" \notin doubt' => analysis = NoAnalysis /\ rest = {}
    <3>1. ASSUME "list" \notin doubt' PROVE analysis = NoAnalysis /\ ~Requested("refresh")
      BY <2>1, <3>1
    <3>2. \A q \in lists : q.for \in {"effect", "refresh"}
      BY <1>0 DEF ListQuery
    <3> QED
      BY <3>1, <3>2 DEF Requested
  <2>11. ListOfGroup'
    BY <2>1, <2>2, <2>4, <2>10 DEF ListOfGroup
  <2> QED
    BY <2>7, <2>8, <2>9, <2>11 DEF StabilityInv
<1>4. CASE Analyze
  <2>1. /\ picked # "none" /\ analysis = NoAnalysis /\ analyzed < MaxAnalyses /\ analyzed' = analyzed + 1
        /\ analysis' = [at |-> "asked", n |-> analyzed', suite |-> picked, runs |-> 0, passed |-> 0,
                      answer |-> NoReport]
        /\ report' = NoReport /\ historical' = FALSE /\ doubt' = doubt \ {"report"}
        /\ UNCHANGED <<suiteRuns, suiteRunsBegun, detective, stabilityReports, picked, earlier,
                       historyLoading, lists, unsaved, picks, stabilityFaults>>
    BY <1>4 DEF Analyze
  <2>2. analyzed' \in 1..MaxAnalyses /\ analyzed' \in 0..MaxAnalyses
    BY <1>0, <2>1
  <2>3. analysis' \in Analysing /\ analysis'.at = "asked" /\ analysis'.suite = picked
    BY <1>0, <2>1, <2>2 DEF Analysing
  <2>4. Len(stabilityReports) + InProgress' <= analyzed'
    <3>1. Len(stabilityReports) <= analyzed
      BY <1>0, <1>00, <2>1 DEF StabilityTyped, InProgress
    <3> QED
      BY <1>0, <2>1, <2>3, <3>1 DEF InProgress
  <2>5. StabilityTyped'
    <3>1. historical' \in BOOLEAN /\ doubt' \subseteq {"report", "list"}
      BY <1>0, <2>1 DEF StabilityTyped
    <3> QED
      BY <1>0, <2>1, <2>2, <2>3, <2>4, <3>1 DEF StabilityTyped
  <2>6. ~Unshown' /\ ~Unshown /\ ~Unlisted' /\ ~Unlisted
    BY <1>00, <2>1, <2>3 DEF Unshown, Unlisted
  <2>7. "list" \notin doubt' => "list" \notin doubt
    BY <2>1
  <2>8. ReportsSound'
    BY <2>1, <2>6 DEF StabilityInv, ReportsSound
  <2>9. ReportsOfGroup'
    BY <2>1, <2>3 DEF ReportsOfGroup
  <2>10. ListOfGroup'
    BY <2>1, <2>3, <2>6, <2>7 DEF StabilityInv, ListOfGroup, ListOf
  <2> QED
    BY <2>5, <2>8, <2>9, <2>10 DEF StabilityInv
<1>5. ASSUME analysis.at \in {"asked", "allowed", "read"}, Answer(NoReport),
             stabilityFaults' \in 0..MaxStabilityFaults,
             UNCHANGED <<suiteRuns, suiteRunsBegun, detective, stabilityReports, picked, report,
                         historical, earlier, historyLoading, lists, doubt, unsaved, analyzed, picks>>
      PROVE  StabilityInv'
  <2>1. analysis \in Analysing /\ analysis' = [analysis EXCEPT !.at = "done", !.answer = NoReport]
    BY <1>0, <1>00, <1>5 DEF Answer
  <2>2. analysis' \in Analysing /\ analysis'.at = "done" /\ analysis'.suite = analysis.suite
        /\ analysis'.answer = NoReport
    BY <2>1 DEF Analysing
  <2>3. ~Unshown /\ ~Unshown' /\ ~Unlisted /\ ~Unlisted' /\ analysis # NoAnalysis
    BY <1>00, <1>5, <2>2 DEF Unshown, Unlisted
  <2>4. Len(stabilityReports) + InProgress' <= analyzed
    BY <1>0, <1>5, <2>2 DEF StabilityTyped, InProgress
  <2>5. StabilityTyped'
    BY <1>0, <1>5, <2>2, <2>4 DEF StabilityTyped
  <2>6. ReportsSound'
    BY <1>5, <2>2, <2>3 DEF StabilityInv, ReportsSound
  <2>7. ReportsOfGroup' /\ ListOfGroup'
    BY <1>5, <2>2, <2>3 DEF StabilityInv, ReportsOfGroup, ListOfGroup, ListOf
  <2> QED
    BY <2>5, <2>6, <2>7 DEF StabilityInv
<1>6. CASE RefuseAnalysis
  BY <1>0, <1>5, <1>6 DEF RefuseAnalysis
<1>7. CASE StabilityFails
  BY <1>f, <1>5, <1>7 DEF StabilityFails
\* The handler goes on, with what it has counted.
<1>g. ASSUME analysis.at \in {"asked", "allowed"}, analysis' \in Analysing, analysis'.suite = analysis.suite,
             \/ analysis'.at = "allowed"
             \/ analysis'.at = "read" /\ analysis'.runs \in 1..Len(suiteRuns[analysis.suite])
                /\ analysis'.passed <= analysis'.runs,
             UNCHANGED <<suiteRuns, suiteRunsBegun, detective, stabilityReports, picked, report, historical,
                         earlier, historyLoading, lists, doubt, unsaved, analyzed, picks, stabilityFaults>>
      PROVE  StabilityInv'
  <2>1. analysis # NoAnalysis /\ InProgress' = InProgress
    BY <1>00, <1>g DEF InProgress
  <2>2. ~Unshown /\ ~Unshown' /\ ~Unlisted /\ ~Unlisted'
    BY <1>g DEF Unshown, Unlisted
  <2>3. StabilityTyped'
    BY <1>0, <1>g, <2>1 DEF StabilityTyped
  <2>4. ReportsSound'
    BY <1>g, <2>2 DEF StabilityInv, ReportsSound
  <2>5. ReportsOfGroup' /\ ListOfGroup'
    BY <1>g, <2>1, <2>2 DEF StabilityInv, ReportsOfGroup, ListOfGroup, ListOf
  <2> QED
    BY <2>3, <2>4, <2>5 DEF StabilityInv
<1>6a. CASE AllowAnalysis
  <2>1. analysis \in Analysing /\ analysis.at = "asked" /\ analysis' = [analysis EXCEPT !.at = "allowed"]
    BY <1>0, <1>00, <1>6a DEF AllowAnalysis
  <2>2. analysis' \in Analysing /\ analysis'.at = "allowed" /\ analysis'.suite = analysis.suite
    BY <2>1 DEF Analysing
  <2> QED
    BY <1>6a, <1>g, <2>1, <2>2 DEF AllowAnalysis
<1>6b. CASE ReadRuns
  <2> DEFINE all == suiteRuns[analysis.suite]
             last == SubSeq(all, IF Len(all) > LastRuns THEN Len(all) - LastRuns + 1 ELSE 1, Len(all))
             passed == Len(Sifted(last, {TRUE}))
  <2>1. /\ analysis.at = "allowed"
        /\ UNCHANGED <<suiteRuns, suiteRunsBegun, detective, stabilityReports, picked, report, historical,
                       earlier, historyLoading, lists, doubt, unsaved, analyzed, picks, stabilityFaults>>
        /\ IF last = <<>> THEN Answer(NoReport)
           ELSE analysis' = [analysis EXCEPT !.at = "read", !.runs = Len(last), !.passed = passed]
    BY <1>6b DEF ReadRuns
  <2>2. analysis \in Analysing /\ analysis.suite \in Suite /\ all \in Seq(BOOLEAN)
    BY <1>0, <1>00, <2>1 DEF Analysing
  <2>3. CASE last = <<>>
    <3>1. Answer(NoReport) /\ stabilityFaults' \in 0..MaxStabilityFaults
      BY <1>0, <2>1, <2>3
    <3> QED
      BY <1>5, <2>1, <3>1
  <2>4. CASE last # <<>>
    <3>1. /\ Len(last) \in 1..LastRuns /\ Len(last) <= Len(all)
          /\ passed \in 0..LastRuns /\ passed <= Len(last)
      <4>1. all \in Seq(BOOLEAN)
        BY <2>2
      <4> HIDE DEF all
      <4> QED
        BY <2>4, <4>1, LastRunsOf
    <3>2. Len(last) \in 1..Len(all) /\ Len(last) \in 0..LastRuns
      <4>1. LastRuns \in Nat
        BY StabilityAssumption
      <4>2. Len(all) \in Nat
        BY <2>2, LenProperties
      <4> DEFINE most == Len(all)
                 counted == Len(last)
      <4>3. counted \in 1..LastRuns /\ counted <= most /\ most \in Nat
        BY <3>1, <4>2
      <4> HIDE DEF most, counted
      <4>4. counted \in 1..most /\ counted \in 0..LastRuns
        BY <4>1, <4>3
      <4> QED
        BY <4>4 DEF most, counted
    <3>3. analysis' = [analysis EXCEPT !.at = "read", !.runs = Len(last), !.passed = passed]
      BY <2>1, <2>4
    <3> DEFINE counted == Len(last)
    <3> HIDE DEF counted, passed
    <3>4. counted \in 1..Len(all) /\ counted \in 0..LastRuns /\ passed \in 0..LastRuns /\ passed <= counted
          /\ analysis' = [analysis EXCEPT !.at = "read", !.runs = counted, !.passed = passed]
      BY <3>1, <3>2, <3>3 DEF counted
    <3> HIDE DEF last
    <3>5. /\ analysis' \in Analysing /\ analysis'.at = "read" /\ analysis'.suite = analysis.suite
          /\ analysis'.runs = counted /\ analysis'.passed = passed
      BY <2>2, <3>4 DEF Analysing
    <3> QED
      BY <1>g, <2>1, <3>4, <3>5
  <2> QED
    BY <2>3, <2>4
<1>6c. CASE ReportLost
  <2>1. /\ analysis.at = "done" /\ analysis.answer # NoReport
        /\ analysis' = [analysis EXCEPT !.at = "done", !.answer = NoReport]
        /\ stabilityFaults' \in 0..MaxStabilityFaults
        /\ doubt' = IF analysis.answer \in ToSet(stabilityReports) THEN doubt \cup {"list"} ELSE doubt
        /\ UNCHANGED <<suiteRuns, suiteRunsBegun, detective, stabilityReports, picked, report, historical,
                       earlier, historyLoading, lists, unsaved, analyzed, picks>>
    BY <1>6c, <1>f DEF ReportLost, Answer
  <2>2. analysis \in Analysing
    BY <1>0, <1>00, <2>1
  <2>3. analysis' \in Analysing /\ analysis'.at = "done" /\ analysis'.suite = analysis.suite
        /\ analysis'.answer = NoReport
    BY <2>1, <2>2 DEF Analysing
  <2>4. ~Unshown' /\ ~Unlisted' /\ analysis # NoAnalysis /\ InProgress' = InProgress
    BY <1>00, <2>1, <2>3 DEF Unshown, Unlisted, InProgress
  <2>5. "list" \notin doubt' => ~Unlisted
    BY <2>1 DEF Unlisted
  <2>6. doubt' \subseteq {"report", "list"} /\ doubt \subseteq doubt'
    BY <1>0, <2>1 DEF StabilityTyped
  <2>7. StabilityTyped'
    BY <1>0, <2>1, <2>3, <2>4, <2>6 DEF StabilityTyped
  <2>8. ReportsSound'
    BY <2>1, <2>3, <2>4 DEF StabilityInv, ReportsSound
  <2>9. ReportsOfGroup'
    BY <2>1, <2>3, <2>4, <2>6 DEF StabilityInv, ReportsOfGroup
  <2>10. ListOfGroup'
    BY <2>1, <2>3, <2>4, <2>5, <2>6 DEF StabilityInv, ListOfGroup, ListOf
  <2> QED
    BY <2>7, <2>8, <2>9, <2>10 DEF StabilityInv
<1>8. ASSUME NEW verdict \in CriticSays, WriteReport(verdict) PROVE StabilityInv'
  <2> DEFINE passed == analysis.passed
             written == [n |-> analysis.n, suite |-> analysis.suite, runs |-> analysis.runs,
                      passed |-> passed,
                      verdict |-> IF verdict \in Verdicts THEN verdict
                                  ELSE FromPassRate(passed, analysis.runs)]
  <2>1. /\ analysis.at = "read" /\ Answer(written)
        /\ \/ /\ stabilityReports' = Append(stabilityReports, written)
              /\ UNCHANGED <<unsaved, stabilityFaults>>
           \/ Faulty /\ unsaved' = unsaved \cup {analysis.n} /\ UNCHANGED stabilityReports
        /\ UNCHANGED <<suiteRuns, suiteRunsBegun, detective, picked, report, historical, earlier,
                       historyLoading, lists, doubt, analyzed, picks>>
    BY <1>8 DEF WriteReport
  <2>2. analysis \in Analysing /\ analysis.suite \in Suite /\ analysis.n \in 1..MaxAnalyses
    BY <1>0, <1>00, <2>1 DEF Analysing
  <2>3. /\ analysis.runs \in 1..LastRuns /\ analysis.runs <= Len(suiteRuns[analysis.suite])
        /\ passed \in 0..LastRuns /\ passed <= analysis.runs
    <3>1. analysis.runs \in 1..Len(suiteRuns[analysis.suite]) /\ analysis.passed <= analysis.runs
      BY <2>1 DEF StabilityInv, ReportsSound
    <3>2. analysis.runs \in 0..LastRuns /\ analysis.passed \in 0..LastRuns /\ Len(suiteRuns[analysis.suite]) \in Nat
      BY <1>0, <2>2 DEF Analysing
    <3> QED
      BY <3>1, <3>2
  <2> HIDE DEF passed
  <2>4. (IF verdict \in Verdicts THEN verdict ELSE FromPassRate(passed, analysis.runs)) \in Verdicts
    BY Verdicted
  <2>5. written \in Report /\ written.n = analysis.n /\ written.suite = analysis.suite /\ written.runs = analysis.runs
        /\ written.passed = passed
    BY <2>2, <2>3, <2>4 DEF Report
  <2> HIDE DEF written
  <2>6. CountedIn(suiteRuns, written) /\ written # NoReport
    BY <2>2, <2>3, <2>5 DEF CountedIn, NoReport
  <2>7. /\ analysis' \in Analysing /\ analysis'.at = "done" /\ analysis'.answer = written
        /\ analysis'.suite = analysis.suite
    BY <2>1, <2>2, <2>5 DEF Answer, Analysing
  <2>8. /\ stabilityReports' \in Seq(Report) /\ Len(stabilityReports') + InProgress' <= analyzed
        /\ ToSet(stabilityReports') \subseteq ToSet(stabilityReports) \cup {written}
        /\ ToSet(stabilityReports) \subseteq ToSet(stabilityReports')
        /\ unsaved \subseteq unsaved' /\ unsaved' \subseteq 1..MaxAnalyses
        /\ stabilityFaults' \in 0..MaxStabilityFaults
        /\ written \in ToSet(stabilityReports') \/ written.n \in unsaved'
    <3>1. Len(stabilityReports) + 1 <= analyzed /\ InProgress' = 0
      BY <1>0, <2>1, <2>7 DEF StabilityTyped, InProgress
    <3>2. CASE stabilityReports' = Append(stabilityReports, written) /\ UNCHANGED <<unsaved, stabilityFaults>>
      <4>1. /\ stabilityReports' \in Seq(Report) /\ Len(stabilityReports') = Len(stabilityReports) + 1
            /\ ToSet(stabilityReports') = ToSet(stabilityReports) \cup {written}
        BY <1>0, <2>5, <3>2, AppendProperties, ElementsAppended
      <4> QED
        BY <1>0, <3>1, <3>2, <4>1 DEF StabilityTyped
    <3>3. CASE Faulty /\ unsaved' = unsaved \cup {analysis.n} /\ UNCHANGED stabilityReports
      <4>1. unsaved \subseteq 1..MaxAnalyses
        BY <1>0 DEF StabilityTyped
      <4>2. unsaved' \subseteq 1..MaxAnalyses /\ unsaved \subseteq unsaved' /\ written.n \in unsaved'
        BY <2>2, <2>5, <3>3, <4>1
      <4>3. Len(stabilityReports) + 0 <= analyzed
        BY <1>0, <3>1
      <4> QED
        BY <1>0, <1>f, <3>1, <3>3, <4>2, <4>3
    <3> QED
      BY <2>1, <3>2, <3>3
  <2>9. StabilityTyped'
    BY <1>0, <2>1, <2>7, <2>8 DEF StabilityTyped
  <2>10. Unshown' /\ ~Unshown /\ ~Unlisted
    BY <2>1, <2>6, <2>7 DEF Unshown, Unlisted
  <2>11. ReportsSound'
    <3>1. \A r : Kept(stabilityReports, unsaved, r) => Kept(stabilityReports', unsaved', r)
      BY <2>8 DEF Kept
    <3>2. Kept(stabilityReports', unsaved', written)
      BY <2>8 DEF Kept
    <3>3. \A r \in ToSet(stabilityReports') : CountedIn(suiteRuns, r)
      BY <2>6, <2>8 DEF StabilityInv, ReportsSound
    <3> QED
      BY <2>1, <2>6, <2>5, <2>7, <2>8, <3>1, <3>2, <3>3 DEF StabilityInv, ReportsSound
  <2>12. ReportsOfGroup' /\ ListOfGroup'
    <3>1. CASE stabilityReports' = Append(stabilityReports, written) /\ UNCHANGED <<unsaved, stabilityFaults>>
      <4>1. ToSet(stabilityReports') = ToSet(stabilityReports) \cup {written}
        BY <1>0, <2>5, <3>1, ElementsAppended
      <4>2. written \in ToSet(stabilityReports')
        BY <4>1
      <4>3. Unlisted'
        BY <2>7, <2>10, <4>2 DEF Unlisted
      <4> QED
        BY <1>00, <2>1, <2>7, <4>3 DEF StabilityInv, ReportsOfGroup, ListOfGroup
    <3>2. CASE UNCHANGED stabilityReports
      BY <1>00, <2>1, <2>7, <2>10, <3>2 DEF StabilityInv, ReportsOfGroup, ListOfGroup, ListOf
    <3> QED
      BY <2>1, <3>1, <3>2
  <2> QED
    BY <2>9, <2>11, <2>12 DEF StabilityInv
<1>9. CASE AnalysisShown
  <2>1. /\ analysis.at = "done" /\ analysis' = NoAnalysis
        /\ doubt' = IF analysis.answer # NoReport /\ lists # {} THEN doubt \cup {"list"} ELSE doubt
        /\ UNCHANGED <<suiteRuns, suiteRunsBegun, detective, stabilityReports, picked, historical,
                       earlier, historyLoading, unsaved, analyzed, picks, stabilityFaults>>
    BY <1>9 DEF AnalysisShown
  <2>2. analysis \in Analysing /\ analysis # NoAnalysis
    BY <1>0, <1>00, <2>1
  <2>3. ~Unshown' /\ ~Unlisted' /\ analysis'.at = "none" /\ InProgress' = 0 /\ InProgress = 0 /\ doubt \subseteq doubt'
    BY <1>00, <2>1 DEF Unshown, Unlisted, InProgress
  <2>4. CASE analysis.answer = NoReport
    <3>1. UNCHANGED <<report, lists, doubt>> /\ ~Unshown /\ ~Unlisted
      BY <1>9, <2>1, <2>4 DEF AnalysisShown, Unshown, Unlisted
    <3>2. StabilityTyped'
      BY <1>0, <2>1, <2>3, <3>1 DEF StabilityTyped
    <3>3. ReportsSound'
      BY <2>1, <2>3, <3>1 DEF StabilityInv, ReportsSound
    <3>4. ReportsOfGroup' /\ ListOfGroup'
      BY <2>1, <2>3, <3>1 DEF StabilityInv, ReportsOfGroup, ListOfGroup, ListOf
    <3> QED
      BY <3>2, <3>3, <3>4 DEF StabilityInv
  <2>5. CASE analysis.answer # NoReport
    <3> DEFINE new == [suite |-> analysis.suite, for |-> "refresh", n |-> analyzed + picks + 1,
                       at |-> "asked", found |-> <<>>]
    <3>1. report' = analysis.answer /\ lists' = lists \cup {new}
      BY <1>9, <2>5 DEF AnalysisShown, Listing
    <3>2. new \in ListQuery
      <4>1. analyzed + picks + 1 \in Nat /\ <<>> \in Seq(Report) /\ analysis.suite \in Suite
        BY <1>0, <2>2 DEF Analysing
      <4> QED
        BY <4>1 DEF ListQuery
    <3>3. new.suite = analysis.suite /\ new.at = "asked" /\ ToSet(new.found) = {}
      BY DEF ToSet
    <3> HIDE DEF new
    <3>4. Unshown /\ analysis.answer \in Report
      BY <2>1, <2>2, <2>5 DEF Unshown, Analysing
    <3>5. StabilityTyped'
      <4>1. doubt' \subseteq {"report", "list"} /\ lists' \subseteq ListQuery
        BY <1>0, <2>1, <3>1, <3>2 DEF StabilityTyped
      <4> QED
        BY <1>0, <2>1, <2>3, <3>1, <3>4, <4>1 DEF StabilityTyped
    <3>6. ReportsSound'
      BY <2>1, <2>3, <3>1, <3>3, <3>4 DEF StabilityInv, ReportsSound
    <3>7. ReportsOfGroup'
      BY <2>1, <2>2, <2>3, <3>1, <3>4 DEF StabilityInv, ReportsOfGroup, ReportsSound
    <3>8. ListOfGroup'
      <4>1. "list" \notin doubt' => lists = {} /\ "list" \notin doubt
        BY <2>1, <2>5
      <4> QED
        BY <2>1, <2>2, <3>1, <3>3, <4>1 DEF StabilityInv, ListOfGroup
    <3> QED
      BY <3>5, <3>6, <3>7, <3>8 DEF StabilityInv
  <2> QED
    BY <2>4, <2>5
<1>10. ASSUME NEW q \in lists, ServeHistory(q) PROVE StabilityInv'
  <2> DEFINE read == [q EXCEPT !.at = "read", !.found = ListOf(q.suite)]
  <2>1. /\ q.at = "asked" /\ lists' = (lists \ {q}) \cup {read}
        /\ UNCHANGED <<suiteRuns, suiteRunsBegun, detective, stabilityReports, analysis, picked, report,
                       historical, earlier, historyLoading, doubt, unsaved, analyzed, picks, stabilityFaults>>
    BY <1>10 DEF ServeHistory
  <2>2. ListOf(q.suite) \in Seq(Report)
        /\ \A r \in ToSet(ListOf(q.suite)) : r \in ToSet(stabilityReports) /\ r.suite = q.suite
    BY <1>0, ListsReports
  <2>3. read \in ListQuery /\ read.suite = q.suite /\ read.found = ListOf(q.suite)
    BY <1>0, <2>2 DEF ListQuery
  <2> HIDE DEF read
  <2>4. StabilityTyped'
    BY <1>0, <2>1, <2>3 DEF StabilityTyped, InProgress
  <2>5. ReportsSound'
    BY <2>1, <2>2, <2>3 DEF StabilityInv, ReportsSound, Unshown
  <2>6. ReportsOfGroup'
    BY <2>1 DEF StabilityInv, ReportsOfGroup
  <2>7. ListOf(picked)' = ListOf(picked) /\ Unlisted' = Unlisted
    BY <2>1 DEF ListOf, Unlisted, Unshown
  <2>8. ListOfGroup'
    BY <2>1, <2>3, <2>7 DEF StabilityInv, ListOfGroup
  <2> QED
    BY <2>4, <2>5, <2>6, <2>8 DEF StabilityInv
<1>11. ASSUME NEW q \in lists, HistoryArrives(q) PROVE StabilityInv'
  <2>1. /\ q.at = "read" /\ lists' = lists \ {q} /\ earlier' = q.found
        /\ historyLoading' = (historyLoading /\ q.for # "effect")
        /\ UNCHANGED <<suiteRuns, suiteRunsBegun, detective, stabilityReports, analysis, picked, report,
                       historical, doubt, unsaved, analyzed, picks, stabilityFaults>>
    BY <1>11 DEF HistoryArrives
  <2>2. q.found \in Seq(Report)
        /\ \A r \in ToSet(q.found) : r \in ToSet(stabilityReports) /\ r.suite = q.suite
    BY <1>0 DEF StabilityInv, ReportsSound, ListQuery
  <2>3. StabilityTyped'
    <3>1. historyLoading' \in BOOLEAN
      BY <2>1
    <3> QED
      BY <1>0, <2>1, <2>2, <3>1 DEF StabilityTyped, InProgress
  <2>4. ReportsSound'
    BY <2>1, <2>2 DEF StabilityInv, ReportsSound, Unshown
  <2>5. ReportsOfGroup'
    BY <2>1 DEF StabilityInv, ReportsOfGroup
  <2>6. ListOf(picked)' = ListOf(picked) /\ Unlisted' = Unlisted
    BY <2>1 DEF ListOf, Unlisted, Unshown
  <2>7. ListOfGroup'
    BY <2>1, <2>2, <2>6 DEF StabilityInv, ListOfGroup
  <2> QED
    BY <2>3, <2>4, <2>5, <2>7 DEF StabilityInv
<1>12. ASSUME NEW q \in lists, HistoryFails(q) PROVE StabilityInv'
  <2>1. /\ lists' = lists \ {q} /\ doubt' = doubt \cup {"list"}
        /\ UNCHANGED <<suiteRuns, suiteRunsBegun, detective, stabilityReports, analysis, picked, report,
                       historical, unsaved, analyzed, picks>>
        /\ stabilityFaults' \in 0..MaxStabilityFaults
    BY <1>f, <1>12 DEF HistoryFails
  <2>2. /\ earlier' \in Seq(Report) /\ ToSet(earlier') \subseteq ToSet(earlier) /\ historyLoading' \in BOOLEAN
    <3>1. ToSet(<<>>) = {} /\ <<>> \in Seq(Report) /\ historyLoading \in BOOLEAN
      BY <1>0 DEF ToSet, StabilityTyped
    <3>2. CASE q.for = "effect"
      <4>1. earlier' = <<>> /\ historyLoading' = FALSE
        BY <1>12, <3>2 DEF HistoryFails
      <4>2. historyLoading' \in BOOLEAN
        BY <4>1
      <4> QED
        BY <3>1, <4>1, <4>2
    <3>3. CASE q.for # "effect"
      <4>1. UNCHANGED <<earlier, historyLoading>>
        BY <1>12, <3>3 DEF HistoryFails
      <4> QED
        BY <1>0, <3>1, <4>1
    <3> QED
      BY <3>2, <3>3
  <2>3. StabilityTyped'
    BY <1>0, <2>1, <2>2 DEF StabilityTyped, InProgress
  <2>4. ReportsSound'
    BY <2>1, <2>2 DEF StabilityInv, ReportsSound, Unshown
  <2>5. ReportsOfGroup' /\ ListOfGroup'
    BY <2>1 DEF StabilityInv, ReportsOfGroup, ListOfGroup
  <2> QED
    BY <2>3, <2>4, <2>5 DEF StabilityInv
<1>13. ASSUME NEW r \in ToSet(earlier), LoadHistorical(r) PROVE StabilityInv'
  <2>1. /\ picked # "none" /\ report' = r /\ historical' = TRUE
        /\ doubt' = IF historyLoading \/ "list" \in doubt THEN doubt \cup {"report"} ELSE doubt
        /\ UNCHANGED <<suiteRuns, suiteRunsBegun, detective, stabilityReports, analysis, picked, earlier,
                       historyLoading, lists, unsaved, analyzed, picks, stabilityFaults>>
    BY <1>13 DEF LoadHistorical
  <2>2. r \in Report /\ r \in ToSet(stabilityReports) /\ CountedIn(suiteRuns, r)
    BY <1>0, ElementsTyped DEF StabilityInv, ReportsSound
  <2>3. StabilityTyped'
    <3>1. historical' \in BOOLEAN /\ doubt' \subseteq {"report", "list"}
      BY <1>0, <2>1 DEF StabilityTyped
    <3> QED
      BY <1>0, <2>1, <2>2, <3>1 DEF StabilityTyped, InProgress
  <2>4. ReportsSound'
    BY <2>1, <2>2 DEF StabilityInv, ReportsSound, Unshown, Kept
  <2>5. ReportsOfGroup'
    <3>1. ASSUME "report" \notin doubt' PROVE "report" \notin doubt /\ "list" \notin doubt /\ ~historyLoading
      BY <2>1, <3>1
    <3> QED
      BY <2>1, <3>1 DEF StabilityInv, ReportsOfGroup, ListOfGroup
  <2>6. ListOfGroup'
    BY <2>1 DEF StabilityInv, ListOfGroup, Unlisted, Unshown, ListOf
  <2> QED
    BY <2>3, <2>4, <2>5, <2>6 DEF StabilityInv
<1>14. CASE UNCHANGED stabilityVars
  BY <1>14 DEF stabilityVars, StabilityInv, StabilityTyped, InProgress, ReportsSound,
       ReportsOfGroup, ListOfGroup, Unlisted, Unshown, ListOf
<1> QED
  BY <1>1a, <1>1b, <1>2, <1>3, <1>4, <1>6, <1>6a, <1>6b, <1>6c, <1>7, <1>8, <1>9, <1>10, <1>11, <1>12,
     <1>13, <1>14 DEF StabilityNext

LEMMA StabilityShown == StabilityInv => StabilityFits /\ StabilityTypeOK
<1> SUFFICES ASSUME StabilityInv PROVE StabilityFits /\ StabilityTypeOK
  OBVIOUS
<1>1. StabilityFits
  <2>1. (doubt = {} /\ picked # "none" /\ lists = {} /\ analysis = NoAnalysis) => earlier = ListOf(picked)
    BY DEF StabilityInv, ListOfGroup, Unlisted, Unshown, NoAnalysis
  <2> QED
    BY <2>1 DEF StabilityInv, ReportsSound, ReportsOfGroup, StabilityFits, CountedIn, Kept
<1>2. suiteRuns \in [Suite -> RunsOf]
  <2>1. ASSUME NEW s \in Suite PROVE suiteRuns[s] \in RunsOf
    <3>1. suiteRuns[s] \in Seq(BOOLEAN) /\ Len(suiteRuns[s]) <= suiteRunsBegun
          /\ suiteRunsBegun \in 0..MaxSuiteRuns
      BY DEF StabilityInv, StabilityTyped
    <3>2. Len(suiteRuns[s]) \in 0..MaxSuiteRuns /\ suiteRuns[s] \in [1..Len(suiteRuns[s]) -> BOOLEAN]
      BY <3>1, StabilityBounds, LenProperties
    <3> QED
      BY <3>2 DEF RunsOf
  <2> QED
    BY <2>1 DEF StabilityInv, StabilityTyped
<1>3. /\ ToSet(stabilityReports) \subseteq Report /\ ToSet(earlier) \subseteq Report
      /\ Len(stabilityReports) <= MaxAnalyses
  <2>1. Len(stabilityReports) \in Nat /\ InProgress \in {0, 1} /\ analyzed \in 0..MaxAnalyses
        /\ Len(stabilityReports) + InProgress <= analyzed
    BY LenProperties DEF StabilityInv, StabilityTyped, InProgress
  <2> QED
    BY <2>1, StabilityBounds, ElementsTyped DEF StabilityInv, StabilityTyped
<1>4. \A q \in lists : /\ q.at \in {"asked", "read"} /\ q.suite \in Suite
                       /\ q.for \in {"effect", "refresh"} /\ ToSet(q.found) \subseteq Report
  <2>1. \A q \in lists : q.found \in Seq(Report) /\ q \in ListQuery
    BY DEF StabilityInv, StabilityTyped, ListQuery
  <2> QED
    BY <2>1, ElementsTyped DEF ListQuery
<1> QED
  BY <1>1, <1>2, <1>3, <1>4 DEF StabilityInv, StabilityTyped, StabilityTypeOK, Analysing

\* StabilityFits in every state, for any groups and numbers of runs: however answers cross
\* the selection or are lost, a report is shown for the group it was made of, is stored
\* unless its insertion failed, and a list at rest in which nobody doubts is the group's
\* whole list (StabilityPage.tsx, ai.ts).
THEOREM StabilityAlwaysFits == StabilitySpec => [](StabilityFits /\ StabilityTypeOK)
BY StabilityStart, StabilityStep, StabilityShown, PTL DEF StabilitySpec

=============================================================================
