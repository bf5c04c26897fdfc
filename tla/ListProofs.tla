----------------------------- MODULE ListProofs -----------------------------
(***************************************************************************)
(* Safety of the three components that keep their work in lists and take   *)
(* entries out of them: the split group, the transfers and the tabs.       *)
(*                                                                         *)
(* What Among returns needs an induction over the list.  The provers can   *)
(* not be given the library's induction rules, which take a predicate, but *)
(* a set of numbers serves: if it is not all of 1 .. N, the others have a  *)
(* least element (Smallest), and the step from the one before it is a      *)
(* contradiction (UpTo).  The closing of split panes and the draining of   *)
(* the transfer queue, which the models define by recursion, are proved    *)
(* the same way.                                                           *)
(*                                                                         *)
(* Each section then gives the inductive invariant of one component        *)
(* (SplitInv, TransferInv, TabsInv), a lemma for each of its operators and *)
(* for each kind of step, and the theorems, for every value of the         *)
(* constants.                                                              *)
(***************************************************************************)
EXTENDS SplitPanes, FileTransfer, SessionTabs, FiniteSetTheorems, WellFoundedInduction, TLAPS

-----------------------------------------------------------------------------
(* What a filter returns.                                                  *)

SmallestOf(S) == \E x \in S : \A y \in S : x <= y

LEMMA Smallest == ASSUME NEW S \in SUBSET Nat, S # {} PROVE SmallestOf(S)
<1> DEFINE R == OpToRel(<, Nat)
<1>1. R = {ss \in Nat \X Nat : ss[1] < ss[2]}
      BY DEF OpToRel
<1>2. \E x \in S : \A y \in S : <<y, x>> \notin R
      BY NatLessThanWellFounded, WFMin
<1>3. \A x, y \in Nat : <<y, x>> \in R <=> y < x
      BY <1>1
<1> HIDE DEF R
<1>4. PICK x \in S : \A y \in S : <<y, x>> \notin R
      BY <1>2
<1>5. \A y \in S : ~(y < x)
      BY <1>3, <1>4
<1> QED BY <1>4, <1>5 DEF SmallestOf

\* The induction rule for a set of numbers up to a bound.
LEMMA UpTo ==
    ASSUME NEW m \in Nat, NEW S, 0 \in S, \A n \in 1 .. m : n - 1 \in S => n \in S
    PROVE  \A n \in 0 .. m : n \in S
<1> DEFINE T == {n \in 0 .. m : n \notin S}
<1>1. SUFFICES ASSUME T # {} PROVE FALSE
      OBVIOUS
<1>2. SmallestOf(T)
      BY <1>1, Smallest
<1>3. PICK x \in T : \A y \in T : x <= y
      BY <1>2 DEF SmallestOf
<1>4. x \in 1 .. m /\ x - 1 \in 0 .. m
      BY <1>3
<1>5. x - 1 \notin T
      BY <1>3, <1>4
<1> QED BY <1>3, <1>4, <1>5

AmongStep(g, s, S, n) == IF n = 0 THEN <<>> ELSE IF s[n] \in S THEN Append(g[n - 1], s[n]) ELSE g[n - 1]

LEMMA AmongFrom ==
    ASSUME NEW A, NEW s \in Seq(A), NEW S
    PROVE  \E g : g = [n \in 0 .. Len(s) |-> AmongStep(g, s, S, n)]
<1> DEFINE G(g, m) == g = [n \in 0 .. m |-> AmongStep(g, s, S, n)]
           T == {m \in 0 .. Len(s) : \E g : G(g, m)}
<1>0. Len(s) \in Nat OBVIOUS
<1>1. 0 \in T
  <2>1. G([n \in 0 .. 0 |-> <<>>], 0)
        BY DEF AmongStep
  <2> QED BY <2>1, <1>0
<1>2. ASSUME NEW m \in 1 .. Len(s), m - 1 \in T PROVE m \in T
  <2>1. PICK g : G(g, m - 1)
        BY <1>2
  <2> DEFINE h == [n \in 0 .. m |-> IF n = m THEN AmongStep(g, s, S, m) ELSE g[n]]
  <2>2. \A n \in 0 .. m - 1 : h[n] = g[n] /\ g[n] = AmongStep(g, s, S, n)
        BY <2>1, <1>0, SMTT(30)
  <2>3. \A n \in 0 .. m - 1 : AmongStep(h, s, S, n) = AmongStep(g, s, S, n)
        BY <2>2, <1>0 DEF AmongStep
  <2>4. AmongStep(h, s, S, m) = AmongStep(g, s, S, m)
        BY <2>2, <1>0 DEF AmongStep
  <2>5. G(h, m)
        BY <2>2, <2>3, <2>4, <1>0
  <2>6. \E k : G(k, m)
        BY <2>5
  <2> HIDE DEF G
  <2> QED BY <2>6, <1>0
<1> HIDE DEF T
<1>3. Len(s) \in T
  <2>1. \A n \in 1 .. Len(s) : n - 1 \in T => n \in T
        BY <1>2
  <2>2. \A n \in 0 .. Len(s) : n \in T
        BY <1>0, <1>1, <2>1, UpTo
  <2> QED BY <1>0, <2>2
<1> QED BY <1>3 DEF T

\* Among goes through the list, entry by entry.
LEMMA AmongSteps ==
    ASSUME NEW A, NEW s \in Seq(A), NEW S
    PROVE  \E g : /\ Among(s, S) = g[Len(s)]
                  /\ g[0] = <<>>
                  /\ \A n \in 1 .. Len(s) : g[n] = IF s[n] \in S THEN Append(g[n - 1], s[n]) ELSE g[n - 1]
<1> DEFINE G(g) == g = [n \in 0 .. Len(s) |-> AmongStep(g, s, S, n)]
<1>0. Len(s) \in Nat OBVIOUS
<1>1. PICK g : G(g) /\ Among(s, S) = g[Len(s)]
  <2>1. \E g : G(g)
        BY AmongFrom
  <2> QED BY <2>1 DEF Among, AmongStep
<1>2. \A n \in 0 .. Len(s) : g[n] = AmongStep(g, s, S, n)
      BY <1>1
<1>5. g[0] = <<>> /\ \A n \in 1 .. Len(s) : g[n] = AmongStep(g, s, S, n)
      BY <1>0, <1>2 DEF AmongStep
<1>3. \A n \in 1 .. Len(s) : n # 0
      BY <1>0
<1>4. \A n \in 1 .. Len(s) : g[n] = IF s[n] \in S THEN Append(g[n - 1], s[n]) ELSE g[n - 1]
      BY <1>5, <1>3 DEF AmongStep
<1> QED BY <1>1, <1>5, <1>4

LEMMA AmongIs ==
    ASSUME NEW A, NEW s \in Seq(A), NEW S
    PROVE  /\ Among(s, S) \in Seq(A)
           /\ \A x : x \in ToSet(Among(s, S)) <=> x \in ToSet(s) /\ x \in S
<1>1. PICK g : /\ Among(s, S) = g[Len(s)]
               /\ g[0] = <<>>
               /\ \A n \in 1 .. Len(s) : g[n] = IF s[n] \in S THEN Append(g[n - 1], s[n]) ELSE g[n - 1]
      BY AmongSteps
<1>0. Len(s) \in Nat /\ \A n \in 1 .. Len(s) : s[n] \in A OBVIOUS
<1> DEFINE Good(n) == g[n] \in Seq(A) /\ \A x : (\E j \in 1 .. Len(g[n]) : g[n][j] = x) <=> x \in S /\ \E i \in 1 .. n : s[i] = x
           T == {n \in 0 .. Len(s) : Good(n)}
<1>2. 0 \in T
  <2>1. g[0] \in Seq(A) /\ Len(g[0]) = 0 /\ 1 .. Len(g[0]) = {} /\ 1 .. 0 = {}
        BY <1>1
  <2>2. Good(0)
        BY <2>1
  <2> HIDE DEF Good
  <2> QED BY <2>2, <1>0
<1>3. ASSUME NEW n \in 1 .. Len(s), n - 1 \in T PROVE n \in T
  <2>0. n \in Nat /\ n \in 0 .. Len(s)
        BY <1>0
  <2>1. Good(n - 1)
        BY <1>3
  <2>2. CASE s[n] \in S
    <3> DEFINE o == g[n - 1]
    <3>1. g[n] = Append(o, s[n])
          BY <1>1, <2>2
    <3>2. o \in Seq(A) /\ s[n] \in A
          BY <2>1, <1>0
    <3>3. \A x : (\E j \in 1 .. Len(o) : o[j] = x) <=> x \in S /\ \E i \in 1 .. n - 1 : s[i] = x
          BY <2>1
    <3> HIDE DEF o
    <3> DEFINE p == Append(o, s[n])
    <3>4. p \in Seq(A) /\ Len(p) = Len(o) + 1 /\ Len(o) \in Nat /\ p[Len(p)] = s[n] /\ \A j \in 1 .. Len(o) : p[j] = o[j]
          BY <3>2
    <3> HIDE DEF p
    <3>5. ASSUME NEW x PROVE (\E j \in 1 .. Len(p) : p[j] = x) <=> x \in S /\ \E i \in 1 .. n : s[i] = x
      <4>1. ASSUME NEW j \in 1 .. Len(p), p[j] = x PROVE x \in S /\ \E i \in 1 .. n : s[i] = x
            BY <4>1, <3>3, <3>4, <2>2, <2>0
      <4>2. ASSUME x \in S, NEW i \in 1 .. n, s[i] = x PROVE \E j \in 1 .. Len(p) : p[j] = x
            BY <4>2, <3>3, <3>4, <2>2, <2>0
      <4> QED BY <4>1, <4>2
    <3> QED BY <3>1, <3>4, <3>5, <2>0 DEF p
  <2>3. CASE s[n] \notin S
    <3>1. g[n] = g[n - 1]
          BY <1>1, <2>3
    <3>2. \A x \in S : (\E i \in 1 .. n : s[i] = x) <=> \E i \in 1 .. n - 1 : s[i] = x
          BY <2>0, <2>3
    <3>3. Good(n)
          BY <3>1, <3>2, <2>1
    <3> QED BY <3>3, <2>0
  <2> QED BY <2>2, <2>3
<1> HIDE DEF T
<1>4. Len(s) \in T
  <2>1. \A n \in 1 .. Len(s) : n - 1 \in T => n \in T
        BY <1>3
  <2>2. \A n \in 0 .. Len(s) : n \in T
        BY <1>0, <1>2, <2>1, UpTo
  <2> QED BY <1>0, <2>2
<1>5. Good(Len(s))
      BY <1>4 DEF T
<1> DEFINE o == Among(s, S)
<1>6. o \in Seq(A) /\ \A x : (\E j \in 1 .. Len(o) : o[j] = x) <=> x \in S /\ \E i \in 1 .. Len(s) : s[i] = x
      BY <1>1, <1>5
<1> HIDE DEF o
<1>7. \A x : x \in ToSet(o) <=> \E j \in 1 .. Len(o) : o[j] = x
      BY <1>6 DEF ToSet
<1>8. \A x : x \in ToSet(s) <=> \E j \in 1 .. Len(s) : s[j] = x
      BY DEF ToSet
<1>9. o \in Seq(A) /\ \A x : x \in ToSet(o) <=> x \in ToSet(s) /\ x \in S
      BY <1>6, <1>7, <1>8
<1> QED BY <1>9 DEF o

\* A list without doubles in S is filtered to one without doubles, which is shorter when
\* something was taken out.
LEMMA AmongOnce ==
    ASSUME NEW A, NEW s \in Seq(A), NEW S,
           \A i, j \in 1 .. Len(s) : i # j => s[i] # s[j] \/ s[i] \notin S
    PROVE  /\ \A i, j \in 1 .. Len(Among(s, S)) : i # j => Among(s, S)[i] # Among(s, S)[j]
           /\ Len(Among(s, S)) <= Len(s)
           /\ (\E i \in 1 .. Len(s) : s[i] \notin S) => Len(Among(s, S)) < Len(s)
<1>1. PICK g : /\ Among(s, S) = g[Len(s)]
               /\ g[0] = <<>>
               /\ \A n \in 1 .. Len(s) : g[n] = IF s[n] \in S THEN Append(g[n - 1], s[n]) ELSE g[n - 1]
      BY AmongSteps
<1>0. Len(s) \in Nat /\ \A n \in 1 .. Len(s) : s[n] \in A OBVIOUS
<1> DEFINE Good(n) == /\ g[n] \in Seq(A)
                      /\ \A j \in 1 .. Len(g[n]) : \E i \in 1 .. n : s[i] = g[n][j] /\ s[i] \in S
                      /\ \A i, j \in 1 .. Len(g[n]) : i # j => g[n][i] # g[n][j]
                      /\ Len(g[n]) <= n
                      /\ (\E i \in 1 .. n : s[i] \notin S) => Len(g[n]) < n
           T == {n \in 0 .. Len(s) : Good(n)}
<1>2. 0 \in T
  <2>1. g[0] \in Seq(A) /\ Len(g[0]) = 0 /\ 1 .. Len(g[0]) = {} /\ 1 .. 0 = {}
        BY <1>1
  <2>2. Good(0)
        BY <2>1
  <2> HIDE DEF Good
  <2> QED BY <2>2, <1>0
<1>3. ASSUME NEW n \in 1 .. Len(s), n - 1 \in T PROVE n \in T
  <2>0. n \in Nat /\ n \in 0 .. Len(s)
        BY <1>0
  <2>1. Good(n - 1)
        BY <1>3
  <2>2. CASE s[n] \in S
    <3> DEFINE o == g[n - 1]
               p == Append(o, s[n])
    <3>1. g[n] = p
          BY <1>1, <2>2
    <3>2. /\ o \in Seq(A) /\ Len(o) <= n - 1 /\ s[n] \in A
          /\ \A j \in 1 .. Len(o) : \E i \in 1 .. n - 1 : s[i] = o[j] /\ s[i] \in S
          /\ \A i, j \in 1 .. Len(o) : i # j => o[i] # o[j]
          /\ (\E i \in 1 .. n - 1 : s[i] \notin S) => Len(o) < n - 1
          BY <2>1, <1>0
    <3> HIDE DEF o
    <3>4. p \in Seq(A) /\ Len(p) = Len(o) + 1 /\ Len(o) \in Nat /\ p[Len(p)] = s[n] /\ \A j \in 1 .. Len(o) : p[j] = o[j]
          BY <3>2
    <3> HIDE DEF p
    <3>3. \A i \in 1 .. Len(p) : i \in 1 .. Len(o) \/ i = Len(p)
          BY <3>4
    <3>5. \A j \in 1 .. Len(p) : \E i \in 1 .. n : s[i] = p[j] /\ s[i] \in S
      <4>1. 1 .. n - 1 \subseteq 1 .. n /\ n \in 1 .. n
            BY <2>0
      <4> QED BY <4>1, <3>2, <3>3, <3>4, <2>2, SMTT(30)
    <3>6. \A j \in 1 .. Len(o) : p[j] # s[n]
      <4>1. \A i \in 1 .. n - 1 : s[i] # s[n]
            BY <2>2, <2>0, <1>0
      <4> QED BY <4>1, <3>2, <3>4
    <3>7. \A i, j \in 1 .. Len(p) : i # j => p[i] # p[j]
          BY <3>2, <3>3, <3>4, <3>6
    <3>8. Len(p) <= n /\ ((\E i \in 1 .. n : s[i] \notin S) => Len(p) < n)
      <4>1. (\E i \in 1 .. n : s[i] \notin S) => \E i \in 1 .. n - 1 : s[i] \notin S
            BY <2>2, <2>0
      <4>2. Len(o) <= n - 1 /\ Len(p) = Len(o) + 1 /\ Len(o) \in Nat
            BY <3>2, <3>4
      <4>3. CASE \E i \in 1 .. n : s[i] \notin S
        <5>1. Len(o) < n - 1
              BY <4>3, <4>1, <3>2
        <5> QED BY <5>1, <4>2, <2>0
      <4>4. CASE ~\E i \in 1 .. n : s[i] \notin S
            BY <4>4, <4>2, <2>0
      <4> QED BY <4>3, <4>4
    <3> QED BY <3>1, <3>4, <3>5, <3>7, <3>8, <2>0
  <2>3. CASE s[n] \notin S
    <3> DEFINE o == g[n - 1]
    <3>1. g[n] = o
          BY <1>1, <2>3
    <3>2. /\ o \in Seq(A) /\ Len(o) <= n - 1
          /\ \A j \in 1 .. Len(o) : \E i \in 1 .. n - 1 : s[i] = o[j] /\ s[i] \in S
          /\ \A i, j \in 1 .. Len(o) : i # j => o[i] # o[j]
          BY <2>1, <1>0
    <3> HIDE DEF o
    <3>3. 1 .. n - 1 \subseteq 1 .. n /\ Len(o) \in Nat /\ Len(o) < n
          BY <3>2, <2>0
    <3> QED BY <3>1, <3>2, <3>3, <2>0
  <2> QED BY <2>2, <2>3
<1> HIDE DEF T
<1>4. Len(s) \in T
  <2>1. \A n \in 1 .. Len(s) : n - 1 \in T => n \in T
        BY <1>3
  <2>2. \A n \in 0 .. Len(s) : n \in T
        BY <1>0, <1>2, <2>1, UpTo
  <2> QED BY <1>0, <2>2
<1>5. Good(Len(s))
      BY <1>4 DEF T
<1> QED BY <1>1, <1>5

-----------------------------------------------------------------------------
(* The split group.                                                        *)

Bindings == Terminals \cup {Empty}
Group == [panes : Seq(Bindings), focus : Nat, host : Bindings, active : BOOLEAN,
          pending : Nat, collapsed : Bindings]
Apart(ps) == \A i, j \in 1 .. Len(ps) : i # j => ps[i] # ps[j] \/ ps[i] = Empty

\* A group between two effects: a tab of it may be closed already, its focus and its host
\* gone, its panes fewer than two; but it is never too large and never shows a tab twice.
GroupOK(g) ==
    /\ g \in Group
    /\ Len(g.panes) <= MaxPanes
    /\ Apart(g.panes)
    /\ g.focus <= Len(g.panes)

TerminalsOK ==
    /\ open \subseteq Terminals /\ unopened \subseteq Terminals
    /\ open \cap unopened = {}

SplitInv == TerminalsOK /\ GroupOK(group)

LEMMA PlaceIs ==
    ASSUME NEW A, NEW ps \in Seq(A), NEW b \in ToSet(ps)
    PROVE  Place(ps, b) \in 1 .. Len(ps) /\ ps[Place(ps, b)] = b
<1>1. \E i \in DOMAIN ps : ps[i] = b
      BY DEF ToSet
<1> QED BY <1>1 DEF Place

LEMMA BoundIs ==
    ASSUME NEW ps \in Seq(Bindings)
    PROVE  /\ Bound(ps) \subseteq Terminals
           /\ \A x : x \in Bound(ps) <=> x # Empty /\ \E i \in 1 .. Len(ps) : ps[i] = x
           /\ \A x : x \in Bound(ps) => x \in ToSet(ps)
<1>1. \A x : x \in ToSet(ps) <=> \E i \in 1 .. Len(ps) : ps[i] = x
      BY DEF ToSet
<1>2. \A i \in 1 .. Len(ps) : ps[i] \in Bindings
      OBVIOUS
<1> QED BY <1>1, <1>2 DEF Bound, Bindings

LEMMA FirstBoundIs ==
    ASSUME NEW ps \in Seq(Bindings)
    PROVE  FirstBound(ps) \in Bound(ps) \cup {Empty} /\ FirstBound(ps) \in Bindings
<1> DEFINE B == Bound(ps)
           k == Among(ps, B)
<1>1. k \in Seq(Bindings) /\ \A x : x \in ToSet(k) <=> x \in ToSet(ps) /\ x \in B
      BY AmongIs
<1>2. B \subseteq Terminals /\ \A x : x \in B => x \in ToSet(ps)
      BY BoundIs
<1>3. FirstBound(ps) = IF B = {} THEN Empty ELSE Head(k)
      BY DEF FirstBound
<1> HIDE DEF B, k
<1>4. CASE B = {}
      BY <1>3, <1>4 DEF Bindings, B
<1>5. CASE B # {}
  <2>1. PICK x : x \in ToSet(k)
        BY <1>1, <1>2, <1>5
  <2>2. \A y : y \in ToSet(k) <=> \E i \in 1 .. Len(k) : k[i] = y
        BY <1>1 DEF ToSet
  <2>3. Len(k) \in Nat /\ Len(k) # 0
        BY <2>1, <2>2, <1>1
  <2>4. Head(k) = k[1] /\ 1 \in 1 .. Len(k)
        BY <2>3, <1>1
  <2>5. Head(k) \in B
        BY <2>2, <2>4, <1>1
  <2> QED BY <2>5, <1>2, <1>3, <1>5 DEF Bindings, B
<1> QED BY <1>4, <1>5

LEMMA RemoveIs ==
    ASSUME NEW g, GroupOK(g), NEW S
    PROVE  LET r == RemovePanes(g, S)
           IN  /\ GroupOK(r)
               /\ r.host = g.host /\ r.active = g.active /\ r.collapsed = g.collapsed
               /\ \A k \in 1 .. Len(r.panes) : \E i \in 1 .. Len(g.panes) : i \notin S /\ r.panes[k] = g.panes[i]
               /\ \A i \in 1 .. Len(g.panes) : i \notin S => \E k \in 1 .. Len(r.panes) : r.panes[k] = g.panes[i]
               /\ (\E i \in 1 .. Len(g.panes) : i \in S) => Len(r.panes) < Len(g.panes)
<1> DEFINE ps == g.panes
           N == Len(ps)
           places == [i \in 1 .. N |-> i]
           D == (1 .. N) \ S
           kept == Among(places, D)
           L == Len(kept)
           qs == [k \in 1 .. L |-> ps[kept[k]]]
           M(i) == IF i \in ToSet(kept) THEN Place(kept, i) ELSE 0
<1>1. ps \in Seq(Bindings) /\ N \in Nat /\ DOMAIN ps = 1 .. N
      BY DEF GroupOK, Group
<1>2. places \in Seq(Nat) /\ Len(places) = N /\ \A i \in 1 .. N : places[i] = i
      BY <1>1
<1>3. kept \in Seq(Nat) /\ \A x : x \in ToSet(kept) <=> x \in ToSet(places) /\ x \in D
      <2> HIDE DEF places, D
      <2> QED BY <1>2, AmongIs
<1>4. /\ \A i, j \in 1 .. L : i # j => kept[i] # kept[j]
      /\ L <= N
      /\ (\E i \in 1 .. N : places[i] \notin D) => L < N
  <2>1. \A i, j \in 1 .. Len(places) : i # j => places[i] # places[j] \/ places[i] \notin D
        BY <1>2
  <2> HIDE DEF places, D
  <2> QED BY <1>2, <2>1, AmongOnce
<1>5. \A k \in 1 .. L : kept[k] \in D
  <2>1. \A k \in 1 .. L : kept[k] \in ToSet(kept)
    <3> HIDE DEF kept
    <3> QED BY <1>3 DEF ToSet
  <2> HIDE DEF kept, D
  <2> QED BY <2>1, <1>3
<1>6. L \in Nat /\ DOMAIN kept = 1 .. L
      BY <1>3
<1>7. \A i : M(i) \in 0 .. L
  <2> SUFFICES ASSUME NEW i PROVE M(i) \in 0 .. L
      OBVIOUS
  <2>1. CASE i \in ToSet(kept)
    <3>1. Place(kept, i) \in 1 .. L
          BY <2>1, <1>3, PlaceIs
    <3> QED BY <3>1, <2>1, <1>6
  <2>2. CASE i \notin ToSet(kept)
        BY <2>2, <1>6
  <2> QED BY <2>1, <2>2
<1>8. RemovePanes(g, S) = [g EXCEPT !.panes = qs, !.focus = M(g.focus), !.pending = M(g.pending)]
      BY <1>1, <1>6 DEF RemovePanes
<1>9. \A k \in 1 .. L : kept[k] \in 1 .. N /\ kept[k] \notin S
      BY <1>5
<1>18. \A i \in 1 .. N : i \notin S => \E k \in 1 .. L : kept[k] = i
  <2> SUFFICES ASSUME NEW i \in 1 .. N, i \notin S PROVE \E k \in 1 .. L : kept[k] = i
      OBVIOUS
  <2>1. i \in ToSet(places)
        BY <1>2 DEF ToSet
  <2>2. i \in D
        OBVIOUS
  <2> HIDE DEF places, D, kept
  <2>3. i \in ToSet(kept)
        BY <2>1, <2>2, <1>3
  <2> QED BY <2>3, <1>3 DEF ToSet
<1> HIDE DEF kept, M, L, places, D
<1>10. qs \in Seq(Bindings) /\ Len(qs) = L /\ \A k \in 1 .. L : qs[k] = ps[kept[k]]
  <2>1. \A k \in 1 .. L : ps[kept[k]] \in Bindings
        BY <1>1, <1>9
  <2> QED BY <2>1, <1>6
<1> HIDE DEF qs, N
<1>11. Apart(qs)
  <2>1. Apart(ps)
        BY DEF GroupOK
  <2> QED BY <2>1, <1>4, <1>9, <1>10, SMTT(30) DEF Apart, N
<1> DEFINE r == RemovePanes(g, S)
           f == M(g.focus)
           p == M(g.pending)
<1>12. f \in 0 .. L /\ p \in 0 .. L
      BY <1>7
<1> HIDE DEF f, p
<1>13. /\ r \in Group /\ r.panes = qs /\ r.focus = f
       /\ r.host = g.host /\ r.active = g.active /\ r.collapsed = g.collapsed
  <2>1. r = [g EXCEPT !.panes = qs, !.focus = f, !.pending = p]
        BY <1>8 DEF f, p
  <2>2. f \in Nat /\ p \in Nat
        BY <1>12, <1>6
  <2> HIDE DEF r
  <2> QED BY <2>1, <2>2, <1>10 DEF GroupOK, Group
<1> HIDE DEF r
<1>14. Len(r.panes) <= MaxPanes /\ r.focus <= Len(r.panes)
      BY <1>13, <1>12, <1>10, <1>4, <1>1, <1>6 DEF GroupOK, MaxPanes, N
<1>15. \A k \in 1 .. Len(r.panes) : \E i \in 1 .. Len(g.panes) : i \notin S /\ r.panes[k] = g.panes[i]
      BY <1>13, <1>10, <1>9 DEF N
<1>16. (\E i \in 1 .. Len(g.panes) : i \in S) => Len(r.panes) < Len(g.panes)
  <2>1. \A i \in 1 .. N : i \in S => places[i] \notin D
        BY <1>2 DEF D
  <2> QED BY <2>1, <1>4, <1>13, <1>10 DEF N
<1>17. GroupOK(r)
      BY <1>13, <1>14, <1>11 DEF GroupOK
<1>19. \A i \in 1 .. Len(g.panes) : i \notin S => \E k \in 1 .. Len(r.panes) : r.panes[k] = g.panes[i]
      BY <1>18, <1>13, <1>10 DEF N
<1> QED BY <1>17, <1>13, <1>15, <1>16, <1>19 DEF r

LEMMA NormalizeOK == ASSUME NEW g, GroupOK(g) PROVE GroupOK(normalize(g))
<1> DEFINE S == {i \in DOMAIN g.panes : g.panes[i] \notin open \cup {Empty}}
           r == RemovePanes(g, S)
           h == resolveHost(r.host, r.panes)
           f == IF r.focus = 0 THEN 1 ELSE r.focus
           b == FirstBound(r.panes)
<1>1. normalize(g) = IF g.panes = <<>> THEN g
                     ELSE IF Len(r.panes) < 2 THEN cleared(b)
                     ELSE [r EXCEPT !.host = h, !.focus = f]
      BY DEF normalize
<1>2. GroupOK(r)
      BY RemoveIs
<1> HIDE DEF r, S
<1>3. r.panes \in Seq(Bindings) /\ r.focus \in Nat /\ r.host \in Bindings
      BY <1>2 DEF GroupOK, Group
<1>4. b \in Bindings
      BY <1>3, FirstBoundIs
<1>5. h \in Bindings
      BY <1>3, FirstBoundIs DEF resolveHost
<1> HIDE DEF h, b
<1>6. GroupOK(cleared(b))
  <2>1. NoGroup \in Group /\ NoGroup.panes = <<>> /\ NoGroup.focus = 0
        BY DEF NoGroup, Group, Bindings
  <2>2. cleared(b) \in Group /\ cleared(b).panes = <<>> /\ cleared(b).focus = 0
        BY <2>1, <1>4 DEF Group, cleared
  <2> QED BY <2>2 DEF GroupOK, Apart, MaxPanes
<1>7. ASSUME Len(r.panes) >= 2 PROVE GroupOK([r EXCEPT !.host = h, !.focus = f])
  <2> DEFINE q == [r EXCEPT !.host = h, !.focus = f]
  <2>1. f \in Nat /\ f <= Len(r.panes)
        BY <1>2, <1>3, <1>7 DEF GroupOK
  <2> HIDE DEF f
  <2>2. q \in Group /\ q.panes = r.panes /\ q.focus = f
        BY <2>1, <1>2, <1>5 DEF GroupOK, Group
  <2> HIDE DEF q
  <2>3. GroupOK(q)
        BY <2>1, <2>2, <1>2 DEF GroupOK
  <2> QED BY <2>3 DEF q
<1>8. Len(r.panes) \in Nat
      BY <1>3
<1> HIDE DEF f
<1> QED BY <1>1, <1>6, <1>7, <1>8

\* What a handler finds once the effects have run.
LEMMA SettledIs ==
    ASSUME SplitInv, SplitSettled, group.panes # <<>>
    PROVE  /\ Len(group.panes) \in 2 .. MaxPanes
           /\ Bound(group.panes) \subseteq open
           /\ group.focus \in 1 .. Len(group.panes)
           /\ group.host \in Bound(group.panes) \cup {Empty}
<1> DEFINE g == group
           S == {i \in DOMAIN g.panes : g.panes[i] \notin open \cup {Empty}}
           r == RemovePanes(g, S)
           h == resolveHost(r.host, r.panes)
           f == IF r.focus = 0 THEN 1 ELSE r.focus
           b == FirstBound(r.panes)
<1>0. GroupOK(g) /\ g.panes # <<>>
      BY DEF SplitInv
<1>1. g = IF Len(r.panes) < 2 THEN cleared(b) ELSE [r EXCEPT !.host = h, !.focus = f]
      BY DEF normalize, SplitSettled
<1>2. /\ GroupOK(r)
      /\ (\E i \in 1 .. Len(g.panes) : i \in S) => Len(r.panes) < Len(g.panes)
      BY <1>0, RemoveIs
<1>3. \A i \in 1 .. Len(g.panes) : g.panes[i] \notin open \cup {Empty} => i \in S
      BY <1>0 DEF GroupOK, Group
<1> HIDE DEF r, S, b
<1>4. ~(Len(r.panes) < 2)
  <2>1. cleared(b).panes = <<>>
        BY DEF cleared, NoGroup
  <2> QED BY <2>1, <1>0, <1>1
<1>5. g = [r EXCEPT !.host = h, !.focus = f]
      BY <1>1, <1>4
<1>6. g.panes = r.panes /\ g.host = h /\ g.focus = f
      <2> HIDE DEF h, f, g
      <2> QED BY <1>5, <1>2 DEF GroupOK, Group
<1>7. r.panes \in Seq(Bindings) /\ Len(r.panes) \in Nat /\ r.focus \in Nat /\ r.focus <= Len(r.panes)
      BY <1>2 DEF GroupOK, Group
<1>8. Len(g.panes) \in 2 .. MaxPanes
  <2>1. Len(r.panes) <= MaxPanes
        BY <1>2 DEF GroupOK
  <2>2. Len(g.panes) = Len(r.panes)
        BY <1>6
  <2> DEFINE n == Len(r.panes)
  <2>3. n \in Nat /\ n <= 4 /\ ~(n < 2)
        BY <2>1, <1>7, <1>4 DEF MaxPanes
  <2> HIDE DEF n
  <2>4. n \in 2 .. 4
        BY <2>3
  <2> QED BY <2>2, <2>4 DEF n, MaxPanes
<1>9. \A i \in 1 .. Len(g.panes) : g.panes[i] \in open \cup {Empty}
      BY <1>2, <1>3, <1>6, <1>7
<1>10. Bound(g.panes) \subseteq open
      BY <1>9, <1>6, <1>7, BoundIs
<1>11. g.focus \in 1 .. Len(g.panes)
      BY <1>6, <1>7, <1>4
<1>12. g.host \in Bound(g.panes) \cup {Empty}
      BY <1>6, <1>7, FirstBoundIs DEF resolveHost
<1> QED BY <1>8, <1>10, <1>11, <1>12

LEMMA InsertIs ==
    ASSUME NEW A, NEW ps \in Seq(A), NEW b \in A, NEW at \in 1 .. Len(ps) + 1
    PROVE  LET q == InsertAt(ps, at, b)
           IN  /\ q \in Seq(A) /\ Len(q) = Len(ps) + 1 /\ q[at] = b
               /\ \A i \in 1 .. Len(q) : i < at => q[i] = ps[i]
               /\ \A i \in 1 .. Len(q) : i > at => q[i] = ps[i - 1]
<1> DEFINE N == Len(ps)
           l == SubSeq(ps, 1, at - 1)
           u == SubSeq(ps, at, N)
           m == l \o <<b>>
           q == m \o u
<1>1. N \in Nat /\ at \in Nat /\ at - 1 \in Nat
      OBVIOUS
<1>2. l \in Seq(A) /\ Len(l) = at - 1 /\ \A i \in 1 .. at - 1 : l[i] = ps[i]
      BY <1>1
<1>3. u \in Seq(A) /\ Len(u) = N - at + 1 /\ \A i \in 1 .. N - at + 1 : u[i] = ps[at + i - 1]
      BY <1>1
<1> HIDE DEF l, u
<1>4. m \in Seq(A) /\ Len(m) = at /\ m[at] = b /\ \A i \in 1 .. at - 1 : m[i] = ps[i]
      BY <1>1, <1>2
<1> HIDE DEF m
<1>5. q \in Seq(A) /\ Len(q) = N + 1
  <2>1. m \in Seq(A) /\ u \in Seq(A)
        BY <1>3, <1>4
  <2>2. q \in Seq(A) /\ Len(q) = Len(m) + Len(u)
        BY <2>1
  <2>3. Len(m) = at /\ Len(u) = N - at + 1
        BY <1>3, <1>4
  <2> HIDE DEF q
  <2> QED BY <1>1, <2>2, <2>3
<1>51. /\ \A i \in 1 .. Len(m) : q[i] = m[i]
      /\ \A i \in Len(m) + 1 .. Len(m) + Len(u) : q[i] = u[i - Len(m)]
  <2>1. m \in Seq(A) /\ u \in Seq(A)
        BY <1>3, <1>4
  <2> QED BY <2>1
<1> HIDE DEF q, N
<1>6. \A i \in 1 .. at : q[i] = m[i]
      BY <1>4, <1>51
<1>7. \A i \in at + 1 .. N + 1 : q[i] = ps[i - 1]
  <2> SUFFICES ASSUME NEW i \in at + 1 .. N + 1 PROVE q[i] = ps[i - 1]
      OBVIOUS
  <2> DEFINE j == i - at
  <2>1. j \in 1 .. N - at + 1 /\ i \in at + 1 .. at + (N - at + 1) /\ at + j - 1 = i - 1
        BY <1>1
  <2>2. Len(m) = at /\ Len(u) = N - at + 1
        BY <1>3, <1>4
  <2>3. q[i] = u[j]
        BY <1>51, <2>1, <2>2
  <2> HIDE DEF j
  <2>4. u[j] = ps[at + j - 1]
        BY <1>3, <2>1
  <2> QED BY <2>1, <2>3, <2>4
<1>8. InsertAt(ps, at, b) = q
      BY DEF InsertAt, l, u, m, N, q
<1>9. \A i \in 1 .. Len(q) : (i < at => i \in 1 .. at - 1 /\ i \in 1 .. at) /\ (i > at => i \in at + 1 .. N + 1)
      BY <1>1, <1>5
<1>10. at \in 1 .. at
      BY <1>1
<1>11. \A i \in 1 .. Len(q) : i < at => q[i] = ps[i]
      BY <1>4, <1>6, <1>9
<1>12. \A i \in 1 .. Len(q) : i > at => q[i] = ps[i - 1]
      BY <1>7, <1>9
<1> QED BY <1>4, <1>5, <1>6, <1>8, <1>10, <1>11, <1>12 DEF N

LEMMA InsertApart ==
    ASSUME NEW ps \in Seq(Bindings), Apart(ps), NEW b \in Bindings, b \notin Bound(ps),
           NEW at \in 1 .. Len(ps) + 1
    PROVE  Apart(InsertAt(ps, at, b))
<1> DEFINE q == InsertAt(ps, at, b)
<1>1. /\ q \in Seq(Bindings) /\ Len(q) = Len(ps) + 1 /\ q[at] = b
      /\ \A i \in 1 .. Len(q) : i < at => q[i] = ps[i]
      /\ \A i \in 1 .. Len(q) : i > at => q[i] = ps[i - 1]
      BY InsertIs
<1> HIDE DEF q
<1> DEFINE old(i) == IF i < at THEN i ELSE i - 1
<1>2. Len(ps) \in Nat /\ at \in Nat
      OBVIOUS
<1>3. \A i \in 1 .. Len(q) : i = at \/ (old(i) \in 1 .. Len(ps) /\ q[i] = ps[old(i)])
      BY <1>1, <1>2
<1>4. \A i, j \in 1 .. Len(q) : i # j /\ i # at /\ j # at => old(i) # old(j)
      BY <1>1, <1>2
<1>5. \A i \in 1 .. Len(ps) : ps[i] # b \/ b = Empty
      BY BoundIs
<1> HIDE DEF old
<1>6. ASSUME NEW i \in 1 .. Len(q), NEW j \in 1 .. Len(q), i # j
      PROVE  q[i] # q[j] \/ q[i] = Empty
  <2>1. CASE i # at /\ j # at
        BY <2>1, <1>3, <1>4, <1>6 DEF Apart
  <2>2. CASE i = at
        BY <2>2, <1>1, <1>3, <1>5, <1>6
  <2>3. CASE j = at
        BY <2>3, <1>1, <1>3, <1>5, <1>6
  <2> QED BY <2>1, <2>2, <2>3
<1>7. Apart(q)
      BY <1>6 DEF Apart
<1> QED BY <1>7 DEF q

LEMMA StartSplitStep ==
    ASSUME SplitInv, SplitSettled,
           NEW b \in open, NEW t \in unopened \cup {Empty}, NEW at \in 1 .. MaxPanes,
           startTerminalSplitForBinding(b, t, at)
    PROVE  SplitInv'
<1> DEFINE g == group
           ps == IF g.panes = <<>> THEN <<b>> ELSE g.panes
           member == b \in Bound(ps)
           divided == IF member THEN Place(ps, b) ELSE g.focus
           new == IF member THEN t ELSE b
           q == InsertAt(ps, at, new)
           h == IF g.panes = <<>> THEN b ELSE g.host
           p == IF new = Empty THEN at ELSE IF g.pending >= at THEN g.pending + 1 ELSE g.pending
<1>0. GroupOK(g) /\ TerminalsOK /\ b \in Terminals /\ Empty \notin Terminals
      BY TerminalsAssumption DEF SplitInv, TerminalsOK
<1>1. /\ Len(ps) < MaxPanes /\ at \in divided + 1 .. Len(ps) + 1
      /\ IF member THEN SameSession(t) ELSE t = Empty /\ UNCHANGED <<open, unopened>>
      /\ group' = [g EXCEPT !.panes = q, !.focus = at, !.active = TRUE, !.host = h, !.pending = p]
      BY DEF startTerminalSplitForBinding
<1>2. ps \in Seq(Bindings) /\ Apart(ps) /\ Len(ps) \in Nat
  <2>1. CASE g.panes = <<>>
    <3>1. ps = <<b>> /\ <<b>> \in Seq(Bindings) /\ Len(<<b>>) = 1
          BY <2>1, <1>0 DEF Bindings
    <3> HIDE DEF ps
    <3> QED BY <3>1 DEF Apart
  <2>2. CASE g.panes # <<>>
        BY <2>2, <1>0 DEF GroupOK, Group
  <2> QED BY <2>1, <2>2
<1>3. Bound(ps) \subseteq open
  <2>1. CASE g.panes = <<>>
    <3>1. ps = <<b>> /\ \A i \in 1 .. Len(ps) : ps[i] = b
          BY <2>1
    <3> HIDE DEF ps
    <3> QED BY <3>1, <1>2, BoundIs
  <2>2. CASE g.panes # <<>>
        BY <2>2, SettledIs
  <2> QED BY <2>1, <2>2
<1>4. divided \in Nat
  <2>1. CASE member
    <3>1. b \in ToSet(ps)
          BY <2>1 DEF Bound
    <3> HIDE DEF ps
    <3>2. Place(ps, b) \in 1 .. Len(ps)
          BY <3>1, <1>2, PlaceIs
    <3> QED BY <3>2, <2>1, <1>2
  <2>2. CASE ~member
        BY <2>2, <1>0 DEF GroupOK, Group
  <2> QED BY <2>1, <2>2
<1>5. new \in Bindings /\ new \notin Bound(ps)
  <2>1. CASE member
    <3>1. t \notin open \/ t = Empty
          BY <1>0 DEF TerminalsOK
    <3>2. t \notin Bound(ps)
          BY <3>1, <1>3, <1>0 DEF TerminalsOK, Bound
    <3> QED BY <3>2, <2>1, <1>0 DEF Bindings, TerminalsOK
  <2>2. CASE ~member
        BY <2>2, <1>0 DEF Bindings
  <2> QED BY <2>1, <2>2
<1>6. TerminalsOK'
      BY <1>1, <1>0 DEF TerminalsOK, SameSession
<1> HIDE DEF ps, divided, new, member
<1>7. at \in 1 .. Len(ps) + 1 /\ at \in Nat
      BY <1>1, <1>2, <1>4
<1>8. q \in Seq(Bindings) /\ Len(q) = Len(ps) + 1 /\ Apart(q)
      BY <1>2, <1>5, <1>7, InsertIs, InsertApart
<1>9. h \in Bindings /\ p \in Nat
      BY <1>0, <1>7 DEF GroupOK, Group, Bindings
<1> HIDE DEF q, h, p
<1>10. group' \in Group /\ group'.panes = q /\ group'.focus = at
      BY <1>0, <1>1, <1>7, <1>8, <1>9 DEF GroupOK, Group
<1>11. Len(q) <= MaxPanes /\ at <= Len(q)
      BY <1>1, <1>2, <1>7, <1>8 DEF MaxPanes
<1>12. GroupOK(group')
      BY <1>8, <1>10, <1>11 DEF GroupOK
<1> QED BY <1>6, <1>12 DEF SplitInv, GroupOK

LEMMA AssignStep ==
    ASSUME SplitInv, NEW n \in DOMAIN group.panes, NEW b \in Terminals,
           handleTerminalSplitSessionSelect(n, b)
    PROVE  SplitInv'
<1> DEFINE g == group
           ps == g.panes
           q == [i \in DOMAIN ps |-> IF i = n THEN b ELSE IF ps[i] = b THEN ps[n] ELSE ps[i]]
<1>0. GroupOK(g) /\ TerminalsOK /\ Empty \notin Terminals
      BY TerminalsAssumption DEF SplitInv
<1>1. /\ open' = open \cup {b} /\ unopened' = unopened \ {b}
      /\ group' = [g EXCEPT !.panes = q, !.focus = n, !.pending = 0]
      BY DEF handleTerminalSplitSessionSelect, assign
<1>2. ps \in Seq(Bindings) /\ Apart(ps) /\ Len(ps) \in Nat /\ DOMAIN ps = 1 .. Len(ps) /\ n \in 1 .. Len(ps)
      BY <1>0 DEF GroupOK, Group
<1>3. q \in Seq(Bindings) /\ Len(q) = Len(ps)
        /\ \A i \in 1 .. Len(ps) : q[i] = IF i = n THEN b ELSE IF ps[i] = b THEN ps[n] ELSE ps[i]
  <2>1. \A i \in 1 .. Len(ps) : (IF i = n THEN b ELSE IF ps[i] = b THEN ps[n] ELSE ps[i]) \in Bindings
        BY <1>2 DEF Bindings
  <2> QED BY <2>1, <1>2
<1> HIDE DEF q
<1>4. Apart(q)
      BY <1>2, <1>3, <1>0 DEF Apart
<1>5. group' \in Group /\ group'.panes = q /\ group'.focus = n
  <2>1. n \in Nat
        BY <1>2
  <2> QED BY <2>1, <1>0, <1>1, <1>3 DEF GroupOK, Group
<1>6. GroupOK(group')
      BY <1>0, <1>2, <1>3, <1>4, <1>5 DEF GroupOK, MaxPanes
<1>7. TerminalsOK'
      BY <1>0, <1>1 DEF TerminalsOK
<1> QED BY <1>6, <1>7 DEF SplitInv, GroupOK

LEMMA FourPaneStep ==
    ASSUME SplitInv, SplitSettled,
           NEW b \in open, NEW T \in SUBSET unopened, startTerminalFourPaneForBinding(b, T)
    PROVE  SplitInv'
<1> DEFINE g == group
           current == Among(g.panes, Bound(g.panes))
           mine == IF b \in Bound(current) THEN current ELSE Append(current, b)
           more == SetToSeq(T)
           all == mine \o more
           ps == [i \in 1 .. MaxPanes |-> IF i <= Len(all) THEN all[i] ELSE Empty]
           f == IF Empty \notin ToSet(ps) THEN 1 ELSE Place(ps, Empty)
           h == IF g.host = Empty THEN b ELSE g.host
<1>0. /\ GroupOK(g) /\ TerminalsOK /\ b \in Terminals /\ Empty \notin Terminals
      /\ IsFiniteSet(T) /\ T \subseteq Terminals /\ T \cap open = {}
  <2>1. T \in SUBSET Terminals /\ T \cap open = {} /\ b \in Terminals /\ TerminalsOK
        BY DEF SplitInv, TerminalsOK
  <2>2. IsFiniteSet(T)
        BY <2>1, FS_Subset, TerminalsAssumption
  <2> QED BY <2>1, <2>2, TerminalsAssumption DEF SplitInv
<1>1. /\ open' = open \cup T /\ unopened' = unopened \ T
      /\ group' = [g EXCEPT !.panes = ps, !.active = TRUE, !.host = h, !.focus = f, !.pending = 0]
      BY DEF startTerminalFourPaneForBinding
<1>2. g.panes \in Seq(Bindings) /\ Apart(g.panes)
      BY <1>0 DEF GroupOK, Group
<1>3. Bound(g.panes) \subseteq open
  <2>1. CASE g.panes = <<>>
    <3>1. 1 .. Len(g.panes) = {}
          BY <2>1
    <3> QED BY <3>1, <1>2, BoundIs
  <2>2. CASE g.panes # <<>>
        BY <2>2, SettledIs
  <2> QED BY <2>1, <2>2
\* The members, each once.
<1>4. /\ current \in Seq(Bindings)
      /\ \A i \in 1 .. Len(current) : current[i] \in open /\ current[i] # Empty
      /\ \A i, j \in 1 .. Len(current) : i # j => current[i] # current[j]
  <2> DEFINE B == Bound(g.panes)
  <2>1. B \subseteq open /\ Empty \notin B
        BY <1>3 DEF Bound
  <2>2. \A i, j \in 1 .. Len(g.panes) : i # j => g.panes[i] # g.panes[j] \/ g.panes[i] \notin B
        BY <1>2, <2>1 DEF Apart
  <2> HIDE DEF B
  <2>3. Among(g.panes, B) \in Seq(Bindings) /\ \A x : x \in ToSet(Among(g.panes, B)) => x \in B
        BY <1>2, AmongIs
  <2>4. \A i, j \in 1 .. Len(Among(g.panes, B)) : i # j => Among(g.panes, B)[i] # Among(g.panes, B)[j]
        BY <1>2, <2>2, AmongOnce
  <2> DEFINE c == Among(g.panes, B)
  <2>5. c = current
        BY DEF B
  <2> HIDE DEF c, current
  <2>6. \A i \in 1 .. Len(c) : c[i] \in ToSet(c)
        BY <2>3 DEF ToSet, c
  <2> QED BY <2>1, <2>3, <2>4, <2>5, <2>6 DEF c
<1>5. /\ mine \in Seq(Bindings)
      /\ \A i \in 1 .. Len(mine) : mine[i] \in open /\ mine[i] # Empty
      /\ \A i, j \in 1 .. Len(mine) : i # j => mine[i] # mine[j]
  <2> HIDE DEF current
  <2>1. CASE b \in Bound(current)
        BY <2>1, <1>4
  <2>2. CASE b \notin Bound(current)
    <3>1. \A i \in 1 .. Len(current) : current[i] # b
          BY <2>2, <1>0, <1>4, BoundIs
    <3> DEFINE m == Append(current, b)
    <3>2. m \in Seq(Bindings) /\ Len(m) = Len(current) + 1 /\ Len(current) \in Nat /\ m[Len(m)] = b
          /\ \A i \in 1 .. Len(current) : m[i] = current[i]
          BY <1>4, <1>0 DEF Bindings
    <3>3. mine = m
          BY <2>2
    <3> HIDE DEF m, mine
    <3>4. \A i \in 1 .. Len(m) : i \in 1 .. Len(current) \/ i = Len(m)
          BY <3>2
    <3> QED BY <3>1, <3>2, <3>3, <3>4, <1>4, <1>0
  <2> QED BY <2>1, <2>2
\* The new tabs, each once.
<1>6. /\ more \in Seq(Bindings)
      /\ \A i \in 1 .. Len(more) : more[i] \in T
      /\ \A i, j \in 1 .. Len(more) : i # j => more[i] # more[j]
  <2> DEFINE n == Cardinality(T)
  <2>1. n \in Nat /\ ExistsBijection(1 .. n, T)
        BY <1>0, FS_CardinalityType
  <2> HIDE DEF n
  <2>3. \E k \in [1 .. n -> T] : IsInjective(k)
        BY <2>1 DEF ExistsBijection, Bijection, Injection
  <2>4. more \in [1 .. n -> T] /\ IsInjective(more)
        BY <2>3 DEF SetToSeq, n
  <2> HIDE DEF more
  <2>5. more \in Seq(T) /\ Len(more) = n
        BY <2>1, <2>4
  <2> QED BY <2>4, <2>5, <1>0 DEF IsInjective, Bindings
<1>7. /\ all \in Seq(Bindings) /\ Len(all) \in Nat
      /\ \A i \in 1 .. Len(all) : all[i] # Empty
      /\ \A i, j \in 1 .. Len(all) : i # j => all[i] # all[j]
  <2> HIDE DEF mine, more
  <2> DEFINE K == Len(mine)
             M == Len(more)
  <2>1. K \in Nat /\ M \in Nat
        BY <1>5, <1>6
  <2>2. all \in Seq(Bindings) /\ Len(all) = K + M
        BY <1>5, <1>6
  <2>3. \A i \in 1 .. Len(all) : (i \in 1 .. K /\ all[i] = mine[i]) \/ (i - K \in 1 .. M /\ all[i] = more[i - K])
        BY <1>5, <1>6, <2>1, <2>2
  <2> HIDE DEF all, K, M
  <2>4. \A i \in 1 .. K : mine[i] \in open /\ mine[i] # Empty
        BY <1>5 DEF K
  <2>5. \A i \in 1 .. M : more[i] \notin open /\ more[i] # Empty
        BY <1>6, <1>0 DEF M
  <2>6. \A i, j \in 1 .. K : i # j => mine[i] # mine[j]
        BY <1>5 DEF K
  <2>7. \A i, j \in 1 .. M : i # j => more[i] # more[j]
        BY <1>6 DEF M
  <2>8. \A i, j \in 1 .. Len(all) : i # j => i - K # j - K
        BY <2>1, <2>2
  <2>9. \A i \in 1 .. Len(all) : all[i] # Empty
        BY <2>3, <2>4, <2>5
  <2>10. \A i, j \in 1 .. Len(all) : i # j => all[i] # all[j]
        BY <2>3, <2>4, <2>5, <2>6, <2>7, <2>8
  <2> QED BY <2>1, <2>2, <2>9, <2>10
<1> HIDE DEF all
<1>8. ps \in Seq(Bindings) /\ Len(ps) = 4 /\ \A i \in 1 .. 4 : ps[i] = IF i <= Len(all) THEN all[i] ELSE Empty
  <2>1. \A i \in 1 .. 4 : (IF i <= Len(all) THEN all[i] ELSE Empty) \in Bindings
        BY <1>7 DEF Bindings
  <2> QED BY <2>1 DEF MaxPanes
<1> HIDE DEF ps
<1>9. Apart(ps)
  <2>1. \A i \in 1 .. 4 : i <= Len(all) => i \in 1 .. Len(all)
        BY <1>7
  <2> QED BY <2>1, <1>7, <1>8 DEF Apart
<1>10. f \in Nat /\ f <= 4
  <2>1. CASE Empty \in ToSet(ps)
    <3>1. Place(ps, Empty) \in 1 .. Len(ps)
          BY <2>1, <1>8, PlaceIs
    <3> QED BY <3>1, <2>1, <1>8
  <2>2. CASE Empty \notin ToSet(ps)
        BY <2>2
  <2> QED BY <2>1, <2>2
<1>11. h \in Bindings
      BY <1>0 DEF GroupOK, Group, Bindings
<1> HIDE DEF f, h
<1>12. group' \in Group /\ group'.panes = ps /\ group'.focus = f
      BY <1>0, <1>1, <1>8, <1>10, <1>11 DEF GroupOK, Group
<1>13. GroupOK(group')
  <2>1. Len(group'.panes) = 4 /\ Apart(group'.panes) /\ group'.focus <= 4
        BY <1>8, <1>9, <1>10, <1>12
  <2> QED BY <2>1, <1>12 DEF GroupOK, MaxPanes
<1>14. TerminalsOK'
      BY <1>0, <1>1 DEF TerminalsOK
<1> QED BY <1>13, <1>14 DEF SplitInv, GroupOK

\* A pane goes, and the first one has the focus when it had it.
LEMMA RefocusOK ==
    ASSUME NEW g, GroupOK(g), NEW c, c => g.panes # <<>>
    PROVE  GroupOK([g EXCEPT !.focus = IF c THEN 1 ELSE g.focus])
<1> DEFINE f == IF c THEN 1 ELSE g.focus
           q == [g EXCEPT !.focus = f]
<1>1. g.panes \in Seq(Bindings) /\ Len(g.panes) \in Nat /\ (g.panes # <<>> => Len(g.panes) >= 1)
      BY DEF GroupOK, Group
<1>2. f \in Nat /\ f <= Len(g.panes)
      BY <1>1 DEF GroupOK, Group
<1> HIDE DEF f
<1>3. q \in Group /\ q.panes = g.panes /\ q.focus = f
      BY <1>2 DEF GroupOK, Group
<1> HIDE DEF q
<1>4. GroupOK(q)
      BY <1>2, <1>3 DEF GroupOK
<1> QED BY <1>4 DEF q, f

LEMMA SplitStep == ASSUME SplitInv, [SplitNext]_splitVars PROVE SplitInv'
<1> DEFINE g == group
<1>0. /\ GroupOK(g) /\ g \in Group /\ g.panes \in Seq(Bindings) /\ TerminalsOK
      /\ DOMAIN g.panes = 1 .. Len(g.panes)
      BY DEF SplitInv, GroupOK, Group
<1>51. ASSUME GroupOK(group'), TerminalsOK' PROVE SplitInv'
      BY <1>51 DEF SplitInv, GroupOK
\* A field that no part of the invariant reads.
<1>b. ASSUME NEW h \in Group, h.panes = g.panes, h.focus = g.focus PROVE GroupOK(h)
      BY <1>b, <1>0 DEF GroupOK
<1>c. ASSUME UNCHANGED <<open, unopened>> PROVE TerminalsOK'
      BY <1>c, <1>0 DEF TerminalsOK
<1>1. CASE Normalize
  <2>1. group' = normalize(g) /\ UNCHANGED <<open, unopened>>
        BY <1>1 DEF Normalize
  <2>2. GroupOK(normalize(g))
        BY <1>0, NormalizeOK
  <2> QED BY <2>1, <2>2, <1>51, <1>c
<1>2. CASE CollapseHandled
  <2>1. group' = [g EXCEPT !.collapsed = Empty, !.pending = 0, !.active = FALSE] /\ UNCHANGED <<open, unopened>>
        BY <1>2 DEF CollapseHandled
  <2>2. group' \in Group /\ group'.panes = g.panes /\ group'.focus = g.focus
        BY <2>1, <1>0 DEF Group, Bindings
  <2> QED BY <2>1, <2>2, <1>51, <1>b, <1>c
<1>3. ASSUME NEW t \in Terminals, TabGoes(t) PROVE SplitInv'
      BY <1>3, <1>0 DEF TabGoes, SplitInv, GroupOK, TerminalsOK
<1>4. ASSUME SplitSettled, closeTerminalSplitGroup PROVE SplitInv'
  <2>1. group' = NoGroup /\ open' = open \ Bound(g.panes) /\ UNCHANGED unopened
        BY <1>4 DEF closeTerminalSplitGroup
  <2>2. NoGroup \in Group /\ NoGroup.panes = <<>> /\ NoGroup.focus = 0
        BY DEF NoGroup, Group, Bindings
  <2>3. GroupOK(NoGroup)
        BY <2>2 DEF GroupOK, Apart, MaxPanes
  <2>4. TerminalsOK'
        BY <2>1, <1>0 DEF TerminalsOK
  <2> QED BY <2>1, <2>3, <2>4, <1>51
<1>5. ASSUME NEW t \in Terminals, OpenTerminal(t) PROVE SplitInv'
  <2>1. group' = [g EXCEPT !.active = FALSE] /\ open' = open \cup {t} /\ unopened' = unopened \ {t}
        BY <1>5 DEF OpenTerminal
  <2>2. group' \in Group /\ group'.panes = g.panes /\ group'.focus = g.focus
        BY <2>1, <1>0 DEF Group
  <2>3. TerminalsOK'
        BY <2>1, <1>0 DEF TerminalsOK
  <2> QED BY <2>2, <2>3, <1>51, <1>b
<1>6. ASSUME NEW b \in Terminals, activateTerminalTab(b) PROVE SplitInv'
  <2>1. UNCHANGED <<open, unopened>>
        BY <1>6 DEF activateTerminalTab
  <2>2. CASE b \in Bound(g.panes)
    <3> DEFINE f == Place(g.panes, b)
    <3>1. f \in 1 .. Len(g.panes)
          BY <2>2, <1>0, PlaceIs DEF Bound
    <3>2. group' = [g EXCEPT !.active = TRUE, !.focus = f]
          BY <2>2, <1>6 DEF activateTerminalTab
    <3> HIDE DEF f
    <3>3. f \in Nat /\ f <= Len(g.panes)
          BY <3>1, <1>0
    <3>4. group' \in Group /\ group'.panes = g.panes /\ group'.focus = f
          BY <3>2, <3>3, <1>0 DEF Group
    <3>5. GroupOK(group')
          BY <3>3, <3>4, <1>0 DEF GroupOK
    <3> QED BY <3>5, <2>1, <1>51, <1>c
  <2>3. CASE b \notin Bound(g.panes)
    <3>1. group' = [g EXCEPT !.active = FALSE]
          BY <2>3, <1>6 DEF activateTerminalTab
    <3>2. group' \in Group /\ group'.panes = g.panes /\ group'.focus = g.focus
          BY <3>1, <1>0 DEF Group
    <3> QED BY <3>2, <2>1, <1>51, <1>b, <1>c
  <2> QED BY <2>2, <2>3
<1>7. ASSUME NEW n \in DOMAIN g.panes, handleTerminalSplitPickerOpenChange(n) PROVE SplitInv'
  <2> DEFINE r == RemovePanes(g, {n})
             c == r.focus = 0 /\ r.panes # <<>>
  <2>1. GroupOK(r)
        BY <1>0, RemoveIs
  <2>2. group' = [r EXCEPT !.focus = IF c THEN 1 ELSE r.focus] /\ UNCHANGED <<open, unopened>>
        BY <1>7 DEF handleTerminalSplitPickerOpenChange
  <2> HIDE DEF r
  <2>3. c => r.panes # <<>>
        OBVIOUS
  <2> HIDE DEF c
  <2>4. GroupOK(group')
        BY <2>1, <2>2, <2>3, RefocusOK
  <2> QED BY <2>2, <2>4, <1>51, <1>c
<1>8. ASSUME SplitSettled, NEW n \in DOMAIN g.panes, focusTerminalSplitPane(n) PROVE SplitInv'
  <2>1. group' = [g EXCEPT !.focus = n] /\ UNCHANGED <<open, unopened>>
        BY <1>8 DEF focusTerminalSplitPane
  <2>2. n \in Nat /\ n <= Len(g.panes)
        BY <1>0
  <2>3. group' \in Group /\ group'.panes = g.panes /\ group'.focus = n
        BY <2>1, <2>2, <1>0 DEF Group
  <2>4. GroupOK(group')
        BY <2>2, <2>3, <1>0 DEF GroupOK
  <2> QED BY <2>1, <2>4, <1>51, <1>c
<1>9. ASSUME SplitSettled, NEW n \in DOMAIN g.panes, closeTerminalSplitPane(n) PROVE SplitInv'
  <2> DEFINE r == RemovePanes(g, {n})
             c == r.focus = 0
  <2>1. GroupOK(r)
        BY <1>0, RemoveIs
  <2>2. /\ group' = [r EXCEPT !.focus = IF c THEN 1 ELSE r.focus]
        /\ open' = open \ {g.panes[n]} /\ UNCHANGED unopened
        BY <1>9 DEF closeTerminalSplitPane
  <2>3. r.panes # <<>>
    <3>1. Len(g.panes) \in 2 .. MaxPanes
          BY <1>9, <1>0, SettledIs
    <3>2. PICK i \in 1 .. Len(g.panes) : i \notin {n}
      <4>1. 1 \in 1 .. Len(g.panes) /\ 2 \in 1 .. Len(g.panes)
            BY <3>1 DEF MaxPanes
      <4> QED BY <4>1
    <3>3. \E k \in 1 .. Len(r.panes) : TRUE
          BY <3>2, <1>0, RemoveIs
    <3> QED BY <3>3
  <2>4. GroupOK(group')
    <3> HIDE DEF r, c
    <3> QED BY <2>1, <2>2, <2>3, RefocusOK
  <2>5. TerminalsOK'
        BY <2>2, <1>0 DEF TerminalsOK
  <2> QED BY <2>4, <2>5, <1>51
<1>10. CASE UNCHANGED splitVars
      BY <1>10, <1>0, <1>51 DEF splitVars, TerminalsOK
<1>11. ASSUME SplitSettled, SplitHandler PROVE SplitInv'
      BY <1>4, <1>5, <1>6, <1>7, <1>8, <1>9, <1>11, StartSplitStep, FourPaneStep, AssignStep DEF SplitHandler
<1> QED BY <1>1, <1>2, <1>3, <1>10, <1>11 DEF SplitNext

\* GroupIsSound, for any finite set of terminals: once the effects have run the group has
\* two to four panes, shows open tabs only and each at most once, and its focus and its
\* host name members, after any mix of splits, swaps, cancels and closes.
THEOREM SplitGroupIsSound == SplitSpec => []GroupIsSound
<1>1. SplitInit => SplitInv
  <2>1. NoGroup \in Group /\ NoGroup.panes = <<>> /\ NoGroup.focus = 0
        BY DEF NoGroup, Group, Bindings
  <2>2. GroupOK(NoGroup)
        BY <2>1 DEF GroupOK, Apart, MaxPanes
  <2> QED BY <2>2 DEF SplitInit, SplitInv, TerminalsOK
<1>2. SplitInv => GroupIsSound
  <2> SUFFICES ASSUME SplitInv, SplitSettled, group.panes # <<>> PROVE GroupIsSound
      BY DEF GroupIsSound
  <2>1. Apart(group.panes) /\ DOMAIN group.panes = 1 .. Len(group.panes)
        BY DEF SplitInv, GroupOK, Group
  <2> QED BY <2>1, SettledIs DEF GroupIsSound, Apart
<1> QED BY <1>1, <1>2, SplitStep, PTL DEF SplitSpec

-----------------------------------------------------------------------------
(* The transfers.                                                          *)

Statuses == FinishedStatuses \cup ActiveStatuses \cup Absent \cup {"error"}
Steps == {"idle", "checking", "asking", "caching", "invoked", "moving"}

\* What the controller and its tasks keep, and the rows they write.
Ctl == [queue : Seq(Transfers), tasks : SUBSET Transfers, running : SUBSET Transfers, limit : Limits,
        rowStatus : [Transfers -> Statuses], pc : [Transfers -> Steps],
        asks : SUBSET Transfers, retry : SUBSET Transfers]

\* The row of a transfer whose task is under way runs, unless the user canceled it, and
\* then perhaps removed it; what waits in the queue has had a row.
CtlOK(c) ==
    /\ c \in Ctl
    /\ \A u \in Transfers : c.pc[u] # "idle" => c.rowStatus[u] \in {"running", "canceled", "gone"}
    /\ \A u \in Transfers : c.pc[u] = "caching" => Kind[u] # "direct"
    /\ \A i \in 1 .. Len(c.queue) : c.rowStatus[c.queue[i]] # "none"

ItemsOK ==
    /\ items \in Seq(Transfers)
    /\ \A i \in 1 .. Len(items) : rowStatus[items[i]] # "none"

\* The prompt is of a task that waits for it, or of a row that is gone.
PromptOK ==
    \/ prompt = NoTransfer
    \/ prompt \in Transfers /\ (pc[prompt] = "asking" \/ rowStatus[prompt] = "gone")

CallsOK ==
    /\ cancelling \subseteq Transfers
    /\ token \in [Transfers -> {"none", "live", "canceled"}]

TransferInv == CtlOK(Now) /\ ItemsOK /\ PromptOK /\ CallsOK

\* From c to d the drain started some of the queued transfers and did nothing else to the
\* rows; it gives a place only to the tasks it started.
Drained(c, d) ==
    /\ CtlOK(d)
    /\ \A u \in Transfers :
          /\ d.rowStatus[u] = c.rowStatus[u] \/ (c.rowStatus[u] = "queued" /\ d.rowStatus[u] = "running")
          /\ d.pc[u] = c.pc[u] \/ c.rowStatus[u] \in {"gone", "queued"}

LEMMA UpdateIs ==
    ASSUME NEW st \in [Transfers -> Statuses], NEW t \in Transfers, NEW s \in Statuses
    PROVE  /\ updateRemoteFileTransfer(st, t, s) \in [Transfers -> Statuses]
           /\ \A u \in Transfers : updateRemoteFileTransfer(st, t, s)[u]
                                     = IF u = t /\ st[t] \notin Absent THEN s ELSE st[u]
BY DEF updateRemoteFileTransfer

LEMMA SameRow ==
    ASSUME NEW st \in [Transfers -> Statuses], NEW t \in Transfers, st[t] \in {"running", "gone"}
    PROVE  updateRemoteFileTransfer(st, t, "running") = st
BY DEF updateRemoteFileTransfer, Absent

LEMMA StartTaskIs ==
    ASSUME NEW c \in Ctl, NEW t \in Transfers, c.rowStatus[t] \in {"running", "gone"}
    PROVE  LET d == StartTask(c, t)
               e == Transmit(c, t)
           IN  /\ d \in Ctl /\ d.rowStatus = c.rowStatus /\ d.queue = c.queue
               /\ \A u \in Transfers : u # t => d.pc[u] = c.pc[u]
               /\ d.pc[t] = "caching" => Kind[t] # "direct"
               /\ e \in Ctl /\ e.rowStatus = c.rowStatus /\ e.queue = c.queue
               /\ \A u \in Transfers : u # t => e.pc[u] = c.pc[u]
               /\ e.pc[t] = "caching" => Kind[t] # "direct"
<1> DEFINE x == IF Kind[t] = "direct" THEN "invoked" ELSE "caching"
           p == [c.pc EXCEPT ![t] = x]
           q == [c.pc EXCEPT ![t] = "checking"]
           r == c.retry \cup {t}
           a == c.asks \ {t}
<1>0. /\ c.rowStatus \in [Transfers -> Statuses] /\ c.pc \in [Transfers -> Steps]
      /\ c.retry \subseteq Transfers /\ c.asks \subseteq Transfers
      BY DEF Ctl
<1>1. updateRemoteFileTransfer(c.rowStatus, t, "running") = c.rowStatus
      BY <1>0, SameRow
<1>2. Transmit(c, t) = [c EXCEPT !.retry = r, !.asks = a, !.rowStatus = c.rowStatus, !.pc = p]
      BY <1>1 DEF Transmit, Ctl
<1>3. x \in Steps /\ (x = "caching" => Kind[t] # "direct")
      BY DEF Steps
<1> HIDE DEF x
<1>4. p \in [Transfers -> Steps] /\ p[t] = x /\ \A u \in Transfers : u # t => p[u] = c.pc[u]
      BY <1>0, <1>3
<1>5. q \in [Transfers -> Steps] /\ q[t] = "checking" /\ \A u \in Transfers : u # t => q[u] = c.pc[u]
      BY <1>0 DEF Steps
<1>6. r \subseteq Transfers /\ a \subseteq Transfers
      BY <1>0
<1> HIDE DEF p, q, r, a
<1>7. StartTask(c, t) = IF t \in c.asks THEN [c EXCEPT !.pc = q] ELSE Transmit(c, t)
      BY DEF StartTask, q, Ctl
<1> DEFINE e == Transmit(c, t)
<1>8. e \in Ctl /\ e.rowStatus = c.rowStatus /\ e.queue = c.queue /\ e.pc = p
      BY <1>0, <1>2, <1>4, <1>6 DEF Ctl
<1> DEFINE f == [c EXCEPT !.pc = q]
<1>9. f \in Ctl /\ f.rowStatus = c.rowStatus /\ f.queue = c.queue /\ f.pc = q
      BY <1>5 DEF Ctl
<1> HIDE DEF e, f
<1>10. \A d : d = e \/ d = f => /\ d \in Ctl /\ d.rowStatus = c.rowStatus /\ d.queue = c.queue
                                /\ \A u \in Transfers : u # t => d.pc[u] = c.pc[u]
                                /\ d.pc[t] = "caching" => Kind[t] # "direct"
      BY <1>3, <1>4, <1>5, <1>8, <1>9
<1>11. StartTask(c, t) = e \/ StartTask(c, t) = f
      BY <1>7 DEF e, f
<1> QED BY <1>10, <1>11 DEF e

LEMMA DrainOneIs ==
    ASSUME NEW c, CtlOK(c), NEW t \in Transfers, c.rowStatus[t] # "none"
    PROVE  Drained(c, drainOne(c, t))
<1>0. /\ c \in Ctl /\ c.rowStatus \in [Transfers -> Statuses] /\ c.pc \in [Transfers -> Steps]
      /\ c.queue \in Seq(Transfers) /\ c.tasks \subseteq Transfers /\ c.running \subseteq Transfers
      BY DEF CtlOK, Ctl
<1> DEFINE q == Append(c.queue, t)
           d1 == [c EXCEPT !.queue = q]
           d2 == [c EXCEPT !.tasks = c.tasks \ {t}]
           s == updateRemoteFileTransfer(c.rowStatus, t, "running")
           b == [c EXCEPT !.running = c.running \cup {t}, !.rowStatus = s]
           d3 == StartTask(b, t)
<1>1. drainOne(c, t) = IF Cardinality(c.running) >= c.limit THEN d1
                       ELSE IF t \notin c.tasks \/ c.rowStatus[t] \notin Absent \cup {"queued"} THEN d2
                       ELSE d3
      BY DEF drainOne
<1>2. Drained(c, d1)
  <2>1. q \in Seq(Transfers) /\ \A i \in 1 .. Len(q) : c.rowStatus[q[i]] # "none"
    <3>1. Len(q) = Len(c.queue) + 1 /\ Len(c.queue) \in Nat /\ q[Len(q)] = t /\ q \in Seq(Transfers)
          /\ \A i \in 1 .. Len(c.queue) : q[i] = c.queue[i]
          BY <1>0
    <3> HIDE DEF q
    <3>2. \A i \in 1 .. Len(q) : i \in 1 .. Len(c.queue) \/ i = Len(q)
          BY <3>1
    <3> QED BY <3>1, <3>2 DEF CtlOK
  <2> HIDE DEF q
  <2>2. d1 \in Ctl /\ d1.queue = q /\ d1.rowStatus = c.rowStatus /\ d1.pc = c.pc
        BY <2>1, <1>0 DEF Ctl
  <2> HIDE DEF d1
  <2> QED BY <2>1, <2>2 DEF Drained, CtlOK
<1>3. Drained(c, d2)
  <2>2. d2 \in Ctl /\ d2.queue = c.queue /\ d2.rowStatus = c.rowStatus /\ d2.pc = c.pc
        BY <1>0 DEF Ctl
  <2> HIDE DEF d2
  <2> QED BY <2>2 DEF Drained, CtlOK
<1>4. ASSUME c.rowStatus[t] \in Absent \cup {"queued"} PROVE Drained(c, d3)
  <2>1. c.rowStatus[t] \in {"gone", "queued"}
        BY <1>4 DEF Absent
  <2>2. /\ s \in [Transfers -> Statuses]
        /\ \A u \in Transfers : s[u] = IF u = t /\ c.rowStatus[t] \notin Absent THEN "running" ELSE c.rowStatus[u]
        BY <1>0, UpdateIs DEF Statuses, ActiveStatuses
  <2>3. /\ s[t] \in {"running", "gone"}
        /\ \A u \in Transfers : u # t => s[u] = c.rowStatus[u]
        /\ s[t] = c.rowStatus[t] \/ (c.rowStatus[t] = "queued" /\ s[t] = "running")
        BY <2>1, <2>2 DEF Absent
  <2> HIDE DEF s
  <2>4. b \in Ctl /\ b.rowStatus = s /\ b.queue = c.queue /\ b.pc = c.pc
        BY <1>0, <2>2 DEF Ctl
  <2> HIDE DEF b
  <2>5. /\ d3 \in Ctl /\ d3.rowStatus = s /\ d3.queue = c.queue
        /\ \A u \in Transfers : u # t => d3.pc[u] = c.pc[u]
        /\ d3.pc[t] = "caching" => Kind[t] # "direct"
        BY <2>3, <2>4, StartTaskIs
  <2> HIDE DEF d3
  <2>6. \A u \in Transfers : s[u] = c.rowStatus[u] \/ (c.rowStatus[u] = "queued" /\ s[u] = "running")
        BY <2>3
  <2>7. \A i \in 1 .. Len(c.queue) : s[c.queue[i]] # "none"
    <3>1. \A i \in 1 .. Len(c.queue) : c.queue[i] \in Transfers /\ c.rowStatus[c.queue[i]] # "none"
          BY <1>0 DEF CtlOK
    <3> QED BY <3>1, <2>6
  <2>8. CtlOK(d3)
        BY <2>3, <2>5, <2>7 DEF CtlOK
  <2>9. \A u \in Transfers : d3.pc[u] = c.pc[u] \/ c.rowStatus[u] \in {"gone", "queued"}
        BY <2>1, <2>5
  <2> QED BY <2>5, <2>6, <2>8, <2>9 DEF Drained
<1> HIDE DEF d1, d2, d3
<1> QED BY <1>1, <1>2, <1>3, <1>4

DrainStep(g, c, n) == IF n = 0 THEN [c EXCEPT !.queue = <<>>] ELSE drainOne(g[n - 1], c.queue[n])

\* The loop of the drain has a result; as for Among.
LEMMA DrainFrom ==
    ASSUME NEW c, c.queue \in Seq(Transfers)
    PROVE  \E g : g = [n \in 0 .. Len(c.queue) |-> DrainStep(g, c, n)]
<1> DEFINE G(g, m) == g = [n \in 0 .. m |-> DrainStep(g, c, n)]
           T == {m \in 0 .. Len(c.queue) : \E g : G(g, m)}
<1>0. Len(c.queue) \in Nat
      OBVIOUS
<1>1. 0 \in T
  <2>1. G([n \in 0 .. 0 |-> [c EXCEPT !.queue = <<>>]], 0)
        BY DEF DrainStep
  <2> QED BY <2>1, <1>0
<1>2. ASSUME NEW m \in 1 .. Len(c.queue), m - 1 \in T PROVE m \in T
  <2>1. PICK g : G(g, m - 1)
        BY <1>2
  <2> DEFINE h == [n \in 0 .. m |-> IF n = m THEN DrainStep(g, c, m) ELSE g[n]]
  <2>2. \A n \in 0 .. m - 1 : h[n] = g[n] /\ g[n] = DrainStep(g, c, n)
        BY <2>1, <1>0
  <2>3. \A n \in 0 .. m - 1 : DrainStep(h, c, n) = DrainStep(g, c, n)
        BY <2>2, <1>0 DEF DrainStep
  <2>4. DrainStep(h, c, m) = DrainStep(g, c, m)
        BY <2>2, <1>0 DEF DrainStep
  <2>5. \A n \in 0 .. m : h[n] = DrainStep(h, c, n)
    <3>1. \A n \in 0 .. m : n = m \/ n \in 0 .. m - 1
          BY <1>0
    <3>2. h[m] = DrainStep(g, c, m)
          BY <1>0
    <3> HIDE DEF h
    <3> QED BY <2>2, <2>3, <2>4, <3>1, <3>2
  <2>6. G(h, m)
    <3>1. h = [n \in 0 .. m |-> h[n]]
          OBVIOUS
    <3> HIDE DEF h
    <3> QED BY <3>1, <2>5
  <2>7. \E k : G(k, m)
        BY <2>6
  <2> HIDE DEF G
  <2> QED BY <2>7, <1>0
<1> HIDE DEF T
<1>3. Len(c.queue) \in T
  <2>1. \A n \in 1 .. Len(c.queue) : n - 1 \in T => n \in T
        BY <1>2
  <2>2. \A n \in 0 .. Len(c.queue) : n \in T
        BY <1>0, <1>1, <2>1, UpTo
  <2> QED BY <1>0, <2>2
<1> QED BY <1>3 DEF T

LEMMA DrainIs == ASSUME NEW c, CtlOK(c) PROVE Drained(c, drainTransferQueue(c))
<1> DEFINE N == Len(c.queue)
<1>0. /\ c \in Ctl /\ c.queue \in Seq(Transfers) /\ N \in Nat
      /\ \A n \in 1 .. N : c.queue[n] \in Transfers /\ c.rowStatus[c.queue[n]] # "none"
      BY DEF CtlOK, Ctl
<1>1. PICK g : g = [n \in 0 .. N |-> DrainStep(g, c, n)] /\ drainTransferQueue(c) = g[N]
  <2>1. \E g : g = [n \in 0 .. N |-> DrainStep(g, c, n)]
        BY <1>0, DrainFrom
  <2> QED BY <2>1 DEF drainTransferQueue, DrainStep
<1>2. \A n \in 0 .. N : g[n] = DrainStep(g, c, n)
      BY <1>1
<1> DEFINE T == {n \in 0 .. N : Drained(c, g[n])}
<1>3. 0 \in T
  <2> DEFINE d == [c EXCEPT !.queue = <<>>]
  <2>1. g[0] = d
        BY <1>2, <1>0 DEF DrainStep
  <2>4. <<>> \in Seq(Transfers) /\ Len(<<>>) = 0
        OBVIOUS
  <2>2. d \in Ctl /\ d.rowStatus = c.rowStatus /\ d.pc = c.pc /\ d.queue = <<>>
        BY <1>0, <2>4 DEF Ctl
  <2> HIDE DEF d
  <2>3. Drained(c, d)
        BY <2>2, <2>4 DEF Drained, CtlOK
  <2> QED BY <2>1, <2>3, <1>0
<1>4. ASSUME NEW n \in 1 .. N, n - 1 \in T PROVE n \in T
  <2> DEFINE b == g[n - 1]
             t == c.queue[n]
             d == drainOne(b, t)
  <2>1. g[n] = d /\ n \in 0 .. N
    <3>1. n # 0 /\ n \in 0 .. N
          BY <1>0
    <3> QED BY <3>1, <1>2 DEF DrainStep
  <2>2. Drained(c, b) /\ CtlOK(b)
        BY <1>4 DEF Drained
  <2>3. t \in Transfers /\ c.rowStatus[t] # "none"
        BY <1>0
  <2> HIDE DEF b, t
  <2>4. b.rowStatus[t] # "none"
        BY <2>2, <2>3 DEF Drained
  <2>5. Drained(b, d)
        BY <2>2, <2>3, <2>4, DrainOneIs
  <2> HIDE DEF d
  <2>6. Drained(c, d)
        BY <2>2, <2>5 DEF Drained
  <2> QED BY <2>1, <2>6
<1> HIDE DEF T
<1>5. N \in T
  <2>1. \A n \in 1 .. N : n - 1 \in T => n \in T
        BY <1>4
  <2> HIDE DEF N
  <2>2. \A n \in 0 .. N : n \in T
        BY <1>0, <1>3, <2>1, UpTo
  <2> QED BY <1>0, <2>2
<1> QED BY <1>1, <1>5 DEF T

\* The steps of a row's life.
Goes(u, a, b) ==
    \/ a = b
    \/ <<a, b>> \in Rows!Life
    \/ Kind[u] # "direct" /\ a = "canceled" /\ b = "running"

RowsStep ==
    /\ rowStatus' \in [Transfers -> Statuses]
    /\ \A u \in Transfers : Goes(u, rowStatus[u], rowStatus'[u])

LEMMA GoesGone == ASSUME NEW u, NEW a \in Statuses, a # "none" PROVE Goes(u, a, "gone")
BY DEF Goes, Rows!Life, Rows!Begin, Rows!Finish, Rows!Forget, Rows!Drop, Rows!Ended, Statuses,
       FinishedStatuses, ActiveStatuses, Absent

LEMMA GoesRunning == ASSUME NEW u, NEW a, a \in {"none", "error", "queued"} PROVE Goes(u, a, "running")
BY DEF Goes, Rows!Life, Rows!Begin, Rows!Finish, Rows!Forget, Rows!Drop, Rows!Ended, Statuses,
       FinishedStatuses, ActiveStatuses, Absent

LEMMA GoesQueued == ASSUME NEW u, NEW a PROVE Goes(u, a, "queued") <=> a \in {"none", "error", "queued"}
BY DEF Goes, Rows!Life, Rows!Begin, Rows!Finish, Rows!Forget, Rows!Drop, Rows!Ended, Statuses,
       FinishedStatuses, ActiveStatuses, Absent

LEMMA GoneStays == ASSUME NEW u, NEW b, Goes(u, "gone", b) PROVE b = "gone"
BY DEF Goes, Rows!Life, Rows!Begin, Rows!Finish, Rows!Forget, Rows!Drop, Rows!Ended, Statuses,
       FinishedStatuses, ActiveStatuses, Absent

LEMMA GoesEnded ==
    ASSUME NEW u, NEW a, a \in {"queued", "running"}, NEW b, b \in {"success", "skipped", "error", "canceled"}
    PROVE  Goes(u, a, b)
BY DEF Goes, Rows!Life, Rows!Begin, Rows!Finish, Rows!Forget, Rows!Drop, Rows!Ended, Statuses,
       FinishedStatuses, ActiveStatuses, Absent

LEMMA SetRowsIs ==
    ASSUME NEW rows \in Seq(Transfers), NEW st \in [Transfers -> Statuses], SetRows(rows, st),
           \A i \in 1 .. Len(rows) : st[rows[i]] # "none"
    PROVE  /\ ItemsOK'
           /\ rowStatus' \in [Transfers -> Statuses]
           /\ \A u \in Transfers : \/ rowStatus'[u] = st[u]
                                   \/ /\ rowStatus'[u] = "gone" /\ st[u] # "none"
                                      /\ ~Kept(rows, st, u)
<1> DEFINE K == {t \in ToSet(rows) : Kept(rows, st, t)}
           kept == Among(rows, K)
           G == ToSet(rows) \ ToSet(kept)
<1>1. kept \in Seq(Transfers) /\ \A x : x \in ToSet(kept) <=> x \in ToSet(rows) /\ x \in K
      <2> HIDE DEF K
      <2> QED BY AmongIs
<1>2. items' = kept /\ rowStatus' = [t \in Transfers |-> IF t \in G THEN "gone" ELSE st[t]]
      BY DEF SetRows, trimTransferHistory
<1>3. \A x : x \in ToSet(rows) => \E i \in 1 .. Len(rows) : rows[i] = x
      BY DEF ToSet
<1>4. \A u \in Transfers : u \in G => ~Kept(rows, st, u) /\ st[u] # "none"
      BY <1>1, <1>3
<1> HIDE DEF K, kept
<1>5. \A i \in 1 .. Len(kept) : kept[i] \in ToSet(kept)
      BY <1>1 DEF ToSet
<1>6. \A i \in 1 .. Len(kept) : kept[i] \in Transfers /\ kept[i] \notin G /\ st[kept[i]] # "none"
      BY <1>1, <1>3, <1>5
<1> HIDE DEF G
<1>7. rowStatus' \in [Transfers -> Statuses]
      BY <1>2 DEF Statuses, Absent
<1>8. ItemsOK'
      BY <1>1, <1>2, <1>6 DEF ItemsOK
<1> QED BY <1>2, <1>4, <1>7, <1>8

\* A handler that did c0 to the state, drained the queue and stored the rows.
LEMMA BecomesOK ==
    ASSUME TransferInv, NEW c0, CtlOK(c0), NEW c, Drained(c0, c), NEW rows \in Seq(Transfers), Become(c, rows),
           \A i \in 1 .. Len(rows) : c0.rowStatus[rows[i]] # "none",
           \A u \in Transfers : /\ Goes(u, rowStatus[u], c0.rowStatus[u])
                                /\ rowStatus[u] = "none" => c0.rowStatus[u] \in ActiveStatuses \cup {"none"},
           prompt' = NoTransfer \/ (prompt' \in Transfers /\ (c0.pc[prompt'] = "asking" \/ rowStatus[prompt'] = "gone"))
    PROVE  CtlOK(Now)' /\ ItemsOK' /\ PromptOK' /\ RowsStep
<1> DEFINE st == c.rowStatus
<1>0. /\ c \in Ctl /\ st \in [Transfers -> Statuses] /\ c0.rowStatus \in [Transfers -> Statuses]
      /\ rowStatus \in [Transfers -> Statuses] /\ c.queue \in Seq(Transfers) /\ c.pc \in [Transfers -> Steps]
      BY DEF Drained, CtlOK, Ctl, TransferInv, Now
<1>1. /\ queue' = c.queue /\ tasks' = c.tasks /\ running' = c.running /\ limit' = c.limit
      /\ pc' = c.pc /\ asks' = c.asks /\ retry' = c.retry
      /\ SetRows(rows, st)
      BY DEF Become
<1>2. \A u \in Transfers : st[u] = c0.rowStatus[u] \/ (c0.rowStatus[u] = "queued" /\ st[u] = "running")
      BY DEF Drained
<1>3. \A i \in 1 .. Len(rows) : st[rows[i]] # "none"
  <2>1. \A i \in 1 .. Len(rows) : rows[i] \in Transfers
        OBVIOUS
  <2> QED BY <2>1, <1>2
<1> HIDE DEF st
<1>4. /\ ItemsOK'
      /\ rowStatus' \in [Transfers -> Statuses]
      /\ \A u \in Transfers : rowStatus'[u] = st[u] \/ (rowStatus'[u] = "gone" /\ st[u] # "none" /\ ~Kept(rows, st, u))
      BY <1>0, <1>1, <1>3, SetRowsIs
<1>5. \A u \in Transfers : st[u] \in ActiveStatuses => rowStatus'[u] = st[u]
      BY <1>4 DEF Kept
<1>6. \A u \in Transfers : Goes(u, rowStatus[u], rowStatus'[u])
  <2> SUFFICES ASSUME NEW u \in Transfers PROVE Goes(u, rowStatus[u], rowStatus'[u])
      OBVIOUS
  <2>1. rowStatus[u] \in Statuses
        BY <1>0
  <2>2. Goes(u, rowStatus[u], st[u])
    <3>1. CASE st[u] = c0.rowStatus[u]
          BY <3>1
    <3>2. CASE c0.rowStatus[u] = "queued" /\ st[u] = "running"
      <4>1. Goes(u, rowStatus[u], "queued")
            BY <3>2
      <4>2. rowStatus[u] \in {"none", "error", "queued"}
            BY <4>1, GoesQueued
      <4>3. Goes(u, rowStatus[u], "running")
            BY <4>2, GoesRunning
      <4> QED BY <4>3, <3>2
    <3> QED BY <3>1, <3>2, <1>2
  <2>3. CASE rowStatus[u] # "none"
    <3>1. Goes(u, rowStatus[u], "gone")
          BY <2>1, <2>3, GoesGone
    <3>2. rowStatus'[u] = st[u] \/ rowStatus'[u] = "gone"
          BY <1>4
    <3> QED BY <2>2, <3>1, <3>2
  <2>4. CASE rowStatus[u] = "none"
    <3>1. st[u] \in ActiveStatuses \cup {"none"}
          BY <2>4, <1>2 DEF ActiveStatuses
    <3>2. rowStatus'[u] = st[u]
          BY <3>1, <1>4, <1>5
    <3> QED BY <3>2, <2>2
  <2> QED BY <2>3, <2>4
<1>7. CtlOK(Now)'
  <2> DEFINE d == [queue |-> c.queue, tasks |-> c.tasks, running |-> c.running, limit |-> c.limit,
                   rowStatus |-> rowStatus', pc |-> c.pc, asks |-> c.asks, retry |-> c.retry]
  <2>1. Now' = d
        BY <1>1 DEF Now
  <2>2. d \in Ctl /\ d.queue = c.queue /\ d.pc = c.pc /\ d.rowStatus = rowStatus'
        BY <1>0, <1>4 DEF Ctl
  <2> HIDE DEF d
  <2>3. \A u \in Transfers : c.pc[u] # "idle" => st[u] \in {"running", "canceled", "gone"}
        BY DEF Drained, CtlOK, st
  <2>4. \A u \in Transfers : c.pc[u] = "caching" => Kind[u] # "direct"
        BY DEF Drained, CtlOK
  <2>5. \A i \in 1 .. Len(c.queue) : c.queue[i] \in Transfers /\ st[c.queue[i]] # "none"
        BY <1>0 DEF Drained, CtlOK, st
  <2>6. CtlOK(d)
        BY <2>2, <2>3, <2>4, <2>5, <1>4 DEF CtlOK
  <2> QED BY <2>1, <2>6 DEF CtlOK
<1>8. PromptOK'
  <2> SUFFICES ASSUME prompt' # NoTransfer, prompt' \in Transfers PROVE PromptOK'
      BY DEF PromptOK
  <2> DEFINE u == prompt'
  <2>1. CASE c0.rowStatus[u] = "gone"
    <3>1. rowStatus'[u] = "gone"
          BY <2>1, <1>2, <1>4
    <3> QED BY <3>1 DEF PromptOK
  <2>2. CASE c0.pc[u] = "asking" /\ c0.rowStatus[u] # "gone"
    <3>1. c0.rowStatus[u] \in {"running", "canceled", "gone"}
          BY <2>2 DEF CtlOK
    <3>2. c.pc[u] = c0.pc[u]
          BY <3>1, <2>2 DEF Drained
    <3> QED BY <3>2, <2>2, <1>1 DEF PromptOK
  <2>3. CASE rowStatus[u] = "gone"
    <3>1. c0.rowStatus[u] = "gone"
      <4>1. Goes(u, "gone", c0.rowStatus[u])
            BY <2>3
      <4> QED BY <4>1, GoneStays
    <3> QED BY <3>1, <2>1
  <2> QED BY <2>1, <2>2, <2>3
<1> QED BY <1>4, <1>6, <1>7, <1>8 DEF RowsStep

LEMMA GoesNone == ASSUME NEW u, NEW a, Goes(u, a, "none") PROVE a = "none"
BY DEF Goes, Rows!Life, Rows!Begin, Rows!Finish, Rows!Forget, Rows!Drop, Rows!Ended, Statuses,
       FinishedStatuses, ActiveStatuses, Absent

LEMMA GoesSame == ASSUME NEW u, NEW a PROVE Goes(u, a, a)
BY DEF Goes

LEMMA NowIs ==
    ASSUME TransferInv
    PROVE  /\ Now \in Ctl
           /\ queue \in Seq(Transfers) /\ tasks \subseteq Transfers /\ running \subseteq Transfers
           /\ limit \in Limits /\ rowStatus \in [Transfers -> Statuses] /\ pc \in [Transfers -> Steps]
           /\ asks \subseteq Transfers /\ retry \subseteq Transfers
           /\ items \in Seq(Transfers)
           /\ Now.queue = queue /\ Now.tasks = tasks /\ Now.running = running /\ Now.limit = limit
           /\ Now.rowStatus = rowStatus /\ Now.pc = pc /\ Now.asks = asks /\ Now.retry = retry
           /\ \A u \in Transfers : pc[u] # "idle" => rowStatus[u] \in {"running", "canceled", "gone"}
           /\ \A u \in Transfers : pc[u] = "caching" => Kind[u] # "direct"
           /\ \A i \in 1 .. Len(queue) : queue[i] \in Transfers /\ rowStatus[queue[i]] # "none"
           /\ \A i \in 1 .. Len(items) : items[i] \in Transfers /\ rowStatus[items[i]] # "none"
<1>1. Now \in Ctl
      BY DEF TransferInv, CtlOK
<1>2. /\ Now.queue = queue /\ Now.tasks = tasks /\ Now.running = running /\ Now.limit = limit
      /\ Now.rowStatus = rowStatus /\ Now.pc = pc /\ Now.asks = asks /\ Now.retry = retry
      BY DEF Now
<1>3. /\ queue \in Seq(Transfers) /\ tasks \subseteq Transfers /\ running \subseteq Transfers
      /\ limit \in Limits /\ rowStatus \in [Transfers -> Statuses] /\ pc \in [Transfers -> Steps]
      /\ asks \subseteq Transfers /\ retry \subseteq Transfers
      BY <1>1, <1>2 DEF Ctl
<1>4. /\ \A u \in Transfers : pc[u] # "idle" => rowStatus[u] \in {"running", "canceled", "gone"}
      /\ \A u \in Transfers : pc[u] = "caching" => Kind[u] # "direct"
      /\ \A i \in 1 .. Len(queue) : rowStatus[queue[i]] # "none"
      BY <1>2 DEF TransferInv, CtlOK
<1>5. items \in Seq(Transfers) /\ \A i \in 1 .. Len(items) : rowStatus[items[i]] # "none"
      BY DEF TransferInv, ItemsOK
<1> QED BY <1>1, <1>2, <1>3, <1>4, <1>5

\* A handler that touched the row and the task of one transfer, drained the queue or not,
\* and stored the rows, with a new one at their head or not.
LEMMA EditOK ==
    ASSUME TransferInv, NEW t \in Transfers, NEW d \in Ctl,
           \A u \in Transfers : u # t => d.rowStatus[u] = rowStatus[u] /\ d.pc[u] = pc[u],
           d.pc[t] # "idle" => d.rowStatus[t] \in {"running", "canceled", "gone"},
           d.pc[t] = "caching" => Kind[t] # "direct",
           Goes(t, rowStatus[t], d.rowStatus[t]),
           d.rowStatus[t] # "none",
           rowStatus[t] = "none" => d.rowStatus[t] \in ActiveStatuses,
           \A i \in 1 .. Len(d.queue) : d.queue[i] = t \/ \E j \in 1 .. Len(queue) : d.queue[i] = queue[j],
           NEW c, c = d \/ c = drainTransferQueue(d),
           NEW rows, rows = items \/ rows = <<t>> \o items,
           Become(c, rows),
           prompt' = NoTransfer \/ (prompt' = prompt /\ (pc[t] = "asking" => d.pc[t] = "asking"))
    PROVE  CtlOK(Now)' /\ ItemsOK' /\ PromptOK' /\ RowsStep
<1>1. \A i \in 1 .. Len(d.queue) : d.rowStatus[d.queue[i]] # "none"
  <2> SUFFICES ASSUME NEW i \in 1 .. Len(d.queue), d.queue[i] # t PROVE d.rowStatus[d.queue[i]] # "none"
      OBVIOUS
  <2>1. PICK j \in 1 .. Len(queue) : d.queue[i] = queue[j]
        OBVIOUS
  <2>2. queue[j] \in Transfers /\ rowStatus[queue[j]] # "none"
        BY NowIs
  <2> QED BY <2>1, <2>2
<1>2. CtlOK(d)
      BY <1>1, NowIs DEF CtlOK
<1>3. Drained(d, c)
  <2>1. Drained(d, d)
        BY <1>2 DEF Drained
  <2>2. Drained(d, drainTransferQueue(d))
        BY <1>2, DrainIs
  <2> QED BY <2>1, <2>2
<1>4. rows \in Seq(Transfers) /\ \A i \in 1 .. Len(rows) : d.rowStatus[rows[i]] # "none"
  <2>1. \A i \in 1 .. Len(items) : items[i] \in Transfers /\ d.rowStatus[items[i]] # "none"
        BY NowIs
  <2>2. CASE rows = items
        BY <2>1, <2>2, NowIs
  <2>3. CASE rows = <<t>> \o items
    <3>1. items \in Seq(Transfers) /\ Len(items) \in Nat
          BY NowIs
    <3>2. <<t>> \in Seq(Transfers) /\ Len(<<t>>) = 1 /\ <<t>>[1] = t
          OBVIOUS
    <3>3. rows \in Seq(Transfers) /\ Len(rows) = Len(items) + 1
          BY <2>3, <3>1, <3>2
    <3>4. \A i \in 1 .. Len(rows) : rows[i] = IF i = 1 THEN t ELSE items[i - 1]
          BY <2>3, <3>1, <3>2
    <3>5. \A i \in 1 .. Len(rows) : i = 1 \/ i - 1 \in 1 .. Len(items)
          BY <3>1, <3>3
    <3> QED BY <2>1, <3>3, <3>4, <3>5
  <2> QED BY <2>2, <2>3
<1>5. \A u \in Transfers : /\ Goes(u, rowStatus[u], d.rowStatus[u])
                           /\ rowStatus[u] = "none" => d.rowStatus[u] \in ActiveStatuses \cup {"none"}
  <2> SUFFICES ASSUME NEW u \in Transfers
               PROVE  /\ Goes(u, rowStatus[u], d.rowStatus[u])
                      /\ rowStatus[u] = "none" => d.rowStatus[u] \in ActiveStatuses \cup {"none"}
      OBVIOUS
  <2>1. Goes(u, rowStatus[u], rowStatus[u])
        BY GoesSame
  <2>2. CASE u # t
        BY <2>1, <2>2
  <2>3. CASE u = t
        BY <2>3
  <2> QED BY <2>2, <2>3
<1>6. \/ prompt' = NoTransfer
      \/ prompt' \in Transfers /\ (d.pc[prompt'] = "asking" \/ rowStatus[prompt'] = "gone")
  <2> SUFFICES ASSUME prompt' # NoTransfer
               PROVE  prompt' \in Transfers /\ (d.pc[prompt'] = "asking" \/ rowStatus[prompt'] = "gone")
      OBVIOUS
  <2>1. prompt' = prompt /\ (pc[t] = "asking" => d.pc[t] = "asking")
        OBVIOUS
  <2>2. prompt \in Transfers /\ (pc[prompt] = "asking" \/ rowStatus[prompt] = "gone")
        BY <2>1 DEF TransferInv, PromptOK
  <2>3. \A u \in Transfers : pc[u] = "asking" => d.pc[u] = "asking"
        BY <2>1
  <2> QED BY <2>1, <2>2, <2>3
<1> QED BY <1>2, <1>3, <1>4, <1>5, <1>6, BecomesOK

\* A task that ends leaves the other rows alone and moves its own along its life.
LEMMA TaskEndsOK ==
    ASSUME TransferInv, NEW t \in Transfers, NEW st \in [Transfers -> Statuses], TaskEnds(t, st),
           \A u \in Transfers : u # t => st[u] = rowStatus[u],
           Goes(t, rowStatus[t], st[t]), rowStatus[t] # "none",
           prompt' = NoTransfer \/ (prompt' = prompt /\ pc[t] # "asking")
    PROVE  CtlOK(Now)' /\ ItemsOK' /\ PromptOK' /\ RowsStep
<1> DEFINE p == [pc EXCEPT ![t] = "idle"]
           r == running \ {t}
           k == tasks \ {t}
           d == [Now EXCEPT !.rowStatus = st, !.pc = p, !.running = r, !.tasks = k]
<1>1. Become(drainTransferQueue(d), items)
      BY NowIs DEF TaskEnds
<1>2. p \in [Transfers -> Steps] /\ p[t] = "idle" /\ \A u \in Transfers : u # t => p[u] = pc[u]
      BY NowIs DEF Steps
<1>3. r \subseteq Transfers /\ k \subseteq Transfers
      BY NowIs
<1> HIDE DEF p, r, k
<1>4. d \in Ctl /\ d.rowStatus = st /\ d.pc = p /\ d.queue = queue
      BY <1>2, <1>3, NowIs DEF Ctl
<1> HIDE DEF d
<1>5. st[t] # "none"
      BY GoesNone
<1>6. \A i \in 1 .. Len(d.queue) : d.queue[i] = t \/ \E j \in 1 .. Len(queue) : d.queue[i] = queue[j]
      BY <1>4
<1> DEFINE c == drainTransferQueue(d)
<1>7. \A u \in Transfers : u # t => d.rowStatus[u] = rowStatus[u] /\ d.pc[u] = pc[u]
      BY <1>2, <1>4
<1>8. /\ d.pc[t] = "idle" /\ Goes(t, rowStatus[t], d.rowStatus[t]) /\ d.rowStatus[t] # "none"
      BY <1>2, <1>4, <1>5
<1>9. Become(c, items) /\ c = drainTransferQueue(d)
      BY <1>1
<1> HIDE DEF c
<1> QED BY <1>4, <1>6, <1>7, <1>8, <1>9, EditOK

\* How a task that is under way may leave its row.
LEMMA EndingIs ==
    ASSUME TransferInv, NEW t \in Transfers, rowStatus[t] \in {"running", "canceled", "gone"},
           NEW s \in {"success", "skipped", "error", "canceled"}
    PROVE  \A st \in {rowStatus, failTransfer(rowStatus, t, s), finishTransfer(rowStatus, t, s),
                      updateRemoteFileTransfer(rowStatus, t, "canceled")} :
               /\ st \in [Transfers -> Statuses]
               /\ \A u \in Transfers : u # t => st[u] = rowStatus[u]
               /\ Goes(t, rowStatus[t], st[t])
<1> DEFINE a == updateRemoteFileTransfer(rowStatus, t, s)
           b == updateRemoteFileTransfer(rowStatus, t, "canceled")
<1>0. rowStatus \in [Transfers -> Statuses] /\ s \in Statuses /\ "canceled" \in Statuses
      BY NowIs DEF Statuses, FinishedStatuses
<1>1. /\ a \in [Transfers -> Statuses]
      /\ \A u \in Transfers : a[u] = IF u = t /\ rowStatus[t] \notin Absent THEN s ELSE rowStatus[u]
      BY <1>0, UpdateIs
<1>2. /\ b \in [Transfers -> Statuses]
      /\ \A u \in Transfers : b[u] = IF u = t /\ rowStatus[t] \notin Absent THEN "canceled" ELSE rowStatus[u]
      BY <1>0, UpdateIs
<1> HIDE DEF a, b
<1>3. Goes(t, rowStatus[t], rowStatus[t])
      BY GoesSame
<1>4. rowStatus[t] = "running" => Goes(t, rowStatus[t], s)
      BY GoesEnded
<1>5. rowStatus[t] # "canceled" => Goes(t, rowStatus[t], a[t])
  <2>1. CASE rowStatus[t] = "running"
        BY <1>1, <1>4, <2>1 DEF Absent
  <2>2. CASE rowStatus[t] = "gone"
        BY <1>1, <1>3, <2>2 DEF Absent
  <2> QED BY <2>1, <2>2
<1>6. Goes(t, rowStatus[t], b[t])
  <2>1. CASE rowStatus[t] = "running"
    <3>1. Goes(t, rowStatus[t], "canceled")
          BY <2>1, GoesEnded
    <3> QED BY <1>2, <3>1, <2>1 DEF Absent
  <2>2. CASE rowStatus[t] \in {"gone", "canceled"}
        BY <1>2, <1>3, <2>2 DEF Absent
  <2> QED BY <2>1, <2>2
<1>7. /\ failTransfer(rowStatus, t, s) = IF rowStatus[t] = "canceled" THEN rowStatus ELSE a
      /\ finishTransfer(rowStatus, t, s) = IF rowStatus[t] \in {"canceled", "error"} THEN rowStatus ELSE a
      BY DEF failTransfer, finishTransfer, isTransferNoLongerActive, a
<1>8. /\ \A u \in Transfers : u # t => a[u] = rowStatus[u]
      /\ \A u \in Transfers : u # t => b[u] = rowStatus[u]
      BY <1>1, <1>2
<1>9. \A st \in {rowStatus, failTransfer(rowStatus, t, s), finishTransfer(rowStatus, t, s), b} :
          st = rowStatus \/ st = b \/ (st = a /\ rowStatus[t] # "canceled")
      BY <1>7
<1> QED BY <1>0, <1>1, <1>2, <1>3, <1>5, <1>6, <1>8, <1>9 DEF b

\* The row of a transfer that is being worked on is set to "running", and its task may go on.
LEMMA RunsOK ==
    ASSUME TransferInv, NEW t \in Transfers, Kind[t] # "direct", pc[t] \in {"caching", "invoked", "moving"},
           NEW d \in Ctl, d.rowStatus = updateRemoteFileTransfer(rowStatus, t, "running"),
           \A u \in Transfers : u # t => d.pc[u] = pc[u], d.queue = queue,
           Become(d, items), prompt' = prompt
    PROVE  CtlOK(Now)' /\ ItemsOK' /\ PromptOK' /\ RowsStep
<1> DEFINE st == updateRemoteFileTransfer(rowStatus, t, "running")
<1>3. rowStatus[t] \in {"running", "canceled", "gone"}
      BY NowIs
<1>4. /\ st \in [Transfers -> Statuses]
      /\ \A u \in Transfers : st[u] = IF u = t /\ rowStatus[t] \notin Absent THEN "running" ELSE rowStatus[u]
      BY NowIs, UpdateIs DEF Statuses, ActiveStatuses
<1>5. d.rowStatus = st
      OBVIOUS
<1> HIDE DEF st
<1>6. Goes(t, rowStatus[t], st[t]) /\ st[t] \in {"running", "gone"}
      BY <1>3, <1>4 DEF Goes, Absent
<1>7. \A u \in Transfers : u # t => d.rowStatus[u] = rowStatus[u] /\ d.pc[u] = pc[u]
      BY <1>4, <1>5
<1>8. \A i \in 1 .. Len(d.queue) : d.queue[i] = t \/ \E j \in 1 .. Len(queue) : d.queue[i] = queue[j]
      OBVIOUS
<1>9. /\ Goes(t, rowStatus[t], d.rowStatus[t]) /\ d.rowStatus[t] \in {"running", "canceled", "gone"}
      /\ d.rowStatus[t] # "none" /\ pc[t] # "asking" /\ rowStatus[t] # "none"
      BY <1>3, <1>5, <1>6
<1> QED BY <1>7, <1>8, <1>9, EditOK

LEMMA ResolvedOK ==
    ASSUME TransferInv, NEW t \in Transfers, ResolvedPolicy(t), rowStatus[t] \in {"running", "canceled", "gone"},
           prompt' = NoTransfer \/ (prompt' = prompt /\ pc[t] # "asking")
    PROVE  CtlOK(Now)' /\ ItemsOK' /\ PromptOK' /\ CallsOK' /\ RowsStep
<1>0. CallsOK'
      BY DEF ResolvedPolicy, CallsOK, TransferInv
<1>1. CASE isTransferNoLongerActive(t)
  <2>1. TaskEnds(t, rowStatus)
        BY <1>1 DEF ResolvedPolicy
  <2>2. Goes(t, rowStatus[t], rowStatus[t])
        BY GoesSame
  <2> QED BY <1>0, <2>1, <2>2, NowIs, TaskEndsOK
<1>2. CASE ~isTransferNoLongerActive(t)
  <2> DEFINE d == Transmit(Now, t)
  <2>1. Become(d, items)
        BY <1>2 DEF ResolvedPolicy
  <2>2. Now \in Ctl /\ Now.rowStatus = rowStatus /\ Now.pc = pc /\ Now.queue = queue
        BY NowIs
  <2>3. rowStatus[t] \in {"running", "gone"}
        BY <1>2 DEF isTransferNoLongerActive
  <2>4. /\ d \in Ctl /\ d.rowStatus = Now.rowStatus /\ d.queue = Now.queue
        /\ \A u \in Transfers : u # t => d.pc[u] = Now.pc[u]
        /\ d.pc[t] = "caching" => Kind[t] # "direct"
        BY <2>2, <2>3, StartTaskIs
  <2> HIDE DEF d
  <2>5. Goes(t, rowStatus[t], d.rowStatus[t])
    <3>1. Goes(t, rowStatus[t], rowStatus[t])
          BY GoesSame
    <3> QED BY <3>1, <2>2, <2>4
  <2>6. \A i \in 1 .. Len(d.queue) : d.queue[i] = t \/ \E j \in 1 .. Len(queue) : d.queue[i] = queue[j]
        BY <2>2, <2>4
  <2>7. /\ \A u \in Transfers : u # t => d.rowStatus[u] = rowStatus[u] /\ d.pc[u] = pc[u]
        /\ d.rowStatus[t] \in {"running", "canceled", "gone"} /\ d.rowStatus[t] # "none" /\ rowStatus[t] # "none"
        BY <2>2, <2>3, <2>4
  <2> QED BY <1>0, <2>1, <2>4, <2>5, <2>6, <2>7, EditOK
<1> QED BY <1>1, <1>2

\* What the queue is after one more transfer is put into it.
LEMMA EnqueueIs ==
    ASSUME TransferInv, NEW t \in Transfers, NEW c \in Ctl, c.queue = queue
    PROVE  LET q == IF t \in ToSet(c.queue) \cup c.running THEN c.queue ELSE Append(c.queue, t)
           IN  /\ q \in Seq(Transfers)
               /\ \A i \in 1 .. Len(q) : q[i] = t \/ \E j \in 1 .. Len(queue) : q[i] = queue[j]
<1> DEFINE a == Append(c.queue, t)
<1>1. queue \in Seq(Transfers) /\ Len(queue) \in Nat
      BY NowIs
<1>2. a \in Seq(Transfers) /\ Len(a) = Len(queue) + 1 /\ a[Len(queue) + 1] = t
      /\ \A i \in 1 .. Len(queue) : a[i] = queue[i]
      BY <1>1
<1> HIDE DEF a
<1>3. \A i \in 1 .. Len(a) : i \in 1 .. Len(queue) \/ i = Len(queue) + 1
      BY <1>1, <1>2
<1>4. \A i \in 1 .. Len(a) : a[i] = t \/ \E j \in 1 .. Len(queue) : a[i] = queue[j]
      BY <1>2, <1>3
<1> QED BY <1>1, <1>2, <1>4 DEF a

LEMMA QueuedOK ==
    ASSUME TransferInv, NEW t \in Transfers, rowStatus[t] \in {"none", "error"},
           NEW b \in Ctl, b.rowStatus = [rowStatus EXCEPT ![t] = "queued"],
           b.pc = pc, b.queue = queue, b.tasks = tasks,
           NEW rows, rows = items \/ rows = <<t>> \o items,
           Become(enqueueRemoteFileTransfer(b, t), rows),
           prompt' = prompt
    PROVE  CtlOK(Now)' /\ ItemsOK' /\ PromptOK' /\ RowsStep
<1> DEFINE st == [rowStatus EXCEPT ![t] = "queued"]
<1>2. st \in [Transfers -> Statuses] /\ st[t] = "queued" /\ \A u \in Transfers : u # t => st[u] = rowStatus[u]
      BY NowIs DEF Statuses, ActiveStatuses
<1>3. b \in Ctl /\ b.rowStatus = st /\ b.pc = pc /\ b.queue = queue /\ b.tasks = tasks
      OBVIOUS
<1> HIDE DEF st
<1> DEFINE q == IF t \in ToSet(b.queue) \cup b.running THEN b.queue ELSE Append(b.queue, t)
           k == tasks \cup {t}
           d == [b EXCEPT !.tasks = k, !.queue = q]
<1>4. enqueueRemoteFileTransfer(b, t) = drainTransferQueue(d)
      BY <1>3 DEF enqueueRemoteFileTransfer, Ctl
<1>5. q \in Seq(Transfers) /\ \A i \in 1 .. Len(q) : q[i] = t \/ \E j \in 1 .. Len(queue) : q[i] = queue[j]
      BY <1>3, EnqueueIs
<1>6. k \subseteq Transfers
      BY NowIs
<1> HIDE DEF q, k
<1>7. d \in Ctl /\ d.rowStatus = st /\ d.pc = pc /\ d.queue = q
      BY <1>3, <1>5, <1>6 DEF Ctl
<1> HIDE DEF d
<1>8. Goes(t, rowStatus[t], "queued")
      BY GoesQueued
<1>9. d.pc[t] = "idle"
      BY <1>7, NowIs
<1>10. /\ \A u \in Transfers : u # t => d.rowStatus[u] = rowStatus[u] /\ d.pc[u] = pc[u]
       /\ Goes(t, rowStatus[t], d.rowStatus[t]) /\ d.rowStatus[t] # "none"
       /\ d.rowStatus[t] \in ActiveStatuses /\ (pc[t] = "asking" => d.pc[t] = "asking")
       BY <1>2, <1>7, <1>8 DEF ActiveStatuses
<1>11. \A i \in 1 .. Len(d.queue) : d.queue[i] = t \/ \E j \in 1 .. Len(queue) : d.queue[i] = queue[j]
       BY <1>5, <1>7
<1> DEFINE c == drainTransferQueue(d)
<1>12. Become(c, rows) /\ c = drainTransferQueue(d)
       BY <1>4
<1> HIDE DEF c
<1> QED BY <1>7, <1>9, <1>10, <1>11, <1>12, EditOK

LEMMA CancelOK ==
    ASSUME TransferInv, NEW t \in Transfers, requestCancelTransfer(t)
    PROVE  CtlOK(Now)' /\ ItemsOK' /\ PromptOK' /\ CallsOK' /\ RowsStep
<1> DEFINE st == [rowStatus EXCEPT ![t] = "canceled"]
<1>0. CallsOK' /\ prompt' = prompt /\ rowStatus[t] \in {"queued", "running"}
      BY DEF requestCancelTransfer, CallsOK, TransferInv, ActiveStatuses
<1>1. st \in [Transfers -> Statuses] /\ st[t] = "canceled" /\ \A u \in Transfers : u # t => st[u] = rowStatus[u]
      BY NowIs DEF Statuses, FinishedStatuses
<1>2. Goes(t, rowStatus[t], "canceled")
      BY <1>0, GoesEnded
<1> DEFINE q == Among(queue, Transfers \ {t})
           k == tasks \ {t}
           d1 == [Now EXCEPT !.queue = q, !.tasks = k, !.rowStatus = st]
           d2 == [Now EXCEPT !.rowStatus = st]
<1>3. q \in Seq(Transfers) /\ \A i \in 1 .. Len(q) : \E j \in 1 .. Len(queue) : q[i] = queue[j]
  <2>1. queue \in Seq(Transfers)
        BY NowIs
  <2>2. q \in Seq(Transfers) /\ \A x : x \in ToSet(q) => x \in ToSet(queue)
        BY <2>1, AmongIs
  <2> HIDE DEF q
  <2>3. \A i \in 1 .. Len(q) : q[i] \in ToSet(q)
        BY <2>2 DEF ToSet
  <2>4. \A x \in ToSet(queue) : \E j \in 1 .. Len(queue) : x = queue[j]
        BY <2>1 DEF ToSet
  <2> QED BY <2>2, <2>3, <2>4
<1>4. k \subseteq Transfers
      BY NowIs
<1>5. Become(d1, items) \/ Become(d2, items)
      BY NowIs DEF requestCancelTransfer, dropQueuedTransfer
<1> HIDE DEF q, k, st
<1>6. /\ d1 \in Ctl /\ d1.rowStatus = st /\ d1.pc = pc /\ d1.queue = q
      /\ d2 \in Ctl /\ d2.rowStatus = st /\ d2.pc = pc /\ d2.queue = queue
      BY <1>1, <1>3, <1>4, NowIs DEF Ctl
<1> HIDE DEF d1, d2
<1>7. PICK d \in Ctl : d.rowStatus = st /\ d.pc = pc /\ (d.queue = q \/ d.queue = queue) /\ Become(d, items)
      BY <1>5, <1>6
<1>8. \A i \in 1 .. Len(d.queue) : d.queue[i] = t \/ \E j \in 1 .. Len(queue) : d.queue[i] = queue[j]
      BY <1>3, <1>7
<1>9. /\ \A u \in Transfers : u # t => d.rowStatus[u] = rowStatus[u] /\ d.pc[u] = pc[u]
      /\ Goes(t, rowStatus[t], d.rowStatus[t]) /\ d.rowStatus[t] # "none" /\ rowStatus[t] # "none"
      /\ d.rowStatus[t] \in {"running", "canceled", "gone"} /\ (pc[t] = "asking" => d.pc[t] = "asking")
      /\ d.pc[t] = "caching" => Kind[t] # "direct"
      BY <1>0, <1>1, <1>2, <1>7, NowIs
<1>10. CtlOK(Now)' /\ ItemsOK' /\ PromptOK' /\ RowsStep
       BY <1>0, <1>7, <1>8, <1>9, EditOK
<1> QED BY <1>0, <1>10

LEMMA SetLimitOK ==
    ASSUME TransferInv, NEW n \in Limits, SetLimit(n)
    PROVE  CtlOK(Now)' /\ ItemsOK' /\ PromptOK' /\ CallsOK' /\ RowsStep
<1> DEFINE d == [Now EXCEPT !.limit = n]
           c == drainTransferQueue(d)
<1>0. Become(c, items) /\ prompt' = prompt /\ CallsOK'
      BY DEF SetLimit, CallsOK, TransferInv
<1>1. d \in Ctl /\ d.rowStatus = rowStatus /\ d.pc = pc /\ d.queue = queue
      BY NowIs DEF Ctl
<1> HIDE DEF d
<1>2. CtlOK(d)
      BY <1>1, NowIs DEF CtlOK
<1>3. Drained(d, c)
      BY <1>2, DrainIs
<1> HIDE DEF c
<1>4. \A u \in Transfers : /\ Goes(u, rowStatus[u], d.rowStatus[u])
                           /\ rowStatus[u] = "none" => d.rowStatus[u] \in ActiveStatuses \cup {"none"}
  <2> SUFFICES ASSUME NEW u \in Transfers
               PROVE  /\ Goes(u, rowStatus[u], d.rowStatus[u])
                      /\ rowStatus[u] = "none" => d.rowStatus[u] \in ActiveStatuses \cup {"none"}
      OBVIOUS
  <2>1. Goes(u, rowStatus[u], rowStatus[u])
        BY GoesSame
  <2> QED BY <2>1, <1>1
<1>5. /\ items \in Seq(Transfers) /\ \A i \in 1 .. Len(items) : d.rowStatus[items[i]] # "none"
      /\ prompt' = NoTransfer \/ (prompt' \in Transfers /\ (d.pc[prompt'] = "asking" \/ rowStatus[prompt'] = "gone"))
      BY <1>0, <1>1, NowIs DEF TransferInv, PromptOK
<1>6. CtlOK(Now)' /\ ItemsOK' /\ PromptOK' /\ RowsStep
      BY <1>0, <1>2, <1>3, <1>4, <1>5, BecomesOK
<1> QED BY <1>0, <1>6

\* A step that changes rows only, and removes or leaves alone what had one.
LEMMA RowsOnly ==
    ASSUME TransferInv, ItemsOK', RowsStep, UNCHANGED <<running, limit, pc, asks, retry, prompt>>,
           tasks' \subseteq Transfers, queue' \in Seq(Transfers), \A i \in 1 .. Len(queue') : rowStatus'[queue'[i]] # "none",
           \A u \in Transfers : pc[u] # "idle" => rowStatus'[u] \in {rowStatus[u], "gone"}
    PROVE  CtlOK(Now)' /\ PromptOK'
<1> DEFINE d == [queue |-> queue', tasks |-> tasks', running |-> running, limit |-> limit,
                 rowStatus |-> rowStatus', pc |-> pc, asks |-> asks, retry |-> retry]
<1>1. Now' = d
      BY DEF Now
<1>2. d \in Ctl /\ d.queue = queue' /\ d.rowStatus = rowStatus' /\ d.pc = pc
      BY NowIs DEF Ctl, RowsStep
<1> HIDE DEF d
<1>3. CtlOK(d)
      BY <1>2, NowIs DEF CtlOK
<1>4. CtlOK(Now)'
      BY <1>1, <1>3 DEF CtlOK
<1>5. PromptOK'
      <2> SUFFICES ASSUME prompt \in Transfers, rowStatus[prompt] = "gone" PROVE rowStatus'[prompt] = "gone"
          BY DEF TransferInv, PromptOK
      <2>1. Goes(prompt, "gone", rowStatus'[prompt])
            BY DEF RowsStep
      <2> QED BY <2>1, GoneStays
<1> QED BY <1>4, <1>5

LEMMA PickerErrorOK ==
    ASSUME TransferInv, NEW t \in Transfers, showTransferPickerError(t)
    PROVE  CtlOK(Now)' /\ ItemsOK' /\ PromptOK' /\ CallsOK' /\ RowsStep
<1> DEFINE st == [rowStatus EXCEPT ![t] = "error"]
           rows == <<t>> \o items
<1>0. /\ rowStatus[t] = "none" /\ SetRows(rows, st)
      /\ UNCHANGED <<retry, asks, queue, tasks, running, limit, pc, prompt>> /\ CallsOK'
      BY DEF showTransferPickerError, CallsOK, TransferInv
<1>1. st \in [Transfers -> Statuses] /\ st[t] = "error" /\ \A u \in Transfers : u # t => st[u] = rowStatus[u]
      BY NowIs DEF Statuses
<1>2. items \in Seq(Transfers) /\ Len(items) \in Nat
      BY NowIs
<1>3. <<t>> \in Seq(Transfers) /\ Len(<<t>>) = 1 /\ <<t>>[1] = t
      OBVIOUS
<1>4. rows \in Seq(Transfers) /\ Len(rows) = Len(items) + 1
      BY <1>2, <1>3
<1>5. \A i \in 1 .. Len(rows) : rows[i] = IF i = 1 THEN t ELSE items[i - 1]
      BY <1>2, <1>3
<1> HIDE DEF rows, st
<1>6. \A i \in 1 .. Len(rows) : i = 1 \/ i - 1 \in 1 .. Len(items)
      BY <1>2, <1>4
<1>7. \A i \in 1 .. Len(items) : items[i] \in Transfers /\ st[items[i]] # "none"
      BY <1>1, NowIs
<1>8. \A i \in 1 .. Len(rows) : st[rows[i]] # "none"
      BY <1>1, <1>5, <1>6, <1>7
<1>9. Kept(rows, st, t)
  <2>1. DOMAIN rows = 1 .. Len(rows) /\ rows[1] = t
        BY <1>2, <1>4, <1>5
  <2>2. \A j \in DOMAIN rows : 1 \in 1 .. j
        BY <2>1, <1>2, <1>4
  <2>3. {j \in DOMAIN rows : \A k \in 1 .. j : rows[k] # t} = {}
        BY <2>1, <2>2
  <2>4. {u \in Newer(rows, t) : st[u] \in Class(st[t])} = {}
        BY <2>3 DEF Newer
  <2>5. Cardinality({}) = 0 /\ 0 < History
        BY FS_EmptySet, HistoryAssumption
  <2> QED BY <2>4, <2>5 DEF Kept
<1>10. /\ ItemsOK' /\ rowStatus' \in [Transfers -> Statuses]
       /\ \A u \in Transfers : \/ rowStatus'[u] = st[u]
                               \/ rowStatus'[u] = "gone" /\ st[u] # "none" /\ ~Kept(rows, st, u)
       BY <1>0, <1>1, <1>4, <1>8, SetRowsIs
<1>11. /\ rowStatus'[t] = "error"
       /\ \A u \in Transfers : u # t => rowStatus'[u] = rowStatus[u] \/ (rowStatus'[u] = "gone" /\ rowStatus[u] # "none")
       BY <1>1, <1>9, <1>10
<1>12. RowsStep
  <2> SUFFICES ASSUME NEW u \in Transfers PROVE Goes(u, rowStatus[u], rowStatus'[u])
      BY <1>10 DEF RowsStep
  <2>1. Goes(u, rowStatus[u], rowStatus[u])
        BY GoesSame
  <2>2. rowStatus[u] # "none" => Goes(u, rowStatus[u], "gone")
        BY GoesGone, NowIs
  <2>3. Goes(t, "none", "error")
        BY DEF Goes, Rows!Life, Rows!Begin
  <2> QED BY <1>0, <1>11, <2>1, <2>2, <2>3
<1>13. \A i \in 1 .. Len(queue) : rowStatus'[queue[i]] # "none"
       BY <1>0, <1>11, NowIs
<1>14. \A u \in Transfers : pc[u] # "idle" => rowStatus'[u] \in {rowStatus[u], "gone"}
       BY <1>0, <1>11, NowIs
<1>15. tasks' \subseteq Transfers /\ queue' \in Seq(Transfers)
       BY <1>0, NowIs
<1> QED BY <1>0, <1>10, <1>12, <1>13, <1>14, <1>15, RowsOnly

\* The steps that remove rows: of one transfer, or of all that finished.
LEMMA RemovedOK ==
    ASSUME TransferInv, NEW S, S \subseteq Transfers, \A u \in S : rowStatus[u] # "none",
           rowStatus' = [u \in Transfers |-> IF u \in S THEN "gone" ELSE rowStatus[u]],
           items' = Among(items, Transfers \ S),
           NEW R, queue' = queue \/ queue' = Among(queue, R),
           tasks' \subseteq Transfers, UNCHANGED <<retry, asks, running, limit, pc, prompt>>
    PROVE  CtlOK(Now)' /\ ItemsOK' /\ PromptOK' /\ RowsStep
<1>1. /\ rowStatus' \in [Transfers -> Statuses]
      /\ \A u \in Transfers : rowStatus'[u] = IF u \in S THEN "gone" ELSE rowStatus[u]
      BY NowIs DEF Statuses, Absent
<1>2. \A u \in Transfers : /\ rowStatus'[u] \in {rowStatus[u], "gone"}
                           /\ rowStatus[u] # "none" => rowStatus'[u] # "none"
      BY <1>1
<1>3. RowsStep
  <2> SUFFICES ASSUME NEW u \in Transfers PROVE Goes(u, rowStatus[u], rowStatus'[u])
      BY <1>1 DEF RowsStep
  <2>1. Goes(u, rowStatus[u], rowStatus[u])
        BY GoesSame
  <2>2. rowStatus[u] # "none" => Goes(u, rowStatus[u], "gone")
        BY GoesGone, NowIs
  <2> QED BY <1>1, <2>1, <2>2
<1>4. ASSUME NEW s \in Seq(Transfers), NEW P, \A i \in 1 .. Len(s) : s[i] \in Transfers /\ rowStatus[s[i]] # "none"
      PROVE  Among(s, P) \in Seq(Transfers) /\ \A i \in 1 .. Len(Among(s, P)) : rowStatus'[Among(s, P)[i]] # "none"
  <2> DEFINE a == Among(s, P)
  <2>1. a \in Seq(Transfers) /\ \A x : x \in ToSet(a) => x \in ToSet(s)
        BY AmongIs
  <2> HIDE DEF a
  <2>2. \A i \in 1 .. Len(a) : a[i] \in ToSet(a)
        BY <2>1 DEF ToSet
  <2>3. \A x \in ToSet(s) : \E j \in 1 .. Len(s) : x = s[j]
        BY DEF ToSet
  <2>4. \A i \in 1 .. Len(a) : a[i] \in Transfers /\ rowStatus[a[i]] # "none"
        BY <1>4, <2>1, <2>2, <2>3
  <2>5. a \in Seq(Transfers) /\ \A i \in 1 .. Len(a) : rowStatus'[a[i]] # "none"
        BY <2>1, <2>4, <1>2
  <2> QED BY <2>5 DEF a
<1>5. ItemsOK'
  <2>1. items' \in Seq(Transfers) /\ \A i \in 1 .. Len(items') : rowStatus'[items'[i]] # "none"
        BY <1>4, NowIs
  <2> QED BY <2>1 DEF ItemsOK
<1>6. queue' \in Seq(Transfers) /\ \A i \in 1 .. Len(queue') : rowStatus'[queue'[i]] # "none"
  <2>1. CASE queue' = queue
        BY <2>1, <1>2, NowIs
  <2>2. CASE queue' = Among(queue, R)
        BY <2>2, <1>4, NowIs
  <2> QED BY <2>1, <2>2
<1> QED BY <1>2, <1>3, <1>5, <1>6, RowsOnly

\* A step of the backend or of the prompt: the rows stay, the task of one transfer goes on.
LEMMA TaskOnly ==
    ASSUME TransferInv, NEW t \in Transfers, NEW x \in Steps, pc[t] \notin {"idle", "asking"}, x # "caching",
           pc' = [pc EXCEPT ![t] = x],
           UNCHANGED <<items, rowStatus, retry, asks, queue, tasks, running, limit>>,
           prompt' = prompt \/ (prompt' = t /\ x = "asking")
    PROVE  CtlOK(Now)' /\ ItemsOK' /\ PromptOK' /\ RowsStep
<1>1. pc' \in [Transfers -> Steps] /\ pc'[t] = x /\ \A u \in Transfers : u # t => pc'[u] = pc[u]
      BY NowIs
<1> DEFINE d == [queue |-> queue, tasks |-> tasks, running |-> running, limit |-> limit,
                 rowStatus |-> rowStatus, pc |-> pc', asks |-> asks, retry |-> retry]
<1>2. Now' = d
      BY DEF Now
<1>3. d \in Ctl /\ d.queue = queue /\ d.rowStatus = rowStatus /\ d.pc = pc'
      BY <1>1, NowIs DEF Ctl
<1> HIDE DEF d
<1>4. CtlOK(d)
      BY <1>1, <1>3, NowIs DEF CtlOK
<1>5. CtlOK(Now)'
      BY <1>2, <1>4 DEF CtlOK
<1>6. ItemsOK'
      BY DEF ItemsOK, TransferInv
<1>7. PromptOK'
  <2>1. CASE prompt' = t /\ x = "asking"
        BY <1>1, <2>1 DEF PromptOK
  <2>2. CASE prompt' = prompt
    <3>1. \A u \in Transfers : pc[u] = "asking" => pc'[u] = "asking"
          BY <1>1
    <3> QED BY <2>2, <3>1 DEF TransferInv, PromptOK
  <2> QED BY <2>1, <2>2
<1>8. RowsStep
  <2> SUFFICES ASSUME NEW u \in Transfers PROVE Goes(u, rowStatus[u], rowStatus'[u])
      BY NowIs DEF RowsStep
  <2>1. Goes(u, rowStatus[u], rowStatus[u])
        BY GoesSame
  <2> QED BY <2>1
<1> QED BY <1>5, <1>6, <1>7, <1>8

LEMMA UserOK ==
    ASSUME TransferInv, NEW t \in Transfers, User(t)
    PROVE  TransferInv' /\ RowsStep
<1>1. ASSUME NEW ask \in BOOLEAN, AddTransfer(t, ask) PROVE TransferInv' /\ RowsStep
  <2> DEFINE st == [rowStatus EXCEPT ![t] = "queued"]
             a == IF ask THEN asks \cup {t} ELSE asks
             b == [Now EXCEPT !.rowStatus = st, !.asks = a]
             rows == <<t>> \o items
  <2>1. st \in [Transfers -> Statuses] /\ a \subseteq Transfers
        BY NowIs DEF Statuses, ActiveStatuses
  <2>2. rowStatus[t] = "none" /\ prompt' = prompt /\ Become(enqueueRemoteFileTransfer(b, t), rows)
        BY <1>1, NowIs DEF AddTransfer
  <2>3. CallsOK'
        BY <1>1 DEF AddTransfer, CallsOK, TransferInv
  <2> HIDE DEF a
  <2>4. b \in Ctl /\ b.rowStatus = st /\ b.pc = pc /\ b.queue = queue /\ b.tasks = tasks
        BY <2>1, NowIs DEF Ctl
  <2> HIDE DEF b
  <2>6. rows = items \/ rows = <<t>> \o items
        OBVIOUS
  <2> HIDE DEF rows
  <2>5. CtlOK(Now)' /\ ItemsOK' /\ PromptOK' /\ RowsStep
        BY <2>2, <2>4, <2>6, QueuedOK
  <2> QED BY <2>3, <2>5 DEF TransferInv
<1>2. CASE showTransferPickerError(t)
      BY <1>2, PickerErrorOK DEF TransferInv
<1>3. CASE requestCancelTransfer(t)
      BY <1>3, CancelOK DEF TransferInv
<1>4. CASE retryRemoteFileTransfer(t)
  <2> DEFINE st == [rowStatus EXCEPT ![t] = "queued"]
             b == [Now EXCEPT !.rowStatus = st]
  <2>1. st \in [Transfers -> Statuses]
        BY NowIs DEF Statuses, ActiveStatuses
  <2>2. rowStatus[t] = "error" /\ prompt' = prompt /\ Become(enqueueRemoteFileTransfer(b, t), items)
        BY <1>4, NowIs DEF retryRemoteFileTransfer
  <2>3. CallsOK'
        BY <1>4 DEF retryRemoteFileTransfer, CallsOK, TransferInv
  <2>4. b \in Ctl /\ b.rowStatus = st /\ b.pc = pc /\ b.queue = queue /\ b.tasks = tasks
        BY <2>1, NowIs DEF Ctl
  <2> HIDE DEF b
  <2>5. CtlOK(Now)' /\ ItemsOK' /\ PromptOK' /\ RowsStep
        BY <2>2, <2>4, QueuedOK
  <2> QED BY <2>3, <2>5 DEF TransferInv
<1>5. CASE removeTransfer(t)
  <2>1. /\ rowStatus[t] # "none" /\ UNCHANGED <<retry, asks, running, limit, pc, prompt>>
        /\ rowStatus' = [rowStatus EXCEPT ![t] = "gone"] /\ items' = Among(items, Transfers \ {t})
        BY <1>5 DEF removeTransfer, FinishedStatuses
  <2>2. queue' = Among(queue, Transfers \ {t}) /\ tasks' = tasks \ {t}
        BY <1>5, NowIs DEF removeTransfer, dropQueuedTransfer, Ctl
  <2>3. rowStatus' = [u \in Transfers |-> IF u \in {t} THEN "gone" ELSE rowStatus[u]]
        BY <2>1, NowIs
  <2>4. tasks' \subseteq Transfers
        BY <2>2, NowIs
  <2>5. CallsOK'
        BY <1>5 DEF removeTransfer, CallsOK, TransferInv
  <2>6. CtlOK(Now)' /\ ItemsOK' /\ PromptOK' /\ RowsStep
        BY <2>1, <2>2, <2>3, <2>4, RemovedOK
  <2> QED BY <2>5, <2>6 DEF TransferInv
<1> QED BY <1>1, <1>2, <1>3, <1>4, <1>5 DEF User

LEMMA ClearOK ==
    ASSUME TransferInv, clearFinishedTransfers
    PROVE  TransferInv' /\ RowsStep
<1> DEFINE S == {u \in Transfers : rowStatus[u] \in FinishedStatuses}
<1>1. /\ UNCHANGED <<retry, asks, queue, tasks, running, limit, pc, prompt>>
      /\ items' = Among(items, {u \in Transfers : rowStatus[u] \notin FinishedStatuses})
      /\ rowStatus' = [u \in Transfers |-> IF rowStatus[u] \in FinishedStatuses THEN "gone" ELSE rowStatus[u]]
      BY DEF clearFinishedTransfers
<1>2. {u \in Transfers : rowStatus[u] \notin FinishedStatuses} = Transfers \ S
      OBVIOUS
<1>3. rowStatus' = [u \in Transfers |-> IF u \in S THEN "gone" ELSE rowStatus[u]]
      BY <1>1
<1>4. S \subseteq Transfers /\ \A u \in S : rowStatus[u] # "none"
      BY DEF FinishedStatuses
<1>5. CallsOK'
      BY DEF clearFinishedTransfers, CallsOK, TransferInv
<1>6. tasks' \subseteq Transfers
      BY <1>1, NowIs
<1> HIDE DEF S
<1>7. items' = Among(items, Transfers \ S)
      BY <1>1, <1>2
<1>8. CtlOK(Now)' /\ ItemsOK' /\ PromptOK' /\ RowsStep
      BY <1>1, <1>3, <1>4, <1>6, <1>7, RemovedOK
<1> QED BY <1>5, <1>8 DEF TransferInv

\* A task that is under way ends.
LEMMA EndsOK ==
    ASSUME TransferInv, NEW t \in Transfers, NEW s \in {"success", "skipped", "error", "canceled"}, NEW st,
           st \in {rowStatus, failTransfer(rowStatus, t, s), finishTransfer(rowStatus, t, s),
                   updateRemoteFileTransfer(rowStatus, t, "canceled")},
           rowStatus[t] \in {"running", "canceled", "gone"}, TaskEnds(t, st),
           prompt' = NoTransfer \/ (prompt' = prompt /\ pc[t] # "asking")
    PROVE  CtlOK(Now)' /\ ItemsOK' /\ PromptOK' /\ RowsStep
<1>1. /\ st \in [Transfers -> Statuses]
      /\ \A u \in Transfers : u # t => st[u] = rowStatus[u]
      /\ Goes(t, rowStatus[t], st[t])
      BY EndingIs
<1> QED BY <1>1, TaskEndsOK

LEMMA TaskOK ==
    ASSUME TransferInv, NEW t \in Transfers,
           Check(t) \/ CacheProgress(t) \/ Cache(t) \/ startTransferProgressPulse(t)
    PROVE  TransferInv' /\ RowsStep
<1> SUFFICES CtlOK(Now)' /\ ItemsOK' /\ PromptOK' /\ CallsOK' /\ RowsStep
    BY DEF TransferInv
<1>0. pc[t] # "idle" => rowStatus[t] \in {"running", "canceled", "gone"}
      BY NowIs
<1>1. CASE TargetIsFree(t)
  <2>1. pc[t] = "checking" /\ ResolvedPolicy(t) /\ prompt' = prompt
        BY <1>1 DEF TargetIsFree
  <2> QED BY <1>0, <2>1, ResolvedOK
<1>2. CASE TargetExists(t)
  <2>1. "asking" \in Steps /\ CallsOK'
        BY <1>2 DEF Steps, TargetExists, CallsOK, TransferInv
  <2> QED BY <1>2, <2>1, TaskOnly DEF TargetExists
<1>3. CASE CheckFails(t) \/ CacheFails(t)
  <2>1. /\ pc[t] \in {"checking", "caching"} /\ prompt' = prompt
        /\ TaskEnds(t, failTransfer(rowStatus, t, "error")) /\ CallsOK'
        BY <1>3 DEF CheckFails, CacheFails, CallsOK, TransferInv
  <2> QED BY <1>0, <2>1, EndsOK
<1>4. CASE CacheProgress(t) \/ CacheWritten(t) \/ startTransferProgressPulse(t)
  <2>1. pc[t] \in {"caching", "invoked", "moving"} /\ prompt' = prompt /\ CallsOK'
        BY <1>4 DEF CacheProgress, CacheWritten, startTransferProgressPulse, CallsOK, TransferInv
  <2>2. Kind[t] # "direct"
        BY <1>4, NowIs DEF CacheProgress, CacheWritten, startTransferProgressPulse
  <2> DEFINE st == updateRemoteFileTransfer(rowStatus, t, "running")
             p == [pc EXCEPT ![t] = "invoked"]
             d == [Now EXCEPT !.rowStatus = st]
             e == [Now EXCEPT !.rowStatus = st, !.pc = p]
  <2>3. Become(d, items) \/ Become(e, items)
        BY <1>4, NowIs DEF CacheProgress, CacheWritten, startTransferProgressPulse
  <2>4. st \in [Transfers -> Statuses] /\ p \in [Transfers -> Steps]
        /\ \A u \in Transfers : u # t => p[u] = pc[u]
        BY NowIs, UpdateIs DEF Statuses, ActiveStatuses, Steps
  <2> HIDE DEF p
  <2>5. /\ d \in Ctl /\ d.rowStatus = st /\ d.pc = pc /\ d.queue = queue
        /\ e \in Ctl /\ e.rowStatus = st /\ e.pc = p /\ e.queue = queue
    <3> HIDE DEF st
    <3> QED BY <2>4, NowIs DEF Ctl
  <2> HIDE DEF d, e
  <2>6. PICK c \in {d, e} : Become(c, items)
        BY <2>3
  <2>7. c \in Ctl /\ c.rowStatus = st /\ c.queue = queue /\ \A u \in Transfers : u # t => c.pc[u] = pc[u]
        BY <2>4, <2>5
  <2>8. CtlOK(Now)' /\ ItemsOK' /\ PromptOK' /\ RowsStep
        BY <2>1, <2>2, <2>6, <2>7, RunsOK
  <2> QED BY <2>1, <2>8
<1> QED BY <1>1, <1>2, <1>3, <1>4 DEF Check, Cache

LEMMA BackendOK ==
    ASSUME TransferInv, NEW t \in Transfers, register_transfer(t) \/ cancel_transfer(t) \/ Command(t)
    PROVE  TransferInv' /\ RowsStep
<1> SUFFICES CtlOK(Now)' /\ ItemsOK' /\ PromptOK' /\ CallsOK' /\ RowsStep
    BY DEF TransferInv
<1>0. /\ pc[t] # "idle" => rowStatus[t] \in {"running", "canceled", "gone"}
      /\ cancelling \subseteq Transfers /\ token \in [Transfers -> {"none", "live", "canceled"}]
      BY NowIs DEF TransferInv, CallsOK
<1>1. CASE register_transfer(t)
  <2>1. "moving" \in Steps /\ CallsOK'
        BY <1>0, <1>1 DEF Steps, register_transfer, CallsOK
  <2> QED BY <1>1, <2>1, TaskOnly DEF register_transfer
<1>2. CASE cancel_transfer(t)
  <2>1. UNCHANGED <<items, rowStatus, retry, asks, queue, tasks, running, limit, pc, prompt>> /\ CallsOK'
        BY <1>0, <1>2 DEF cancel_transfer, CallsOK
  <2>2. CtlOK(Now)'
    <3>1. Now' = Now
          BY <2>1 DEF Now
    <3> QED BY <3>1 DEF CtlOK, TransferInv
  <2>3. ItemsOK' /\ PromptOK'
        BY <2>1 DEF TransferInv, ItemsOK, PromptOK
  <2>4. RowsStep
    <3>1. \A u \in Transfers : Goes(u, rowStatus[u], rowStatus[u])
          BY GoesSame
    <3> QED BY <2>1, <3>1, NowIs DEF RowsStep
  <2> QED BY <2>1, <2>2, <2>3, <2>4
<1>3. ASSUME NEW r \in {"success", "skipped"}, CommandReturns(t, r)
      PROVE  CtlOK(Now)' /\ ItemsOK' /\ PromptOK' /\ CallsOK' /\ RowsStep
  <2>1. /\ pc[t] = "moving" /\ prompt' = prompt /\ TaskEnds(t, finishTransfer(rowStatus, t, r))
        BY <1>3 DEF CommandReturns
  <2>2. CallsOK'
        BY <1>0, <1>3 DEF CommandReturns, CallsOK
  <2> QED BY <1>0, <2>1, <2>2, EndsOK
<1>4. CASE CommandFails(t)
  <2> DEFINE s == IF token[t] = "canceled" THEN "canceled" ELSE "error"
  <2>1. /\ pc[t] \in {"invoked", "moving"} /\ prompt' = prompt /\ TaskEnds(t, failTransfer(rowStatus, t, s))
        BY <1>4 DEF CommandFails
  <2>2. CallsOK'
        BY <1>0, <1>4 DEF CommandFails, CallsOK
  <2>3. s \in {"success", "skipped", "error", "canceled"}
        OBVIOUS
  <2> HIDE DEF s
  <2> QED BY <1>0, <2>1, <2>2, <2>3, EndsOK
<1> QED BY <1>1, <1>2, <1>3, <1>4 DEF Command

LEMMA AnswerOK ==
    ASSUME TransferInv, NEW policy \in BOOLEAN, settleTransferConflictPrompt(policy)
    PROVE  TransferInv' /\ RowsStep
<1> SUFFICES CtlOK(Now)' /\ ItemsOK' /\ PromptOK' /\ CallsOK' /\ RowsStep
    BY DEF TransferInv
<1> DEFINE t == prompt
<1>1. prompt # NoTransfer /\ prompt' = NoTransfer
      BY DEF settleTransferConflictPrompt
<1>2. t \in Transfers /\ rowStatus[t] \in {"running", "canceled", "gone"}
      BY <1>1, NowIs DEF TransferInv, PromptOK
<1>3. CASE policy
      BY <1>1, <1>2, <1>3, ResolvedOK DEF settleTransferConflictPrompt
<1>4. CASE ~policy
  <2>1. TaskEnds(t, updateRemoteFileTransfer(rowStatus, t, "canceled")) /\ CallsOK'
        BY <1>4 DEF settleTransferConflictPrompt, CallsOK, TransferInv
  <2>2. "error" \in {"success", "skipped", "error", "canceled"}
        OBVIOUS
  <2> QED BY <1>1, <1>2, <2>1, <2>2, EndsOK
<1> QED BY <1>3, <1>4

LEMMA TransferStep ==
    ASSUME TransferInv, [TransferNext]_transferVars
    PROVE  TransferInv' /\ RowsStep
<1>1. CASE UNCHANGED transferVars
  <2>1. /\ UNCHANGED <<items, rowStatus, prompt, cancelling, token>> /\ Now' = Now
        BY <1>1 DEF transferVars, Now
  <2>5. CtlOK(Now)'
        BY <2>1 DEF TransferInv, CtlOK
  <2>6. ItemsOK' /\ PromptOK' /\ CallsOK'
        BY <1>1 DEF TransferInv, ItemsOK, PromptOK, CallsOK, transferVars
  <2>2. TransferInv'
        BY <2>5, <2>6 DEF TransferInv
  <2>3. \A u \in Transfers : Goes(u, rowStatus[u], rowStatus[u])
        BY GoesSame
  <2>4. RowsStep
        BY <2>1, <2>3, NowIs DEF RowsStep
  <2> QED BY <2>2, <2>4
<1>2. ASSUME NEW t \in Transfers, User(t) PROVE TransferInv' /\ RowsStep
      BY <1>2, UserOK
<1>3. ASSUME NEW t \in Transfers, Check(t) \/ CacheProgress(t) \/ Cache(t) \/ startTransferProgressPulse(t)
      PROVE  TransferInv' /\ RowsStep
      BY <1>3, TaskOK
<1>4. ASSUME NEW t \in Transfers, register_transfer(t) \/ cancel_transfer(t) \/ Command(t)
      PROVE  TransferInv' /\ RowsStep
      BY <1>4, BackendOK
<1>5. CASE Answer
      BY <1>5, AnswerOK DEF Answer
<1>6. CASE clearFinishedTransfers
      BY <1>6, ClearOK
<1>7. ASSUME NEW n \in Limits, SetLimit(n) PROVE TransferInv' /\ RowsStep
      BY <1>7, SetLimitOK DEF TransferInv
<1> QED BY <1>1, <1>2, <1>3, <1>4, <1>5, <1>6, <1>7 DEF TransferNext

LEMMA TransferBegins == ASSUME TransferInit PROVE TransferInv
<1>1. <<>> \in Seq(Transfers) /\ Len(<<>>) = 0
      OBVIOUS
<1>2. /\ rowStatus \in [Transfers -> Statuses] /\ pc \in [Transfers -> Steps] /\ limit \in Limits
      /\ \A u \in Transfers : pc[u] = "idle"
      /\ token \in [Transfers -> {"none", "live", "canceled"}]
      BY DEF TransferInit, Statuses, Steps, Absent
<1>3. queue = <<>> /\ items = <<>> /\ tasks = {} /\ running = {} /\ asks = {} /\ retry = {} /\ cancelling = {}
      /\ prompt = NoTransfer
      BY DEF TransferInit
<1>4. Now \in Ctl /\ Now.queue = queue /\ Now.pc = pc /\ Now.rowStatus = rowStatus
      BY <1>1, <1>2, <1>3 DEF Now, Ctl
<1>5. CtlOK(Now)
      BY <1>1, <1>2, <1>3, <1>4 DEF CtlOK
<1> QED BY <1>1, <1>2, <1>3, <1>5 DEF TransferInv, ItemsOK, PromptOK, CallsOK

LEMMA InTransferRow ==
    ASSUME RowsStep
    PROVE  Rows!Next
<1>1. Statuses = Rows!Ended \cup {"none", "queued", "running", "gone"}
      BY DEF Statuses, FinishedStatuses, ActiveStatuses, Absent, Rows!Ended
<1> QED BY <1>1 DEF RowsStep, Goes, Rows!Next

\* The transfers' variables keep their types: what the controller, the prompt and the
\* backend hold are transfers that were added.
THEOREM TransferTypes == TransferSpec => []TransferTypeOK
<1>1. TransferInit => TransferInv
      BY TransferBegins
<1>2. TransferInv /\ [TransferNext]_transferVars => TransferInv'
      BY TransferStep
<1>3. TransferInv => TransferTypeOK
      BY NowIs DEF TransferTypeOK, TransferInv, PromptOK, CallsOK, Statuses, Steps
<1> QED BY <1>1, <1>2, <1>3, PTL DEF TransferSpec

\* The queue, its tasks, the prompt and the backend implement the life of a row that the
\* panel promises (TransferRow): whatever interleaving, a row ends once, and only a cached
\* upload comes back from "canceled".
THEOREM TransferKeepsRowLife == TransferSpec => RowLife
<1>1. TransferInit => TransferInv /\ Rows!Init
      BY TransferBegins DEF TransferInit, Rows!Init
<1>2. TransferInv /\ [TransferNext]_transferVars => TransferInv' /\ [Rows!Next]_rowStatus
      BY TransferStep, InTransferRow
<1> QED BY <1>1, <1>2, PTL DEF TransferSpec, RowLife, Rows!Spec

-----------------------------------------------------------------------------
(* The tabs.                                                               *)

LEMMA EmptyIs ==
    ASSUME NEW A, NEW s \in Seq(A)
    PROVE  /\ s = <<>> <=> ToSet(s) = {}
           /\ ToSet(s) \subseteq A
           /\ s = <<>> => First(s) = Nil
           /\ s # <<>> => First(s) \in ToSet(s)
<1>1. Len(s) \in Nat /\ DOMAIN s = 1 .. Len(s)
      OBVIOUS
<1>2. s # <<>> => 1 \in 1 .. Len(s) /\ Head(s) = s[1]
      BY <1>1
<1>3. s = <<>> => ToSet(s) = {}
      BY DEF ToSet
<1>4. ToSet(s) \subseteq A /\ \A i \in 1 .. Len(s) : s[i] \in ToSet(s)
      BY DEF ToSet
<1> QED BY <1>2, <1>3, <1>4 DEF First

LEMMA CatIs ==
    ASSUME NEW A, NEW s \in Seq(A), NEW r \in Seq(A)
    PROVE  s \o r \in Seq(A) /\ ToSet(s \o r) = ToSet(s) \cup ToSet(r)
<1> DEFINE c == s \o r
<1>1. /\ Len(s) \in Nat /\ Len(r) \in Nat /\ c \in Seq(A) /\ Len(c) = Len(s) + Len(r)
      /\ \A i \in 1 .. Len(s) : c[i] = s[i]
      /\ \A i \in Len(s) + 1 .. Len(c) : c[i] = r[i - Len(s)]
      OBVIOUS
<1> HIDE DEF c
<1>2. \A i \in 1 .. Len(c) : i \in 1 .. Len(s) \/ (i \in Len(s) + 1 .. Len(c) /\ i - Len(s) \in 1 .. Len(r))
      BY <1>1
<1>4. ASSUME NEW i \in 1 .. Len(r) PROVE \E k \in 1 .. Len(c) : c[k] = r[i]
  <2> DEFINE k == i + Len(s)
  <2>1. k \in Len(s) + 1 .. Len(c) /\ k \in 1 .. Len(c) /\ k - Len(s) = i
        BY <1>1
  <2> HIDE DEF k
  <2>2. c[k] = r[i]
        BY <1>1, <2>1
  <2> QED BY <2>1, <2>2
<1>5. \A i \in 1 .. Len(s) : c[i] = s[i] /\ i \in 1 .. Len(c)
      BY <1>1
<1>6. \A x \in ToSet(c) : x \in ToSet(s) \cup ToSet(r)
      BY <1>1, <1>2 DEF ToSet
<1>7. \A x \in ToSet(s) : x \in ToSet(c)
      BY <1>5, <1>1 DEF ToSet
<1>8. \A x \in ToSet(r) : x \in ToSet(c)
  <2>1. DOMAIN r = 1 .. Len(r) /\ DOMAIN c = 1 .. Len(c)
        BY <1>1
  <2> SUFFICES ASSUME NEW x \in ToSet(r) PROVE x \in ToSet(c)
      OBVIOUS
  <2>2. PICK i \in 1 .. Len(r) : r[i] = x
        BY <2>1 DEF ToSet
  <2>3. PICK k \in 1 .. Len(c) : c[k] = r[i]
        BY <1>4
  <2> QED BY <2>1, <2>2, <2>3 DEF ToSet
<1> QED BY <1>1, <1>6, <1>7, <1>8 DEF c

LEMMA AppendIs ==
    ASSUME NEW A, NEW s \in Seq(A), NEW x \in A
    PROVE  Append(s, x) \in Seq(A) /\ ToSet(Append(s, x)) = ToSet(s) \cup {x}
<1> DEFINE c == Append(s, x)
<1>1. /\ Len(s) \in Nat /\ c \in Seq(A) /\ Len(c) = Len(s) + 1 /\ c[Len(s) + 1] = x
      /\ \A i \in 1 .. Len(s) : c[i] = s[i]
      OBVIOUS
<1> HIDE DEF c
<1>2. \A i \in 1 .. Len(c) : i \in 1 .. Len(s) \/ i = Len(s) + 1
      BY <1>1
<1>3. Len(s) + 1 \in 1 .. Len(c) /\ \A i \in 1 .. Len(s) : i \in 1 .. Len(c)
      BY <1>1
<1>4. \A y \in ToSet(c) : y \in ToSet(s) \cup {x}
      BY <1>1, <1>2 DEF ToSet
<1>5. \A y \in ToSet(s) : y \in ToSet(c)
      BY <1>1, <1>3 DEF ToSet
<1>6. x \in ToSet(c)
      BY <1>1, <1>3 DEF ToSet
<1> QED BY <1>1, <1>4, <1>5, <1>6 DEF c

\* An instance or a file of the connection is among S.
Has(S, c) == \E i \in S : Conn[i] = c

LEMMA WithoutIs ==
    ASSUME NEW A, NEW s \in Seq(A), NEW S
    PROVE  Without(s, S) \in Seq(A) /\ ToSet(Without(s, S)) = ToSet(s) \ S
<1> DEFINE R == ToSet(s) \ S
<1>1. Among(s, R) \in Seq(A) /\ \A x : x \in ToSet(Among(s, R)) <=> x \in ToSet(s) /\ x \in R
      <2> HIDE DEF R
      <2> QED BY AmongIs
<1> QED BY <1>1 DEF Without

LEMMA OfIs ==
    ASSUME NEW A, NEW s \in Seq(A), NEW c
    PROVE  /\ Of(s, c) \in Seq(A) /\ ToSet(Of(s, c)) = {i \in ToSet(s) : Conn[i] = c}
           /\ Of(s, c) = <<>> <=> ~Has(ToSet(s), c)
<1> DEFINE R == {i \in ToSet(s) : Conn[i] = c}
           o == Among(s, R)
<1>1. o \in Seq(A) /\ \A x : x \in ToSet(o) <=> x \in ToSet(s) /\ x \in R
      <2> HIDE DEF R
      <2> QED BY AmongIs
<1> HIDE DEF o
<1>2. o = <<>> <=> ToSet(o) = {}
      BY <1>1, EmptyIs
<1>3. Of(s, c) = o
      BY DEF Of, o
<1>4. ToSet(o) = R
      BY <1>1
<1> QED BY <1>1, <1>2, <1>3, <1>4 DEF Has

TabSets == [ssh : Seq(Ssh), local : Seq(Local), rdp : Seq(Rdp), vnc : Seq(Vnc), file : Seq(Files)]

\* How the pointers p fit the open terminals T, files F and local terminals L when there
\* are no desktops: the active connection has a terminal, and then the active tab is one of
\* them, or only files, and then the active file is one of them; a follow-up is open; and
\* the mode shows something open, unless only files are left.
View(p, T, F, L) ==
    /\ Has(T, p.conn) => p.tab \in T /\ Conn[p.tab] = p.conn
    /\ Has(F, p.conn) /\ ~Has(T, p.conn) => p.file \in F /\ Conn[p.file] = p.conn
    /\ T # {} => Has(T, p.conn) \/ Has(F, p.conn)
    /\ p.follow # Nil => p.follow \in L
    /\ p.mode \in {"home", "ssh", "local"}
    /\ p.mode = "local" /\ p.follow = Nil => p.local \in L \/ (T = {} /\ F # {})
    /\ p.mode = "ssh" /\ p.follow = Nil /\ T = {} => F # {}

LEMMA ConnIs == \A t \in Ssh : Conn[t] \in Conns
BY DEF Conns

LEMMA ActivateTerminalIs ==
    ASSUME NEW p \in Pointers, NEW t \in Ssh
    PROVE  LET q == activateTerminal(p, t)
           IN  /\ q \in Pointers /\ q.mode = "ssh" /\ q.conn = Conn[t] /\ q.tab = t /\ q.file = p.file
               /\ q.follow = p.follow /\ q.local = p.local
<1> DEFINE m == [p.last EXCEPT ![Conn[t]] = t]
           q == [p EXCEPT !.mode = "ssh", !.home = FALSE, !.conn = Conn[t], !.tab = t, !.last = m]
<1>1. activateTerminal(p, t) = q
      BY DEF activateTerminal, Pointers
<1>2. m \in [Conns -> Ssh \cup {Nil}] /\ Conn[t] \in Conns
      BY ConnIs DEF Pointers
<1> HIDE DEF m
<1>3. /\ q \in Pointers /\ q.mode = "ssh" /\ q.conn = Conn[t] /\ q.tab = t /\ q.file = p.file
      /\ q.follow = p.follow /\ q.local = p.local
      BY <1>2 DEF Pointers, Kinds
<1> HIDE DEF q
<1> QED BY <1>1, <1>3

LEMMA ActivateLocalIs ==
    ASSUME NEW p \in Pointers, NEW i \in Local
    PROVE  LET q == activate(p, i)
           IN  /\ q \in Pointers /\ q.mode = "local" /\ q.conn = p.conn /\ q.tab = p.tab /\ q.file = p.file
               /\ q.follow = p.follow /\ q.local = i
<1>1. activate(p, i) = [p EXCEPT !.mode = "local", !.home = FALSE, !.local = i]
      BY KindsAssumption DEF activate
<1> QED BY <1>1, ZenonT(40) DEF Pointers, Kinds

\* preferredTabForConnection finds a terminal of the connection when there is one.
LEMMA PreferredIs ==
    ASSUME tabs.ssh \in Seq(Ssh), NEW p, NEW c
    PROVE  LET t == preferredTabForConnection(p, c)
           IN  IF Has(ToSet(tabs.ssh), c) THEN t \in ToSet(tabs.ssh) /\ t \in Ssh /\ Conn[t] = c ELSE t = Nil
<1> DEFINE o == Of(tabs.ssh, c)
<1>1. /\ o \in Seq(Ssh) /\ ToSet(o) = {i \in ToSet(tabs.ssh) : Conn[i] = c}
      /\ o = <<>> <=> ~Has(ToSet(tabs.ssh), c)
      BY OfIs
<1>2. preferredTabForConnection(p, c) = IF p.last[c] \in ToSet(o) THEN p.last[c] ELSE First(o)
      BY DEF preferredTabForConnection
<1> HIDE DEF o
<1>3. /\ o = <<>> <=> ToSet(o) = {}
      /\ o = <<>> => First(o) = Nil
      /\ o # <<>> => First(o) \in ToSet(o)
      BY <1>1, EmptyIs
<1>4. ToSet(o) \subseteq Ssh
      BY <1>1, EmptyIs
<1>5. o # <<>> => preferredTabForConnection(p, c) \in ToSet(o)
      BY <1>2, <1>3
<1>6. o = <<>> => preferredTabForConnection(p, c) = Nil
      BY <1>2, <1>3
<1> QED BY <1>1, <1>4, <1>5, <1>6

LEMMA ActivateFileIs ==
    ASSUME tabs.ssh \in Seq(Ssh), NEW p \in Pointers, NEW f \in Files, Conn[f] \in Conns
    PROVE  LET q == activateFile(p, f)
           IN  /\ q \in Pointers /\ q.mode = "ssh" /\ q.conn = Conn[f] /\ q.file = f
               /\ q.follow = p.follow /\ q.local = p.local
               /\ Has(ToSet(tabs.ssh), Conn[f]) => q.tab \in ToSet(tabs.ssh) /\ Conn[q.tab] = Conn[f]
<1> DEFINE c == Conn[f]
           t == IF p.tab \in ToSet(Of(tabs.ssh, c)) THEN p.tab ELSE preferredTabForConnection(p, c)
           q == [p EXCEPT !.home = FALSE, !.mode = "ssh", !.conn = c, !.file = f]
           m == [p.last EXCEPT ![c] = t]
           r == [p EXCEPT !.home = FALSE, !.mode = "ssh", !.conn = c, !.file = f, !.tab = t, !.last = m]
<1>1. ToSet(Of(tabs.ssh, c)) = {i \in ToSet(tabs.ssh) : Conn[i] = c} /\ ToSet(tabs.ssh) \subseteq Ssh
      BY OfIs, EmptyIs
<1>2. IF Has(ToSet(tabs.ssh), c) THEN t \in ToSet(tabs.ssh) /\ t \in Ssh /\ Conn[t] = c ELSE t = Nil
  <2> DEFINE u == preferredTabForConnection(p, c)
  <2>1. IF Has(ToSet(tabs.ssh), c) THEN u \in ToSet(tabs.ssh) /\ u \in Ssh /\ Conn[u] = c ELSE u = Nil
        BY PreferredIs
  <2> HIDE DEF u
  <2> QED BY <1>1, <2>1 DEF Has, u
<1>3. activateFile(p, f) = IF t = Nil THEN q ELSE r
      BY DEF activateFile, Pointers
<1> HIDE DEF t
<1>4. q \in Pointers /\ q.mode = "ssh" /\ q.conn = c /\ q.file = f /\ q.follow = p.follow /\ q.local = p.local
      BY ZenonT(40) DEF Pointers, Kinds
<1>5. t # Nil => Has(ToSet(tabs.ssh), c) /\ t \in Ssh
      BY <1>2
<1>6. ASSUME t # Nil
      PROVE  r \in Pointers /\ r.mode = "ssh" /\ r.conn = c /\ r.file = f /\ r.follow = p.follow /\ r.local = p.local
             /\ r.tab = t
  <2>1. m \in [Conns -> Ssh \cup {Nil}]
        BY <1>5, <1>6 DEF Pointers
  <2> HIDE DEF m
  <2> QED BY <2>1, <1>5, <1>6 DEF Pointers, Kinds
<1> HIDE DEF q, r
<1>7. CASE t = Nil
  <2>1. ~Has(ToSet(tabs.ssh), c)
        BY <1>2, <1>7, NilAssumption
  <2> QED BY <1>3, <1>4, <1>7, <2>1
<1>8. CASE t # Nil
      BY <1>2, <1>3, <1>6, <1>8
<1> QED BY <1>7, <1>8

LEMMA ForgetIs ==
    ASSUME NEW p \in Pointers, NEW C
    PROVE  LET q == Forget(p, C)
           IN  /\ q \in Pointers /\ q.mode = p.mode /\ q.conn = p.conn /\ q.tab = p.tab /\ q.file = p.file
               /\ q.follow = p.follow /\ q.local = p.local
<1> DEFINE m == [c \in Conns |-> IF c \in C THEN Nil ELSE p.last[c]]
           q == [p EXCEPT !.last = m]
<1>1. Forget(p, C) = q
      BY DEF Forget, Pointers
<1>2. m \in [Conns -> Ssh \cup {Nil}]
      BY DEF Pointers
<1> HIDE DEF m
<1>3. /\ q \in Pointers /\ q.mode = p.mode /\ q.conn = p.conn /\ q.tab = p.tab /\ q.file = p.file
      /\ q.follow = p.follow /\ q.local = p.local
      BY <1>2 DEF Pointers
<1> HIDE DEF q
<1> QED BY <1>1, <1>3

LEMMA PruneIs ==
    ASSUME NEW p \in Pointers, NEW s
    PROVE  LET q == pruneOrder(p, s)
           IN  /\ q \in Pointers /\ q.mode = p.mode /\ q.conn = p.conn /\ q.tab = p.tab /\ q.file = p.file
               /\ q.follow = p.follow /\ q.local = p.local
<1> DEFINE m == Among(p.order, Instances(s))
           q == [p EXCEPT !.order = m]
<1>1. pruneOrder(p, s) = q
      BY DEF pruneOrder, Pointers
<1>2. m \in Seq(Ssh \cup Local \cup Rdp \cup Vnc)
  <2>1. p.order \in Seq(Ssh \cup Local \cup Rdp \cup Vnc)
        BY DEF Pointers
  <2> QED BY <2>1, AmongIs
<1> HIDE DEF m
<1>3. /\ q \in Pointers /\ q.mode = p.mode /\ q.conn = p.conn /\ q.tab = p.tab /\ q.file = p.file
      /\ q.follow = p.follow /\ q.local = p.local
      BY <1>2 DEF Pointers
<1> HIDE DEF q
<1> QED BY <1>1, <1>3

\* What a close leaves of the collections when there are no desktops.
Rest(s, T, F, L) ==
    /\ s \in TabSets /\ s.rdp = <<>> /\ s.vnc = <<>>
    /\ ToSet(s.ssh) = T /\ ToSet(s.file) = F /\ ToSet(s.local) = L
    /\ \A f \in F : Conn[f] \in Conns

LEMMA RestIs ==
    ASSUME NEW s, NEW T, NEW F, NEW L, Rest(s, T, F, L)
    PROVE  /\ s.ssh \in Seq(Ssh) /\ s.file \in Seq(Files) /\ s.local \in Seq(Local)
           /\ T \subseteq Ssh /\ F \subseteq Files /\ L \subseteq Local
           /\ s.ssh = <<>> <=> T = {}
           /\ s.file = <<>> <=> F = {}
           /\ s.local = <<>> <=> L = {}
           /\ workspaceEmpty(s) <=> T = {} /\ F = {} /\ L = {}
           /\ T = {} => First(s.ssh) = Nil
           /\ T # {} => First(s.ssh) \in T
           /\ F = {} => First(s.file) = Nil
           /\ F # {} => First(s.file) \in F
           /\ L = {} => fallbackRdpVncLocal(s) = Nil
           /\ L # {} => fallbackRdpVncLocal(s) \in L
<1>1. s.ssh \in Seq(Ssh) /\ s.file \in Seq(Files) /\ s.local \in Seq(Local) /\ s.rdp = <<>> /\ s.vnc = <<>>
      /\ DOMAIN s = {"ssh", "local", "rdp", "vnc", "file"}
      BY DEF Rest, TabSets
<1>2. ToSet(s.ssh) = T /\ ToSet(s.file) = F /\ ToSet(s.local) = L
      BY DEF Rest
<1>3. /\ T \subseteq Ssh /\ (s.ssh = <<>> <=> T = {})
      /\ T = {} => First(s.ssh) = Nil
      /\ T # {} => First(s.ssh) \in T
      BY <1>1, <1>2, EmptyIs
<1>4. /\ F \subseteq Files /\ (s.file = <<>> <=> F = {})
      /\ F = {} => First(s.file) = Nil
      /\ F # {} => First(s.file) \in F
      BY <1>1, <1>2, EmptyIs
<1>5. /\ L \subseteq Local /\ (s.local = <<>> <=> L = {})
      /\ L = {} => First(s.local) = Nil
      /\ L # {} => First(s.local) \in L
      BY <1>1, <1>2, EmptyIs
<1>6. workspaceEmpty(s) <=> s.ssh = <<>> /\ s.file = <<>> /\ s.local = <<>>
      BY <1>1 DEF workspaceEmpty
<1>7. fallbackRdpVncLocal(s) = First(s.local)
  <2>1. <<>> \o <<>> = <<>>
        OBVIOUS
  <2>2. <<>> \o s.local = s.local
        BY <1>1
  <2> QED BY <1>1, <2>1, <2>2 DEF fallbackRdpVncLocal
<1> QED BY <1>1, <1>3, <1>4, <1>5, <1>6, <1>7

\* The first of the connection's, or the first of all.
LEMMA OneOfIs ==
    ASSUME NEW A, NEW s \in Seq(A), NEW c
    PROVE  LET x == First(Of(s, c) \o s)
           IN  /\ ToSet(s) = {} => x = Nil
               /\ ToSet(s) # {} => x \in ToSet(s)
<1> DEFINE o == Of(s, c)
           u == o \o s
<1>1. o \in Seq(A) /\ ToSet(o) = {i \in ToSet(s) : Conn[i] = c}
      BY OfIs
<1> HIDE DEF o
<1>2. u \in Seq(A) /\ ToSet(u) = ToSet(o) \cup ToSet(s)
      BY <1>1, CatIs
<1> HIDE DEF u
<1>3. ToSet(u) = ToSet(s)
      BY <1>1, <1>2
<1>4. /\ u = <<>> <=> ToSet(u) = {}
      /\ u = <<>> => First(u) = Nil
      /\ u # <<>> => First(u) \in ToSet(u)
      BY <1>2, EmptyIs
<1>5. /\ ToSet(s) = {} => First(u) = Nil
      /\ ToSet(s) # {} => First(u) \in ToSet(s)
      BY <1>3, <1>4
<1> QED BY <1>5 DEF u, o

\* What every decision starts from: no follow-up, and home when nothing is left.
LEMMA QuietIs ==
    ASSUME NEW p \in Pointers, NEW s, NEW T, NEW F, NEW L, Rest(s, T, F, L)
    PROVE  LET q == [(IF workspaceEmpty(s) THEN HomePatch(p) ELSE p) EXCEPT !.follow = Nil]
           IN  /\ q \in Pointers /\ q.follow = Nil /\ q.file = p.file /\ q.local = p.local
               /\ IF T = {} /\ F = {} /\ L = {}
                  THEN q.mode = "home" /\ q.conn = Nil /\ q.tab = Nil
                  ELSE q.mode = p.mode /\ q.conn = p.conn /\ q.tab = p.tab
<1>1. workspaceEmpty(s) <=> T = {} /\ F = {} /\ L = {}
      BY RestIs
<1>2. CASE workspaceEmpty(s)
  <2> DEFINE q == [p EXCEPT !.conn = Nil, !.tab = Nil, !.home = TRUE, !.mode = "home", !.follow = Nil]
  <2>1. [(IF workspaceEmpty(s) THEN HomePatch(p) ELSE p) EXCEPT !.follow = Nil] = q
        BY <1>2 DEF HomePatch, Pointers
  <2>2. /\ q \in Pointers /\ q.follow = Nil /\ q.file = p.file /\ q.local = p.local
        /\ q.mode = "home" /\ q.conn = Nil /\ q.tab = Nil
        BY DEF Pointers
  <2> HIDE DEF q
  <2> QED BY <1>1, <1>2, <2>1, <2>2
<1>3. CASE ~workspaceEmpty(s)
  <2> DEFINE q == [p EXCEPT !.follow = Nil]
  <2>1. [(IF workspaceEmpty(s) THEN HomePatch(p) ELSE p) EXCEPT !.follow = Nil] = q
        BY <1>3
  <2>2. /\ q \in Pointers /\ q.follow = Nil /\ q.file = p.file /\ q.local = p.local
        /\ q.mode = p.mode /\ q.conn = p.conn /\ q.tab = p.tab
        BY DEF Pointers
  <2> HIDE DEF q
  <2> QED BY <1>1, <1>3, <2>1, <2>2
<1> QED BY <1>2, <1>3

Patch(p, t, d, g, w) == [p EXCEPT !.tab = t, !.conn = d, !.file = g, !.follow = w]

\* What Patch may write.
Fits(t, d, g, w) ==
    /\ t \in Ssh \cup {Nil} /\ d \in Conns \cup {Nil} /\ g \in Files \cup {Nil}
    /\ w \in Ssh \cup Local \cup Rdp \cup Vnc \cup {Nil}

LEMMA PatchIs ==
    ASSUME NEW p \in Pointers, NEW t, NEW d, NEW g, NEW w, Fits(t, d, g, w)
    PROVE  LET r == Patch(p, t, d, g, w)
           IN  /\ r \in Pointers
               /\ r.tab = t /\ r.conn = d /\ r.file = g /\ r.follow = w /\ r.mode = p.mode /\ r.local = p.local
<1> DEFINE W == Ssh \cup Local \cup Rdp \cup Vnc \cup {Nil}
           O == Seq(Ssh \cup Local \cup Rdp \cup Vnc)
           E == [Conns -> Ssh \cup {Nil}]
           P == [conn : Conns \cup {Nil}, tab : Ssh \cup {Nil}, local : Local \cup {Nil}, rdp : Rdp \cup {Nil},
                 vnc : Vnc \cup {Nil}, file : Files \cup {Nil}, mode : Kinds \cup {"home"}, home : BOOLEAN,
                 follow : W, last : E, order : O]
<1>1. Pointers = P
      BY DEF Pointers
<1>2. p \in P /\ t \in Ssh \cup {Nil} /\ d \in Conns \cup {Nil} /\ g \in Files \cup {Nil} /\ w \in W
      BY <1>1 DEF Fits
<1> HIDE DEF W, O, E
<1> DEFINE r == [p EXCEPT !.tab = t, !.conn = d, !.file = g, !.follow = w]
<1>3. /\ r \in P
      /\ r.tab = t /\ r.conn = d /\ r.file = g /\ r.follow = w /\ r.mode = p.mode /\ r.local = p.local
      BY <1>2, ZenonT(40)
<1> HIDE DEF r
<1> QED BY <1>1, <1>3 DEF Patch, r

LEMMA TerminalCloseIs ==
    ASSUME NEW p \in Pointers, NEW T, NEW F, NEW L, NEW X, NEW s, T \subseteq Ssh, View(p, T, F, L),
           p.follow = Nil, X \subseteq T, Rest(s, T \ X, F, L)
    PROVE  LET r == decideTerminalClose(p, X, s)
           IN  r \in Pointers /\ View(r, T \ X, F, L)
<1> DEFINE q == [(IF workspaceEmpty(s) THEN HomePatch(p) ELSE p) EXCEPT !.follow = Nil]
           U == T \ X
<1>0. U \subseteq Ssh /\ F \subseteq Files /\ L \subseteq Local /\ \A f \in F : Conn[f] \in Conns
      BY RestIs DEF Rest
<1>1. /\ q \in Pointers /\ q.follow = Nil /\ q.file = p.file /\ q.local = p.local
      /\ IF U = {} /\ F = {} /\ L = {}
         THEN q.mode = "home" /\ q.conn = Nil /\ q.tab = Nil
         ELSE q.mode = p.mode /\ q.conn = p.conn /\ q.tab = p.tab
      BY QuietIs
<1> HIDE DEF q
<1>2. CASE p.tab \in X
  <2> DEFINE c == Conn[p.tab]
             t == First(Of(s.ssh, c) \o s.ssh)
             f == First(Of(s.file, c) \o s.file)
             b == fallbackRdpVncLocal(s)
             r1 == [q EXCEPT !.tab = t, !.conn = Conn[t], !.last[Conn[t]] = t]
             r2 == [q EXCEPT !.tab = Nil, !.conn = ConnOf(f), !.file = IF f = Nil THEN @ ELSE f,
                             !.follow = IF f = Nil THEN b ELSE Nil]
  <2>1. decideTerminalClose(p, X, s) = IF t # Nil THEN r1 ELSE Forget(r2, {c})
        BY <1>2 DEF decideTerminalClose, q
  <2>2. /\ U = {} => t = Nil
        /\ U # {} => t \in U
    <3>1. s.ssh \in Seq(Ssh) /\ ToSet(s.ssh) = U
          BY RestIs DEF Rest
    <3> QED BY <3>1, OneOfIs
  <2>3. /\ F = {} => f = Nil
        /\ F # {} => f \in F
    <3>1. s.file \in Seq(Files) /\ ToSet(s.file) = F
          BY RestIs DEF Rest
    <3> QED BY <3>1, OneOfIs
  <2>4. /\ L = {} => b = Nil
        /\ L # {} => b \in L
        BY RestIs
  <2>5. Nil \notin U /\ Nil \notin F /\ Nil \notin L
        BY <1>0, NilAssumption
  <2> HIDE DEF t, f, b
  <2>6. CASE t # Nil
    <3>1. t \in U /\ t \in Ssh /\ Conn[t] \in Conns
          BY <2>2, <2>6, <1>0, ConnIs
    <3> DEFINE m == [q.last EXCEPT ![Conn[t]] = t]
    <3>2. m \in [Conns -> Ssh \cup {Nil}]
          BY <1>1, <3>1 DEF Pointers
    <3>3. r1 = [q EXCEPT !.tab = t, !.conn = Conn[t], !.last = m]
          BY <1>1 DEF Pointers
    <3> HIDE DEF m
    <3>4. r1 \in Pointers /\ r1.tab = t /\ r1.conn = Conn[t] /\ r1.follow = Nil /\ r1.mode = q.mode /\ r1.local = q.local
          BY <1>1, <3>1, <3>2, <3>3, ZenonT(40) DEF Pointers
    <3> HIDE DEF r1
    <3>5. q.mode = p.mode /\ q.local = p.local /\ T # {}
          BY <1>1, <1>2, <3>1
    <3>6. Has(U, r1.conn)
          BY <3>1, <3>4 DEF Has
    <3>7. View(r1, U, F, L)
          BY <3>1, <3>4, <3>5, <3>6 DEF View
    <3> QED BY <2>1, <2>6, <3>4, <3>7
  <2>7. CASE t = Nil
    <3> DEFINE d == ConnOf(f)
               g == IF f = Nil THEN q.file ELSE f
               w == IF f = Nil THEN b ELSE Nil
               r3 == Forget(r2, {c})
    <3>1. U = {}
          BY <2>2, <2>5, <2>7
    <3>2. d \in Conns \cup {Nil} /\ (f = Nil => d = Nil) /\ (f # Nil => d = Conn[f])
          BY <2>3, <1>0 DEF ConnOf
    <3>3. g \in Files \cup {Nil} /\ (f # Nil => g = f)
          BY <1>0, <1>1, <2>3 DEF Pointers
    <3>4. w \in Ssh \cup Local \cup Rdp \cup Vnc \cup {Nil} /\ (f = Nil => w = b) /\ (f # Nil => w = Nil)
          BY <1>0, <2>4
    <3>5. r2 = Patch(q, Nil, d, g, w)
          BY <1>1 DEF Pointers, Patch
    <3> HIDE DEF d, g, w
    <3> HIDE DEF r2
    <3>6. r2 \in Pointers /\ r2.tab = Nil /\ r2.conn = d /\ r2.file = g /\ r2.follow = w /\ r2.mode = q.mode
          /\ r2.local = q.local
      <4>1. q \in Pointers /\ Fits(Nil, d, g, w)
            BY <1>1, <3>2, <3>3, <3>4 DEF Fits
      <4> QED BY <4>1, <3>5, PatchIs
    <3>7. /\ r3 \in Pointers /\ r3.mode = q.mode /\ r3.conn = d /\ r3.file = g /\ r3.follow = w /\ r3.local = q.local
          BY <3>6, ForgetIs
    <3> HIDE DEF r3
    <3>8. ~Has(U, d)
          BY <3>1 DEF Has
    <3>9. View(r3, U, F, L)
      <4>1. CASE f = Nil
        <5>1. F = {} /\ ~Has(F, d)
              BY <4>1, <2>3, <2>5 DEF Has
        <5>2. CASE L = {}
              BY <5>1, <5>2, <3>1, <3>4, <3>7, <3>8, <1>1, <2>4, <4>1 DEF View
        <5>3. CASE L # {}
          <6>1. w \in L /\ w # Nil
                BY <5>3, <4>1, <3>4, <2>4, <2>5
          <6>2. q.mode \in {"home", "ssh", "local"}
                BY <1>1 DEF View
          <6> QED BY <6>1, <6>2, <5>1, <3>1, <3>7, <3>8 DEF View
        <5> QED BY <5>2, <5>3
      <4>2. CASE f # Nil
        <5>1. f \in F /\ F # {} /\ w = Nil /\ g = f /\ d = Conn[f]
              BY <4>2, <2>3, <3>2, <3>3, <3>4
        <5>2. q.mode \in {"home", "ssh", "local"}
              BY <1>1 DEF View
        <5> QED BY <5>1, <5>2, <3>1, <3>7, <3>8 DEF View
      <4> QED BY <4>1, <4>2
    <3> QED BY <2>1, <2>7, <3>7, <3>9 DEF r3
  <2> QED BY <2>6, <2>7
<1>3. CASE p.tab \notin X
  <2>1. Has(T, p.conn) => p.tab \in U /\ Conn[p.tab] = p.conn /\ Has(U, p.conn)
        BY <1>3 DEF View, Has
  <2>2. Has(U, p.conn) => Has(T, p.conn)
        BY DEF Has
  <2>3. decideTerminalClose(p, X, s) = q
    <3>1. ~((\E t \in X : Conn[t] = p.conn) /\ Of(s.ssh, p.conn) = <<>>)
      <4>1. (\E t \in X : Conn[t] = p.conn) => Has(T, p.conn)
            BY DEF Has
      <4>2. Of(s.ssh, p.conn) = <<>> <=> ~Has(U, p.conn)
        <5>1. s.ssh \in Seq(Ssh) /\ ToSet(s.ssh) = U
              BY RestIs DEF Rest
        <5> QED BY <5>1, OfIs
      <4> QED BY <4>1, <4>2, <2>1
    <3> QED BY <1>3, <3>1 DEF decideTerminalClose, q
  <2>4. View(q, U, F, L)
    <3>1. CASE U = {} /\ F = {} /\ L = {}
      <4>1. ~Has(U, q.conn) /\ ~Has(F, q.conn)
            BY <3>1 DEF Has
      <4> QED BY <1>1, <3>1, <4>1 DEF View
    <3>2. CASE ~(U = {} /\ F = {} /\ L = {})
      <4>1. q.mode = p.mode /\ q.conn = p.conn /\ q.tab = p.tab /\ q.file = p.file /\ q.local = p.local /\ q.follow = Nil
            BY <1>1, <3>2
      <4>2. U = {} => T = {} \/ F # {}
            BY <2>1 DEF View, Has
      <4>3. U # {} => T # {}
            OBVIOUS
      <4>4. U # {} => Has(U, p.conn) \/ Has(F, p.conn)
            BY <2>1, <4>3 DEF View
      <4>5. T = {} => U = {}
            OBVIOUS
      <4>6. Has(F, p.conn) /\ ~Has(U, p.conn) => p.file \in F /\ Conn[p.file] = p.conn
            BY <2>1 DEF View
      <4>7. p.mode = "local" => p.local \in L \/ (U = {} /\ F # {})
            BY <4>5 DEF View
      <4>8. p.mode = "ssh" /\ U = {} => F # {}
            BY <4>2 DEF View
      <4>9. p.mode \in {"home", "ssh", "local"}
            BY DEF View
      <4> HIDE DEF U
      <4> QED BY <2>1, <2>2, <4>1, <4>4, <4>6, <4>7, <4>8, <4>9 DEF View
    <3> QED BY <3>1, <3>2
  <2> QED BY <1>1, <2>3, <2>4
<1> QED BY <1>2, <1>3

\* p0 is what the pointers were, p what clearing the files of the connections C made of them.
LEMMA ConnectionCloseIs ==
    ASSUME NEW p0 \in Pointers, NEW p \in Pointers, NEW T, NEW F, NEW L, NEW C, NEW s, NEW variant,
           NEW U, U = {t \in T : Conn[t] \notin C}, NEW G, G = {f \in F : Conn[f] \notin C},
           T \subseteq Ssh, View(p0, T, F, L), p0.follow = Nil, \E t \in T : Conn[t] \in C, Rest(s, U, G, L),
           p.conn = p0.conn, p.tab = p0.tab, p.mode = p0.mode, p.local = p0.local,
           p0.file \in G => p.file = p0.file
    PROVE  LET r == decideConnectionClose(p, C, s, variant)
           IN  r \in Pointers /\ View(r, U, G, L)
<1> DEFINE q == [(IF workspaceEmpty(s) THEN HomePatch(p) ELSE p) EXCEPT !.follow = Nil]
           t == First(s.ssh)
           f == First(s.file)
           b == fallbackRdpVncLocal(s)
<1>0. /\ U \subseteq Ssh /\ G \subseteq Files /\ L \subseteq Local /\ \A g \in G : Conn[g] \in Conns
      /\ T # {} /\ ToSet(s.ssh) = U
      BY RestIs DEF Rest
<1>1. /\ q \in Pointers /\ q.follow = Nil /\ q.file = p.file /\ q.local = p.local
      /\ IF U = {} /\ G = {} /\ L = {}
         THEN q.mode = "home" /\ q.conn = Nil /\ q.tab = Nil
         ELSE q.mode = p.mode /\ q.conn = p.conn /\ q.tab = p.tab
      BY QuietIs
<1>2. /\ U = {} => t = Nil
      /\ U # {} => t \in U
      /\ G = {} => f = Nil
      /\ G # {} => f \in G
      /\ L = {} => b = Nil
      /\ L # {} => b \in L
      BY RestIs
<1>3. Nil \notin U /\ Nil \notin G /\ Nil \notin L
      BY <1>0, NilAssumption
<1>4. p.mode \in {"home", "ssh", "local"} /\ q.mode \in {"home", "ssh", "local"} /\ (p.mode = "local" => p.local \in L)
      BY <1>0, <1>1 DEF View
<1> DEFINE d == IF t # Nil THEN Conn[t] ELSE ConnOf(f)
           r0 == [q EXCEPT !.tab = t, !.conn = d]
           r1 == [r0 EXCEPT !.file = f]
           w == IF t = Nil THEN b ELSE Nil
           r2 == [r0 EXCEPT !.follow = w]
           r3 == [q EXCEPT !.tab = t]
<1>5. decideConnectionClose(p, C, s, variant)
        = IF p.conn \in C THEN IF f # Nil /\ (variant = "sessions" \/ t = Nil) THEN r1 ELSE r2
          ELSE IF variant = "delete" /\ p.tab \notin U THEN r3 ELSE q
      BY <1>0 DEF decideConnectionClose
<1> HIDE DEF q, t, f, b
<1>6. t \in Ssh \cup {Nil} /\ d \in Conns \cup {Nil} /\ f \in Files \cup {Nil}
      /\ w \in Ssh \cup Local \cup Rdp \cup Vnc \cup {Nil}
      BY <1>0, <1>2, ConnIs DEF ConnOf
<1>7. CASE p.conn \in C
  <2>1. r1 = Patch(q, t, d, f, Nil)
        BY <1>1 DEF Patch, Pointers
  <2>2. r2 = Patch(q, t, d, q.file, w)
        BY <1>1 DEF Patch, Pointers
  <2> DEFINE g == IF f # Nil /\ (variant = "sessions" \/ t = Nil) THEN f ELSE q.file
             v == IF f # Nil /\ (variant = "sessions" \/ t = Nil) THEN Nil ELSE w
             r == Patch(q, t, d, g, v)
  <2>3. decideConnectionClose(p, C, s, variant) = r
    <3> HIDE DEF r1, r2
    <3> QED BY <1>5, <1>7, <2>1, <2>2
  <2>4. g \in Files \cup {Nil} /\ v \in Ssh \cup Local \cup Rdp \cup Vnc \cup {Nil}
    <3>1. q.file \in Files \cup {Nil}
          BY <1>1 DEF Pointers
    <3> HIDE DEF w
    <3> QED BY <1>6, <3>1
  <2>5. U # {} => t \in U /\ d = Conn[t] /\ v = Nil
        BY <1>2, <1>3
  <2>6. U = {} /\ G # {} => f \in G /\ d = Conn[f] /\ g = f /\ v = Nil
        BY <1>2, <1>3 DEF ConnOf
  <2>7. U = {} /\ G = {} => d = Nil /\ v = b
        BY <1>2, <1>3 DEF ConnOf
  <2> HIDE DEF g, v, d
  <2>8. /\ r \in Pointers
        /\ r.tab = t /\ r.conn = d /\ r.file = g /\ r.follow = v /\ r.mode = q.mode /\ r.local = q.local
    <3>1. q \in Pointers /\ Fits(t, d, g, v)
          BY <1>1, <1>6, <2>4 DEF Fits
    <3> HIDE DEF w, r0, r1, r2, r3
    <3> QED BY <3>1, PatchIs
  <2> HIDE DEF r
  <2>9. CASE U # {}
    <3>1. Has(U, d) /\ q.mode = p.mode
          BY <1>1, <2>5, <2>9 DEF Has
    <3>2. View(r, U, G, L)
          BY <1>1, <1>4, <2>5, <2>8, <2>9, <3>1 DEF View
    <3> QED BY <2>3, <2>8, <3>2
  <2>10. CASE U = {} /\ G # {}
    <3>1. ~Has(U, d)
          BY <2>10 DEF Has
    <3>2. View(r, U, G, L)
          BY <1>1, <1>4, <2>6, <2>8, <2>10, <3>1 DEF View
    <3> QED BY <2>3, <2>8, <3>2
  <2>11. CASE U = {} /\ G = {}
    <3>1. ~Has(U, d) /\ ~Has(G, d)
          BY <2>11 DEF Has
    <3>2. CASE L = {}
      <4>1. View(r, U, G, L)
            BY <1>1, <1>2, <2>7, <2>8, <2>11, <3>1, <3>2 DEF View
      <4> QED BY <2>3, <2>8, <4>1
    <3>3. CASE L # {}
      <4>1. v \in L /\ v # Nil
            BY <1>2, <1>3, <2>7, <2>11, <3>3
      <4>2. View(r, U, G, L)
            BY <1>4, <2>8, <2>11, <3>1, <4>1 DEF View
      <4> QED BY <2>3, <2>8, <4>2
    <3> QED BY <3>2, <3>3
  <2> QED BY <2>9, <2>10, <2>11
<1>8. CASE p.conn \notin C
  <2>1. Has(T, p.conn) <=> Has(U, p.conn)
        BY <1>8 DEF Has
  <2>2. Has(F, p.conn) <=> Has(G, p.conn)
        BY <1>8 DEF Has
  <2>3. Has(U, p.conn) => p.tab \in U /\ Conn[p.tab] = p.conn
        BY <1>8, <2>1 DEF View
  <2>4. Has(G, p.conn) /\ ~Has(U, p.conn) => p.file \in G /\ Conn[p.file] = p.conn
        BY <1>8, <2>1, <2>2 DEF View
  <2>5. Has(U, p.conn) \/ Has(G, p.conn)
        BY <1>0, <2>1, <2>2 DEF View
  <2>6. Has(G, p.conn) => G # {}
        BY DEF Has
  <2>7. Has(U, p.conn) => U # {}
        BY DEF Has
  <2>8. q.mode = p.mode /\ q.conn = p.conn /\ q.tab = p.tab
        BY <1>1, <2>5, <2>6, <2>7
  <2>9. View(q, U, G, L)
        BY <1>1, <1>4, <2>3, <2>4, <2>5, <2>6, <2>7, <2>8 DEF View
  <2>10. r3 = Patch(q, t, q.conn, q.file, q.follow)
        BY <1>1 DEF Patch, Pointers
  <2>11. q.conn \in Conns \cup {Nil} /\ q.file \in Files \cup {Nil}
         /\ q.follow \in Ssh \cup Local \cup Rdp \cup Vnc \cup {Nil}
         BY <1>1 DEF Pointers
  <2> HIDE DEF r3
  <2>12. /\ r3 \in Pointers /\ r3.tab = t /\ r3.conn = q.conn /\ r3.file = q.file /\ r3.follow = q.follow
         /\ r3.mode = q.mode /\ r3.local = q.local
    <3> DEFINE e == q.conn
               g == q.file
               v == q.follow
    <3>1. q \in Pointers /\ Fits(t, e, g, v) /\ r3 = Patch(q, t, e, g, v)
          BY <1>1, <1>6, <2>10, <2>11 DEF Fits
    <3> HIDE DEF w, d, r0, r1, r2, e, g, v
    <3>2. /\ r3 \in Pointers /\ r3.tab = t /\ r3.conn = e /\ r3.file = g /\ r3.follow = v
          /\ r3.mode = q.mode /\ r3.local = q.local
          BY <3>1, PatchIs
    <3> QED BY <3>2 DEF e, g, v
  <2>13. p.tab \notin U => View(r3, U, G, L)
         BY <1>1, <1>4, <2>3, <2>4, <2>5, <2>6, <2>8, <2>12 DEF View
  <2>14. \/ decideConnectionClose(p, C, s, variant) = q
         \/ decideConnectionClose(p, C, s, variant) = r3 /\ p.tab \notin U
    <3> HIDE DEF r1, r2
    <3> QED BY <1>5, <1>8
  <2> QED BY <1>1, <2>9, <2>12, <2>13, <2>14
<1> QED BY <1>7, <1>8

LEMMA LocalCloseIs ==
    ASSUME NEW p \in Pointers, NEW T, NEW F, NEW L, NEW X, NEW s, View(p, T, F, L), p.follow = Nil,
           Rest(s, T, F, L \ X)
    PROVE  LET r == decideLocalClose(p, X, s)
           IN  r \in Pointers /\ View(r, T, F, L \ X)
<1> DEFINE q == [p EXCEPT !.follow = Nil]
           M == L \ X
           h == Head(s.local)
           r1 == [q EXCEPT !.local = h]
           r2 == [q EXCEPT !.local = Nil, !.home = TRUE, !.mode = "home"]
           r3 == [q EXCEPT !.local = Nil, !.mode = "ssh"]
           r4 == [q EXCEPT !.local = Nil, !.follow = First(s.rdp \o s.vnc)]
<1>0. /\ T \subseteq Ssh /\ F \subseteq Files /\ M \subseteq Local
      /\ s.ssh = <<>> <=> T = {}
      /\ s.local = <<>> <=> M = {}
      /\ workspaceEmpty(s) <=> T = {} /\ F = {} /\ M = {}
      BY RestIs
<1>1. M # {} => h \in M
  <2>1. s.local \in Seq(Local) /\ ToSet(s.local) = M
        BY RestIs DEF Rest
  <2>2. s.local # <<>> => First(s.local) \in M
        BY <2>1, EmptyIs
  <2> QED BY <1>0, <2>2 DEF First
<1>2. First(s.rdp \o s.vnc) = Nil
  <2>1. <<>> \o <<>> = <<>>
        OBVIOUS
  <2>2. s.rdp = <<>> /\ s.vnc = <<>>
        BY DEF Rest
  <2> QED BY <2>1, <2>2 DEF First
<1>3. /\ q \in Pointers /\ q.follow = Nil /\ q.file = p.file /\ q.local = p.local
      /\ q.mode = p.mode /\ q.conn = p.conn /\ q.tab = p.tab
      BY DEF Pointers
<1>4. decideLocalClose(p, X, s)
        = IF p.local \notin X THEN q ELSE IF M # {} THEN r1 ELSE IF T = {} /\ F = {} THEN r2
          ELSE IF T # {} THEN r3 ELSE r4
      BY <1>0 DEF decideLocalClose
<1> HIDE DEF q, M, h
<1>5. CASE p.local \notin X
  <2>1. View(q, T, F, M)
        BY <1>3, <1>5 DEF View, M
  <2> QED BY <1>3, <1>4, <1>5, <2>1 DEF M
<1>6. CASE p.local \in X /\ M # {}
  <2>1. h \in Local
        BY <1>0, <1>1, <1>6
  <2>2. /\ r1 \in Pointers /\ r1.follow = Nil /\ r1.file = p.file /\ r1.local = h
        /\ r1.mode = p.mode /\ r1.conn = p.conn /\ r1.tab = p.tab
        BY <1>3, <2>1, SMTT(30) DEF Pointers
  <2> HIDE DEF r1
  <2>3. View(r1, T, F, M)
        BY <1>1, <1>6, <2>2 DEF View
  <2> QED BY <1>4, <1>6, <2>2, <2>3 DEF M
<1>7. CASE p.local \in X /\ M = {} /\ T = {} /\ F = {}
  <2>1. /\ r2 \in Pointers /\ r2.follow = Nil /\ r2.mode = "home" /\ r2.file = p.file /\ r2.conn = p.conn /\ r2.tab = p.tab
        BY <1>3 DEF Pointers
  <2> HIDE DEF r2
  <2>2. View(r2, T, F, M)
        BY <1>7, <2>1 DEF View, Has
  <2> QED BY <1>4, <1>7, <2>1, <2>2 DEF M
<1>8. CASE p.local \in X /\ M = {} /\ T # {}
  <2>1. /\ r3 \in Pointers /\ r3.follow = Nil /\ r3.mode = "ssh" /\ r3.file = p.file /\ r3.conn = p.conn /\ r3.tab = p.tab
        BY <1>3, ZenonT(40) DEF Pointers, Kinds
  <2> HIDE DEF r3
  <2>2. View(r3, T, F, M)
        BY <1>8, <2>1 DEF View
  <2> QED BY <1>4, <1>8, <2>1, <2>2 DEF M
<1>9. CASE p.local \in X /\ M = {} /\ T = {} /\ F # {}
  <2>0. r4 = [q EXCEPT !.local = Nil, !.follow = Nil]
        BY <1>2
  <2>1. /\ r4 \in Pointers /\ r4.follow = Nil /\ r4.mode = p.mode /\ r4.file = p.file /\ r4.conn = p.conn /\ r4.tab = p.tab
        BY <1>3, <2>0, ZenonT(40) DEF Pointers
  <2> HIDE DEF r4
  <2>2. View(r4, T, F, M)
        BY <1>9, <2>1 DEF View
  <2> QED BY <1>4, <1>9, <2>1, <2>2 DEF M
<1> QED BY <1>5, <1>6, <1>7, <1>8, <1>9

\* The fallback after the last file of the view: another file, a terminal, or home.
LEMMA AfterFileCloseIs ==
    ASSUME tabs \in TabSets, tabs.rdp = <<>>, tabs.vnc = <<>>, NEW p \in Pointers, p.follow = Nil, NEW f,
           NEW rest \in Seq(Files), \A g \in ToSet(rest) : Conn[g] \in Conns
    PROVE  LET q == AfterFileClose(p, f, rest)
           IN  q \in Pointers /\ View(q, ToSet(tabs.ssh), ToSet(rest), ToSet(tabs.local))
<1> DEFINE T == ToSet(tabs.ssh)
           G == ToSet(rest)
           L == ToSet(tabs.local)
           g == First(Of(rest, Conn[f]) \o rest)
           t == IF p.tab \in T THEN p.tab
                ELSE LET u == IF p.conn = Nil THEN Nil ELSE preferredTabForConnection(p, p.conn)
                     IN IF u # Nil THEN u ELSE First(tabs.ssh)
           r == IF p.rdp # Nil THEN First(Among(tabs.rdp, {p.rdp})) ELSE First(tabs.rdp)
           v == IF p.vnc # Nil THEN First(Among(tabs.vnc, {p.vnc})) ELSE First(tabs.vnc)
           q == [p EXCEPT !.file = Nil]
           i == First(Without(<<t, r, v>>, {Nil}))
           h == [q EXCEPT !.conn = Nil, !.mode = "home", !.home = TRUE]
<1>1. AfterFileClose(p, f, rest) = IF g # Nil THEN activateFile(p, g) ELSE IF i # Nil THEN activate(q, i) ELSE h
      BY DEF AfterFileClose
<1>2. tabs.ssh \in Seq(Ssh) /\ T \subseteq Ssh /\ G \subseteq Files
      BY EmptyIs DEF TabSets
<1>3. /\ G = {} => g = Nil
      /\ G # {} => g \in G
      BY OneOfIs
<1>4. Nil \notin T /\ Nil \notin G
      BY <1>2, NilAssumption
<1>5. /\ T = {} => t = Nil
      /\ T # {} => t \in T
  <2> DEFINE u == preferredTabForConnection(p, p.conn)
  <2>1. u \in T \/ u = Nil
        BY <1>2, PreferredIs
  <2>2. /\ T = {} => First(tabs.ssh) = Nil
        /\ T # {} => First(tabs.ssh) \in T
        BY <1>2, EmptyIs
  <2> HIDE DEF u, T
  <2> QED BY <1>4, <2>1, <2>2 DEF u
<1>6. r = Nil /\ v = Nil
  <2>1. <<>> \in Seq({}) /\ First(<<>>) = Nil
        BY DEF First
  <2>2. \A S : Among(<<>>, S) = <<>>
    <3> SUFFICES ASSUME NEW S PROVE Among(<<>>, S) = <<>>
        OBVIOUS
    <3> DEFINE a == Among(<<>>, S)
    <3>1. a \in Seq({}) /\ \A x : x \in ToSet(a) <=> x \in ToSet(<<>>) /\ x \in S
          BY <2>1, AmongIs
    <3>2. ToSet(<<>>) = {}
          BY DEF ToSet
    <3> HIDE DEF a
    <3>3. ToSet(a) = {}
          BY <3>1, <3>2
    <3>4. a = <<>>
          BY <3>1, <3>3, EmptyIs
    <3> QED BY <3>4 DEF a
  <2> QED BY <2>1, <2>2
<1> HIDE DEF r, v
<1>7. IF T = {} THEN i = Nil ELSE i = t /\ i \in T
  <2> DEFINE A == Ssh \cup {Nil}
             b == <<t, r, v>>
             w == Without(b, {Nil})
  <2>1. t \in A /\ r \in A /\ v \in A
        BY <1>2, <1>5, <1>6
  <2> HIDE DEF A, t
  <2>2. b \in Seq(A) /\ ToSet(b) = {t, r, v}
    <3>1. b \in Seq(A) /\ Len(b) = 3 /\ b[1] = t /\ b[2] = r /\ b[3] = v
          BY <2>1
    <3>2. DOMAIN b = {1, 2, 3}
          BY <3>1
    <3> HIDE DEF b
    <3> QED BY <3>1, <3>2 DEF ToSet
  <2> HIDE DEF b
  <2>3. w \in Seq(A) /\ ToSet(w) = ToSet(b) \ {Nil}
        BY <2>2, WithoutIs
  <2> HIDE DEF w
  <2>4. /\ ToSet(w) = {} => First(w) = Nil
        /\ ToSet(w) # {} => First(w) \in ToSet(w)
        BY <2>3, EmptyIs
  <2>5. i = First(w)
        BY DEF w, b
  <2> HIDE DEF i
  <2>6. T = {} => ToSet(w) = {}
        BY <1>5, <1>6, <2>2, <2>3
  <2>7. T # {} => ToSet(w) = {t}
        BY <1>4, <1>5, <1>6, <2>2, <2>3
  <2> QED BY <1>5, <2>4, <2>5, <2>6, <2>7
<1> HIDE DEF T, G, L, g, i, t
<1>8. q \in Pointers /\ q.follow = Nil /\ q.local = p.local
      BY DEF Pointers
<1>9. CASE G # {}
  <2> DEFINE a == activateFile(p, g)
  <2>1. g \in G /\ g \in Files /\ g # Nil /\ Conn[g] \in Conns
        BY <1>2, <1>3, <1>4, <1>9 DEF G
  <2>2. /\ a \in Pointers /\ a.mode = "ssh" /\ a.conn = Conn[g] /\ a.file = g /\ a.follow = Nil
        /\ Has(T, Conn[g]) => a.tab \in T /\ Conn[a.tab] = Conn[g]
        BY <1>2, <2>1, ActivateFileIs DEF T
  <2> HIDE DEF a
  <2>3. Has(G, Conn[g])
        BY <2>1 DEF Has
  <2>4. View(a, T, G, L)
        BY <2>1, <2>2, <2>3 DEF View
  <2> QED BY <1>1, <2>1, <2>2, <2>4 DEF a, T, G, L
<1>10. CASE G = {} /\ T # {}
  <2> DEFINE a == activate(q, i)
  <2>1. i \in T /\ i \in Ssh /\ i # Nil
        BY <1>2, <1>4, <1>7, <1>10
  <2>2. a = activateTerminal(q, i)
        BY <2>1 DEF activate
  <2> HIDE DEF q
  <2>3. a \in Pointers /\ a.mode = "ssh" /\ a.conn = Conn[i] /\ a.tab = i /\ a.follow = Nil
        BY <1>8, <2>1, <2>2, ActivateTerminalIs
  <2> HIDE DEF a
  <2>4. Has(T, Conn[i])
        BY <2>1 DEF Has
  <2>5. View(a, T, G, L)
        BY <1>10, <2>1, <2>3, <2>4 DEF View
  <2> QED BY <1>1, <1>3, <1>10, <2>1, <2>3, <2>5 DEF a, T, G, L
<1>11. CASE G = {} /\ T = {}
  <2>1. h \in Pointers /\ h.mode = "home" /\ h.conn = Nil /\ h.follow = Nil
        BY ZenonT(40) DEF Pointers
  <2> HIDE DEF h
  <2>2. ~Has(T, Nil) /\ ~Has(G, Nil)
        BY <1>11 DEF Has
  <2>3. View(h, T, G, L)
        BY <1>11, <2>1, <2>2 DEF View
  <2> QED BY <1>1, <1>3, <1>7, <1>11, <2>1, <2>3 DEF T, G, L
<1> QED BY <1>9, <1>10, <1>11

\* The pointers p fit the collections s, none of which holds a desktop.
Sound(s, p) ==
    /\ Rest(s, ToSet(s.ssh), ToSet(s.file), ToSet(s.local))
    /\ p \in Pointers /\ View(p, ToSet(s.ssh), ToSet(s.file), ToSet(s.local))

LEMMA SshRest ==
    ASSUME NEW s, NEW T, NEW F, NEW L, Rest(s, T, F, L), NEW a \in Seq(Ssh)
    PROVE  LET r == [s EXCEPT !.ssh = a] IN Rest(r, ToSet(a), F, L) /\ r.ssh = a /\ r.file = s.file /\ r.local = s.local
<1> DEFINE r == [s EXCEPT !.ssh = a]
<1>1. /\ s \in TabSets /\ s.rdp = <<>> /\ s.vnc = <<>> /\ ToSet(s.file) = F /\ ToSet(s.local) = L
      /\ \A f \in F : Conn[f] \in Conns
      BY DEF Rest
<1>2. /\ r \in TabSets /\ r.rdp = s.rdp /\ r.vnc = s.vnc /\ r.ssh = a /\ r.file = s.file /\ r.local = s.local
      BY <1>1 DEF TabSets
<1> HIDE DEF r
<1>3. Rest(r, ToSet(a), F, L)
      BY <1>1, <1>2 DEF Rest
<1> QED BY <1>2, <1>3 DEF r

LEMMA LocalRest ==
    ASSUME NEW s, NEW T, NEW F, NEW L, Rest(s, T, F, L), NEW a \in Seq(Local)
    PROVE  LET r == [s EXCEPT !.local = a]
           IN  Rest(r, T, F, ToSet(a)) /\ r.ssh = s.ssh /\ r.file = s.file /\ r.local = a
<1> DEFINE r == [s EXCEPT !.local = a]
<1>1. /\ s \in TabSets /\ s.rdp = <<>> /\ s.vnc = <<>> /\ ToSet(s.file) = F /\ ToSet(s.ssh) = T
      /\ \A f \in F : Conn[f] \in Conns
      BY DEF Rest
<1>2. /\ r \in TabSets /\ r.rdp = s.rdp /\ r.vnc = s.vnc /\ r.ssh = s.ssh /\ r.file = s.file /\ r.local = a
      BY <1>1 DEF TabSets
<1> HIDE DEF r
<1>3. Rest(r, T, F, ToSet(a))
      BY <1>1, <1>2 DEF Rest
<1> QED BY <1>2, <1>3 DEF r

LEMMA FileRest ==
    ASSUME NEW s, NEW T, NEW F, NEW L, Rest(s, T, F, L), NEW a \in Seq(Files), \A f \in ToSet(a) : Conn[f] \in Conns
    PROVE  LET r == [s EXCEPT !.file = a]
           IN  Rest(r, T, ToSet(a), L) /\ r.ssh = s.ssh /\ r.file = a /\ r.local = s.local
<1> DEFINE r == [s EXCEPT !.file = a]
<1>1. /\ s \in TabSets /\ s.rdp = <<>> /\ s.vnc = <<>> /\ ToSet(s.local) = L /\ ToSet(s.ssh) = T
      BY DEF Rest
<1>2. /\ r \in TabSets /\ r.rdp = s.rdp /\ r.vnc = s.vnc /\ r.ssh = s.ssh /\ r.file = a /\ r.local = s.local
      BY <1>1 DEF TabSets
<1> HIDE DEF r
<1>3. Rest(r, T, ToSet(a), L)
      BY <1>1, <1>2 DEF Rest
<1> QED BY <1>2, <1>3 DEF r

LEMMA PrunedView ==
    ASSUME NEW p \in Pointers, NEW s, NEW T, NEW F, NEW L, View(p, T, F, L)
    PROVE  pruneOrder(p, s) \in Pointers /\ View(pruneOrder(p, s), T, F, L)
<1> DEFINE q == pruneOrder(p, s)
<1>1. /\ q \in Pointers /\ q.mode = p.mode /\ q.conn = p.conn /\ q.tab = p.tab /\ q.file = p.file
      /\ q.follow = p.follow /\ q.local = p.local
      BY PruneIs
<1> HIDE DEF q
<1>2. View(q, T, F, L)
      BY <1>1 DEF View
<1> QED BY <1>1, <1>2 DEF q

LEMMA TerminalTabsIs ==
    ASSUME Sound(tabs, ptr), ptr.follow = Nil, NEW S
    PROVE  LET x == closeTerminalTabs(State, S, tabs.file) IN Sound(x.tabs, x.ptr)
<1> DEFINE T == ToSet(tabs.ssh)
           F == ToSet(tabs.file)
           L == ToSet(tabs.local)
           a == Without(tabs.ssh, S)
           X == S \cap T
           rest == [tabs EXCEPT !.ssh = a]
           r == decideTerminalClose(ptr, X, rest)
<1>1. Rest(tabs, T, F, L) /\ ptr \in Pointers /\ View(ptr, T, F, L) /\ tabs \in TabSets
      BY DEF Sound, Rest
<1>2. tabs.ssh \in Seq(Ssh) /\ T \subseteq Ssh
      BY <1>1, RestIs
<1>3. a \in Seq(Ssh) /\ ToSet(a) = T \ S
      BY <1>2, WithoutIs
<1> HIDE DEF a
<1>4. Rest(rest, ToSet(a), F, L) /\ rest.ssh = a /\ rest.file = tabs.file /\ rest.local = tabs.local
      BY <1>1, <1>3, SshRest
<1>5. closeTerminalTabs(State, S, tabs.file) = [tabs |-> rest, ptr |-> pruneOrder(r, rest)]
  <2>1. [rest EXCEPT !.file = tabs.file] = rest
        BY <1>1, <1>4 DEF TabSets
  <2>2. State.tabs = tabs /\ State.ptr = ptr
        BY DEF State
  <2>3. rest = [tabs EXCEPT !.ssh = Without(@, S)]
        BY <1>1 DEF TabSets, a
  <2> QED BY <2>1, <2>2, <2>3 DEF closeTerminalTabs
<1>6. T \ X = ToSet(a) /\ X \subseteq T
      BY <1>3
<1> HIDE DEF X, rest
<1>7. r \in Pointers /\ View(r, T \ X, F, L)
  <2> HIDE DEF T, F, L
  <2>1. Rest(rest, T \ X, F, L)
        BY <1>4, <1>6
  <2> QED BY <1>1, <1>2, <1>6, <2>1, TerminalCloseIs
<1> HIDE DEF r
<1>8. pruneOrder(r, rest) \in Pointers /\ View(pruneOrder(r, rest), ToSet(a), F, L)
      BY <1>6, <1>7, PrunedView
<1>9. Sound(rest, pruneOrder(r, rest))
      BY <1>4, <1>8 DEF Sound
<1> QED BY <1>5, <1>9

LEMMA LocalTabsIs ==
    ASSUME Sound(tabs, ptr), ptr.follow = Nil, NEW S
    PROVE  LET x == closeLocalTerminalTabs(State, S, tabs.file) IN Sound(x.tabs, x.ptr)
<1> DEFINE T == ToSet(tabs.ssh)
           F == ToSet(tabs.file)
           L == ToSet(tabs.local)
           a == Without(tabs.local, S)
           rest == [tabs EXCEPT !.local = a]
           r == decideLocalClose(ptr, S, rest)
<1>1. Rest(tabs, T, F, L) /\ ptr \in Pointers /\ View(ptr, T, F, L) /\ tabs \in TabSets
      BY DEF Sound, Rest
<1>2. tabs.local \in Seq(Local)
      BY <1>1, RestIs
<1>3. a \in Seq(Local) /\ ToSet(a) = L \ S
      BY <1>2, WithoutIs
<1> HIDE DEF a
<1>4. Rest(rest, T, F, ToSet(a)) /\ rest.ssh = tabs.ssh /\ rest.file = tabs.file /\ rest.local = a
      BY <1>1, <1>3, LocalRest
<1>5. closeLocalTerminalTabs(State, S, tabs.file) = [tabs |-> rest, ptr |-> pruneOrder(r, rest)]
  <2>1. [rest EXCEPT !.file = tabs.file] = rest
        BY <1>1, <1>4 DEF TabSets
  <2>2. State.tabs = tabs /\ State.ptr = ptr
        BY DEF State
  <2>3. rest = [tabs EXCEPT !.local = Without(@, S)]
        BY <1>1 DEF TabSets, a
  <2> QED BY <2>1, <2>2, <2>3 DEF closeLocalTerminalTabs
<1> HIDE DEF rest
<1>7. r \in Pointers /\ View(r, T, F, L \ S)
  <2> HIDE DEF T, F, L
  <2>1. Rest(rest, T, F, L \ S)
        BY <1>3, <1>4
  <2> QED BY <1>1, <2>1, LocalCloseIs
<1> HIDE DEF r
<1>8. pruneOrder(r, rest) \in Pointers /\ View(pruneOrder(r, rest), T, F, ToSet(a))
      BY <1>3, <1>7, PrunedView
<1>9. Sound(rest, pruneOrder(r, rest))
      BY <1>4, <1>8 DEF Sound
<1> QED BY <1>5, <1>9

LEMMA ConnectionsIs ==
    ASSUME Sound(tabs, ptr), ptr.follow = Nil, NEW C, \E t \in ToSet(tabs.ssh) : Conn[t] \in C, NEW variant
    PROVE  LET x == closeConnections(State, C, tabs.file, variant) IN Sound(x.tabs, x.ptr)
<1> DEFINE T == ToSet(tabs.ssh)
           F == ToSet(tabs.file)
           L == ToSet(tabs.local)
           U == {t \in T : Conn[t] \notin C}
           G == {f \in F : Conn[f] \notin C}
           files == Among(tabs.file, G)
           p1 == [ptr EXCEPT !.file = IF @ \in ToSet(files) THEN @ ELSE Nil]
           t1 == [tabs EXCEPT !.file = files]
           y == [tabs |-> t1, ptr |-> p1]
           In == {i \in T : Conn[i] \in C}
           a == Without(tabs.ssh, In)
           rest == [t1 EXCEPT !.ssh = a]
           p2 == Forget(p1, C)
           r == decideConnectionClose(p2, C, rest, variant)
<1>1. /\ Rest(tabs, T, F, L) /\ ptr \in Pointers /\ View(ptr, T, F, L) /\ tabs \in TabSets
      /\ tabs.rdp = <<>> /\ tabs.vnc = <<>> /\ \A f \in F : Conn[f] \in Conns
      BY DEF Sound, Rest
<1>2. tabs.ssh \in Seq(Ssh) /\ tabs.file \in Seq(Files) /\ T \subseteq Ssh
      BY <1>1, RestIs
<1>3. files \in Seq(Files) /\ ToSet(files) = G
  <2>1. files \in Seq(Files) /\ \A z : z \in ToSet(files) <=> z \in ToSet(tabs.file) /\ z \in G
    <3> HIDE DEF G
    <3> QED BY <1>2, AmongIs
  <2> HIDE DEF files
  <2> QED BY <2>1
<1>4. a \in Seq(Ssh) /\ ToSet(a) = U
  <2>1. a \in Seq(Ssh) /\ ToSet(a) = T \ In
        BY <1>2, WithoutIs
  <2> QED BY <2>1
<1>5. clearRemoteFileSessionState(State, C) = y
      BY DEF clearRemoteFileSessionState, State
<1> HIDE DEF files, a
<1>6. /\ Rest(t1, T, ToSet(files), L) /\ t1.ssh = tabs.ssh /\ t1.file = files /\ t1.local = tabs.local
      BY <1>1, <1>3, FileRest
<1> HIDE DEF t1
<1>7. Rest(rest, U, G, L) /\ rest.ssh = a /\ rest.file = files /\ rest.local = tabs.local
  <2>1. Rest(rest, ToSet(a), ToSet(files), L) /\ rest.ssh = a /\ rest.file = t1.file /\ rest.local = t1.local
        BY <1>4, <1>6, SshRest
  <2> QED BY <1>3, <1>4, <1>6, <2>1
<1>8. closeConnections(State, C, tabs.file, variant) = [tabs |-> rest, ptr |-> pruneOrder(r, rest)]
  <2>1. {i \in ToSet(State.tabs["rdp"]) : Conn[i] \in C} = {} /\ {i \in ToSet(State.tabs["vnc"]) : Conn[i] \in C} = {}
        BY <1>1 DEF State, ToSet
  <2>2. {i \in ToSet(State.tabs["ssh"]) : Conn[i] \in C} = In
        BY DEF State
  <2>3. rest = [y.tabs EXCEPT !.ssh = Without(@, In)] /\ y.ptr = p1
        BY <1>6 DEF a, t1
  <2> HIDE DEF y
  <2>4. \A k, z, seen : closeDesktops(k, z, {}, seen) = z
        BY DEF closeDesktops
  <2> HIDE DEF In, rest, p1
  <2> QED BY <1>5, <2>1, <2>2, <2>3, <2>4 DEF closeConnections
<1>9. /\ p1 \in Pointers /\ p1.mode = ptr.mode /\ p1.conn = ptr.conn /\ p1.tab = ptr.tab /\ p1.local = ptr.local
      /\ ptr.file \in G => p1.file = ptr.file
  <2> DEFINE e == IF ptr.file \in ToSet(files) THEN ptr.file ELSE Nil
             b == [ptr EXCEPT !.file = e]
  <2>1. p1 = b
        BY <1>1 DEF Pointers
  <2>2. e \in Files \cup {Nil} /\ (ptr.file \in G => e = ptr.file)
        BY <1>1, <1>3 DEF Pointers
  <2> HIDE DEF e
  <2>3. /\ b \in Pointers /\ b.mode = ptr.mode /\ b.conn = ptr.conn /\ b.tab = ptr.tab /\ b.local = ptr.local
        /\ b.file = e
        BY <1>1, <2>2 DEF Pointers
  <2> HIDE DEF b, p1
  <2> QED BY <2>1, <2>2, <2>3
<1> HIDE DEF p1
<1>10. /\ p2 \in Pointers /\ p2.mode = ptr.mode /\ p2.conn = ptr.conn /\ p2.tab = ptr.tab /\ p2.local = ptr.local
       /\ ptr.file \in G => p2.file = ptr.file
       BY <1>9, ForgetIs
<1> HIDE DEF p2, rest
<1>11. r \in Pointers /\ View(r, U, G, L)
       BY <1>1, <1>2, <1>7, <1>10, ConnectionCloseIs
<1> HIDE DEF r
<1>12. pruneOrder(r, rest) \in Pointers /\ View(pruneOrder(r, rest), U, G, L)
       BY <1>11, PrunedView
<1>13. Sound(rest, pruneOrder(r, rest))
       BY <1>3, <1>4, <1>7, <1>12 DEF Sound
<1> QED BY <1>8, <1>13

LEMMA InstancesAre ==
    ASSUME Sound(tabs, ptr) PROVE Instances(tabs) = ToSet(tabs.ssh) \cup ToSet(tabs.local)
<1>1. tabs.rdp = <<>> /\ tabs.vnc = <<>>
      BY DEF Sound, Rest
<1>2. ToSet(tabs.rdp) = {} /\ ToSet(tabs.vnc) = {}
      BY <1>1 DEF ToSet
<1>3. Instances(tabs) = ToSet(tabs.ssh) \cup ToSet(tabs.local) \cup ToSet(tabs.rdp) \cup ToSet(tabs.vnc)
      BY DEF Instances, Kinds
<1> QED BY <1>2, <1>3

\* A plan of one decision is one close: of whole connections, of SSH terminals, or of local
\* terminals.
LEMMA PlanIs ==
    ASSUME Sound(tabs, ptr), ptr.follow = Nil, NEW S, OneDecision(S)
    PROVE  LET x == executeClosePlan(S) IN Sound(x.tabs, x.ptr)
<1> DEFINE T == ToSet(tabs.ssh)
           L == ToSet(tabs.local)
           C == Cascading(S)
           sshTabs == {t \in S \cap T : Conn[t] \notin C}
           locals == S \cap L
           a == IF C = {} THEN State ELSE closeConnections(State, C, tabs.file, "sessions")
           b == IF sshTabs = {} THEN a ELSE closeTerminalTabs(a, sshTabs, tabs.file)
           c == IF locals = {} THEN b ELSE closeLocalTerminalTabs(b, locals, tabs.file)
<1>1. /\ tabs.ssh \in Seq(Ssh) /\ T \subseteq Ssh /\ L \subseteq Local /\ tabs.rdp = <<>> /\ tabs.vnc = <<>>
  <2>1. Rest(tabs, T, ToSet(tabs.file), L)
        BY DEF Sound
  <2> QED BY <2>1, RestIs DEF Rest
<1>2. executeClosePlan(S) = c
  <2>1. S \cap ToSet(tabs.rdp) = {} /\ S \cap ToSet(tabs.vnc) = {}
        BY <1>1 DEF ToSet
  <2>2. \A k, z, seen : closeDesktops(k, z, {}, seen) = z
        BY DEF closeDesktops
  <2>3. executeClosePlan(S) = closeDesktops("vnc", closeDesktops("rdp", c, S \cap ToSet(tabs.rdp), tabs.file),
                                            S \cap ToSet(tabs.vnc), tabs.file)
        BY DEF executeClosePlan
  <2> HIDE DEF c
  <2> QED BY <2>1, <2>2, <2>3
<1>3. S \cap T = {} \/ locals = {}
  <2>1. T \cap L = {}
        BY <1>1, KindsAssumption
  <2>2. Instances(tabs) = T \cup L
        BY InstancesAre
  <2>3. PICK k \in Kinds : S \cap Instances(tabs) \subseteq ToSet(tabs[k])
        BY DEF OneDecision
  <2>4. ToSet(tabs.rdp) = {} /\ ToSet(tabs.vnc) = {}
        BY <1>1 DEF ToSet
  <2>5. \/ S \cap (T \cup L) \subseteq T
        \/ S \cap (T \cup L) \subseteq L
        \/ S \cap (T \cup L) \subseteq {}
        BY <2>2, <2>3, <2>4 DEF Kinds
  <2> QED BY <2>1, <2>5
<1>4. State.tabs = tabs /\ State.ptr = ptr
      BY DEF State
<1>5. CASE C # {}
  <2>1. PICK d \in C : TRUE
        BY <1>5
  <2>2. /\ Of(tabs.ssh, d) # <<>> /\ ToSet(Of(tabs.ssh, d)) \subseteq S
        BY <2>1 DEF Cascading, Released
  <2>3. /\ ToSet(Of(tabs.ssh, d)) = {t \in T : Conn[t] = d} /\ Has(T, d)
        BY <1>1, <2>2, OfIs
  <2>4. \E t \in S \cap T : Conn[t] = d
        BY <2>2, <2>3 DEF Has
  <2>5. \A t \in S \cap T : Conn[t] \in C
        BY <1>5 DEF OneDecision
  <2> HIDE DEF C
  <2>6. sshTabs = {} /\ locals = {}
        BY <1>3, <2>4, <2>5
  <2>7. c = closeConnections(State, C, tabs.file, "sessions")
        BY <1>5, <2>6
  <2>8. \E t \in T : Conn[t] \in C
        BY <2>1, <2>4
  <2> HIDE DEF c
  <2>9. Sound(c.tabs, c.ptr)
        BY <2>7, <2>8, ConnectionsIs
  <2> QED BY <1>2, <2>9
<1>6. CASE C = {} /\ S \cap T # {}
  <2>1. sshTabs # {} /\ locals = {}
        BY <1>3, <1>6
  <2>2. c = closeTerminalTabs(State, sshTabs, tabs.file)
        BY <1>6, <2>1
  <2> HIDE DEF c, sshTabs
  <2> QED BY <1>2, <2>2, TerminalTabsIs
<1>7. CASE C = {} /\ S \cap T = {} /\ locals # {}
  <2>1. sshTabs = {}
        BY <1>7
  <2>2. c = closeLocalTerminalTabs(State, locals, tabs.file)
        BY <1>7, <2>1
  <2> HIDE DEF c, locals
  <2> QED BY <1>2, <2>2, LocalTabsIs
<1>8. CASE C = {} /\ S \cap T = {} /\ locals = {}
  <2>1. sshTabs = {}
        BY <1>8
  <2>2. c = State
        BY <1>8, <2>1
  <2> HIDE DEF c
  <2> QED BY <1>2, <1>4, <2>2
<1> QED BY <1>5, <1>6, <1>7, <1>8

\* No desktop was ever opened.
NoDesktop == used \cap (Rdp \cup Vnc) = {}

\* The inductive invariant: until a desktop is opened or a command takes several decisions
\* the pointers fit the collections, and a close is confirmed under settled pointers.
TabsInv ==
    NoDesktop /\ ~mixed => /\ Sound(tabs, ptr)
                           /\ pending # Nil => ptr.follow = Nil

LEMMA TabsInitInv == TabsInit => TabsInv
<1> SUFFICES ASSUME TabsInit PROVE Sound(tabs, ptr) /\ pending = Nil
    BY DEF TabsInv
<1>1. /\ tabs \in TabSets /\ tabs.ssh = <<>> /\ tabs.file = <<>> /\ tabs.local = <<>>
      /\ tabs.rdp = <<>> /\ tabs.vnc = <<>>
  <2>1. tabs = [ssh |-> <<>>, local |-> <<>>, rdp |-> <<>>, vnc |-> <<>>, file |-> <<>>]
        BY DEF TabsInit, Ids
  <2>2. \A A : <<>> \in Seq(A)
        OBVIOUS
  <2> QED BY <2>1, <2>2 DEF TabSets
<1>2. ToSet(<<>>) = {}
      BY DEF ToSet
<1>3. Rest(tabs, {}, {}, {})
      BY <1>1, <1>2 DEF Rest
<1>4. ptr \in Pointers /\ ptr.conn = Nil /\ ptr.follow = Nil /\ ptr.mode = "home"
  <2>1. [c \in Conns |-> Nil] \in [Conns -> Ssh \cup {Nil}]
        OBVIOUS
  <2>2. <<>> \in Seq(Ssh \cup Local \cup Rdp \cup Vnc)
        OBVIOUS
  <2> QED BY <2>1, <2>2 DEF TabsInit, Pointers
<1>5. View(ptr, {}, {}, {})
      BY <1>4 DEF View, Has
<1>6. pending = Nil
      BY DEF TabsInit
<1> QED BY <1>1, <1>2, <1>3, <1>4, <1>5, <1>6 DEF Sound

LEMMA ActivateView ==
    ASSUME NEW p0, NEW p \in Pointers, NEW T, NEW F, NEW L, T \subseteq Ssh, L \subseteq Local, NEW i, p.follow = Nil,
           i \in T \/ (i \in L /\ View(p0, T, F, L) /\ p.conn = p0.conn /\ p.tab = p0.tab /\ p.file = p0.file)
    PROVE  LET q == activate(p, i) IN q \in Pointers /\ View(q, T, F, L) /\ q.follow = Nil
<1> DEFINE q == activate(p, i)
<1>1. CASE i \in T
  <2>1. i \in Ssh /\ Has(T, Conn[i])
        BY <1>1 DEF Has
  <2>2. q = activateTerminal(p, i)
        BY <2>1 DEF activate
  <2>3. q \in Pointers /\ q.mode = "ssh" /\ q.conn = Conn[i] /\ q.tab = i /\ q.follow = Nil
        BY <2>1, <2>2, ActivateTerminalIs
  <2> HIDE DEF q
  <2>4. View(q, T, F, L)
        BY <1>1, <2>1, <2>3 DEF View
  <2> QED BY <2>3, <2>4 DEF q
<1>2. CASE i \in L /\ View(p0, T, F, L) /\ p.conn = p0.conn /\ p.tab = p0.tab /\ p.file = p0.file
  <2>1. /\ q \in Pointers /\ q.mode = "local" /\ q.conn = p0.conn /\ q.tab = p0.tab /\ q.file = p0.file
        /\ q.follow = Nil /\ q.local = i
        BY <1>2, ActivateLocalIs
  <2> HIDE DEF q
  <2>2. View(q, T, F, L)
        BY <1>2, <2>1 DEF View
  <2> QED BY <2>1, <2>2 DEF q
<1> QED BY <1>1, <1>2

LEMMA OrderView ==
    ASSUME NEW p \in Pointers, NEW T, NEW F, NEW L, View(p, T, F, L), NEW i \in Ssh \cup Local \cup Rdp \cup Vnc
    PROVE  LET q == [p EXCEPT !.order = Append(@, i)] IN q \in Pointers /\ View(q, T, F, L)
<1> DEFINE m == Append(p.order, i)
           q == [p EXCEPT !.order = m]
<1>1. [p EXCEPT !.order = Append(@, i)] = q
      BY DEF Pointers
<1>2. m \in Seq(Ssh \cup Local \cup Rdp \cup Vnc)
      BY DEF Pointers
<1> HIDE DEF m
<1>3. /\ q \in Pointers /\ q.mode = p.mode /\ q.conn = p.conn /\ q.tab = p.tab /\ q.file = p.file
      /\ q.follow = p.follow /\ q.local = p.local
      BY <1>2 DEF Pointers
<1> HIDE DEF q
<1>4. View(q, T, F, L)
      BY <1>3 DEF View
<1> QED BY <1>1, <1>3, <1>4

LEMMA OpenSound ==
    ASSUME Sound(tabs, ptr), NEW i \in Ssh \cup Local, Open(i)
    PROVE  Sound(tabs', ptr') /\ pending' = Nil
<1> DEFINE T == ToSet(tabs.ssh)
           F == ToSet(tabs.file)
           L == ToSet(tabs.local)
           q == activate(ptr, i)
<1>1. /\ Rest(tabs, T, F, L) /\ ptr \in Pointers /\ View(ptr, T, F, L) /\ tabs \in TabSets
      BY DEF Sound, Rest
<1>2. tabs.ssh \in Seq(Ssh) /\ tabs.local \in Seq(Local) /\ T \subseteq Ssh /\ L \subseteq Local
      BY <1>1, RestIs
<1>3. ptr.follow = Nil /\ ptr' = [q EXCEPT !.order = Append(@, i)] /\ pending' = Nil
      BY DEF Open, Unlocked
<1>4. tabs' = [tabs EXCEPT ![KindOf(i)] = Append(@, i)]
      BY DEF Open
<1>5. CASE i \in Ssh
  <2> DEFINE a == Append(tabs.ssh, i)
             U == T \cup {i}
  <2>1. KindOf(i) = "ssh"
        BY <1>5, KindsAssumption DEF KindOf, Kinds, Ids
  <2>2. a \in Seq(Ssh) /\ ToSet(a) = U
        BY <1>2, <1>5, AppendIs
  <2>3. tabs' = [tabs EXCEPT !.ssh = a]
        BY <1>1, <1>4, <2>1 DEF TabSets
  <2> HIDE DEF a
  <2>4. Rest(tabs', ToSet(a), F, L) /\ tabs'.ssh = a /\ tabs'.file = tabs.file /\ tabs'.local = tabs.local
        BY <1>1, <2>2, <2>3, SshRest, ZenonT(40)
  <2>5. q \in Pointers /\ View(q, U, F, L)
    <3>1. U \subseteq Ssh /\ i \in U
          BY <1>2, <1>5
    <3> HIDE DEF U, T, F, L
    <3> QED BY <1>1, <1>2, <1>3, <3>1, ActivateView
  <2> HIDE DEF q
  <2>6. ptr' \in Pointers /\ View(ptr', U, F, L)
        BY <1>3, <2>5, OrderView
  <2> QED BY <1>3, <2>2, <2>4, <2>6 DEF Sound
<1>6. CASE i \in Local
  <2> DEFINE a == Append(tabs.local, i)
             M == L \cup {i}
  <2>1. KindOf(i) = "local"
        BY <1>6, KindsAssumption DEF KindOf, Kinds, Ids
  <2>2. a \in Seq(Local) /\ ToSet(a) = M
        BY <1>2, <1>6, AppendIs
  <2>3. tabs' = [tabs EXCEPT !.local = a]
        BY <1>1, <1>4, <2>1 DEF TabSets
  <2> HIDE DEF a
  <2>4. Rest(tabs', T, F, ToSet(a)) /\ tabs'.ssh = tabs.ssh /\ tabs'.file = tabs.file /\ tabs'.local = a
        BY <1>1, <2>2, <2>3, LocalRest
  <2>5. q \in Pointers /\ View(q, T, F, M)
    <3>1. M \subseteq Local /\ i \in M
          BY <1>2, <1>6
    <3>2. View(ptr, T, F, M)
          BY <1>1 DEF View
    <3> HIDE DEF M, T, F, L
    <3> QED BY <1>1, <1>2, <1>3, <3>1, <3>2, ActivateView
  <2> HIDE DEF q
  <2>6. ptr' \in Pointers /\ View(ptr', T, F, M)
        BY <1>3, <2>5, OrderView
  <2> QED BY <1>3, <2>2, <2>4, <2>6 DEF Sound
<1> QED BY <1>5, <1>6

LEMMA SelectSound ==
    ASSUME Sound(tabs, ptr), NEW i, Select(i) PROVE Sound(tabs', ptr') /\ pending' = Nil
<1> DEFINE T == ToSet(tabs.ssh)
           F == ToSet(tabs.file)
           L == ToSet(tabs.local)
<1>1. /\ Rest(tabs, T, F, L) /\ ptr \in Pointers /\ View(ptr, T, F, L)
      BY DEF Sound
<1>2. T \subseteq Ssh /\ L \subseteq Local
      BY <1>1, RestIs
<1>3. tabs' = tabs /\ ptr' = activate(ptr, i) /\ ptr.follow = Nil /\ pending' = Nil /\ i \in T \cup L
      BY InstancesAre DEF Select, Unlocked
<1>4. ptr' \in Pointers /\ View(ptr', T, F, L)
  <2> HIDE DEF T, F, L
  <2> QED BY <1>1, <1>2, <1>3, ActivateView
<1> QED BY <1>1, <1>3, <1>4 DEF Sound

LEMMA FollowUpSound ==
    ASSUME Sound(tabs, ptr), FollowUp PROVE Sound(tabs', ptr') /\ ptr.follow # Nil /\ pending' = pending
<1> DEFINE T == ToSet(tabs.ssh)
           F == ToSet(tabs.file)
           L == ToSet(tabs.local)
           i == ptr.follow
           q == [ptr EXCEPT !.follow = Nil]
<1>1. /\ Rest(tabs, T, F, L) /\ ptr \in Pointers /\ View(ptr, T, F, L)
      BY DEF Sound
<1>2. T \subseteq Ssh /\ L \subseteq Local
      BY <1>1, RestIs
<1>3. i # Nil /\ tabs' = tabs /\ pending' = pending
      BY DEF FollowUp
<1>4. i \in L
      BY <1>1, <1>3 DEF View
<1>5. ptr' = activate(q, i)
      BY <1>4, InstancesAre DEF FollowUp
<1>6. q \in Pointers /\ q.conn = ptr.conn /\ q.tab = ptr.tab /\ q.file = ptr.file /\ q.follow = Nil
      BY <1>1 DEF Pointers
<1>7. ptr' \in Pointers /\ View(ptr', T, F, L)
  <2> HIDE DEF T, F, L, i, q
  <2> QED BY <1>1, <1>2, <1>4, <1>5, <1>6, ActivateView
<1> QED BY <1>1, <1>3, <1>7 DEF Sound

LEMMA OpenFileSound ==
    ASSUME Sound(tabs, ptr), NEW f \in Files, OpenFile(f) PROVE Sound(tabs', ptr') /\ pending' = Nil
<1> DEFINE T == ToSet(tabs.ssh)
           F == ToSet(tabs.file)
           L == ToSet(tabs.local)
           G == F \cup {f}
           a == Append(tabs.file, f)
<1>1. /\ Rest(tabs, T, F, L) /\ ptr \in Pointers /\ View(ptr, T, F, L) /\ tabs \in TabSets
      /\ \A g \in F : Conn[g] \in Conns
      BY DEF Sound, Rest
<1>2. tabs.ssh \in Seq(Ssh) /\ tabs.file \in Seq(Files)
      BY <1>1, RestIs
<1>3. ptr.follow = Nil /\ ptr' = activateFile(ptr, f) /\ pending' = Nil /\ ptr.conn = Conn[f]
      BY DEF OpenFile, Unlocked
<1>4. Conn[f] \in Conns
      BY <1>1, <1>3, NilAssumption DEF Pointers
<1>5. a \in Seq(Files) /\ ToSet(a) = G
      BY <1>2, AppendIs
<1>6. tabs' = [tabs EXCEPT !.file = a]
      BY <1>1 DEF OpenFile, TabSets
<1> HIDE DEF a
<1>7. \A g \in ToSet(a) : Conn[g] \in Conns
      BY <1>1, <1>4, <1>5
<1>8. Rest(tabs', T, ToSet(a), L) /\ tabs'.ssh = tabs.ssh /\ tabs'.file = a /\ tabs'.local = tabs.local
      BY <1>1, <1>5, <1>6, <1>7, FileRest
<1>9. /\ ptr' \in Pointers /\ ptr'.mode = "ssh" /\ ptr'.conn = Conn[f] /\ ptr'.file = f /\ ptr'.follow = Nil
      /\ Has(T, Conn[f]) => ptr'.tab \in T /\ Conn[ptr'.tab] = Conn[f]
      BY <1>1, <1>2, <1>3, <1>4, ActivateFileIs
<1>10. Has(G, Conn[f]) /\ f \in G
      BY DEF Has
<1> HIDE DEF G
<1>11. View(ptr', T, G, L)
      BY <1>9, <1>10 DEF View
<1> QED BY <1>3, <1>5, <1>8, <1>9, <1>11 DEF Sound

LEMMA SelectFileSound ==
    ASSUME Sound(tabs, ptr), NEW f \in Files, SelectFile(f) PROVE Sound(tabs', ptr') /\ pending' = Nil
<1> DEFINE T == ToSet(tabs.ssh)
           F == ToSet(tabs.file)
           L == ToSet(tabs.local)
<1>1. /\ Rest(tabs, T, F, L) /\ ptr \in Pointers /\ \A g \in F : Conn[g] \in Conns
      BY DEF Sound, Rest
<1>2. tabs.ssh \in Seq(Ssh)
      BY <1>1, RestIs
<1>3. ptr.follow = Nil /\ ptr' = activateFile(ptr, f) /\ pending' = Nil /\ tabs' = tabs /\ f \in F
      BY DEF SelectFile, Unlocked
<1>4. Conn[f] \in Conns
      BY <1>1, <1>3
<1>5. /\ ptr' \in Pointers /\ ptr'.mode = "ssh" /\ ptr'.conn = Conn[f] /\ ptr'.file = f /\ ptr'.follow = Nil
      /\ Has(T, Conn[f]) => ptr'.tab \in T /\ Conn[ptr'.tab] = Conn[f]
      BY <1>1, <1>2, <1>3, <1>4, ActivateFileIs
<1>6. Has(F, Conn[f])
      BY <1>3 DEF Has
<1>7. View(ptr', T, F, L)
      BY <1>3, <1>5, <1>6 DEF View
<1> QED BY <1>1, <1>3, <1>5, <1>7 DEF Sound

LEMMA CloseFileSound ==
    ASSUME Sound(tabs, ptr), NEW f \in Files, CloseFile(f) PROVE Sound(tabs', ptr') /\ pending' = Nil
<1> DEFINE T == ToSet(tabs.ssh)
           F == ToSet(tabs.file)
           L == ToSet(tabs.local)
           G == F \ {f}
           a == Without(tabs.file, {f})
<1>1. /\ Rest(tabs, T, F, L) /\ ptr \in Pointers /\ View(ptr, T, F, L) /\ tabs \in TabSets
      /\ tabs.rdp = <<>> /\ tabs.vnc = <<>> /\ \A g \in F : Conn[g] \in Conns
      BY DEF Sound, Rest
<1>2. tabs.file \in Seq(Files)
      BY <1>1, RestIs
<1>3. /\ ptr.follow = Nil /\ pending' = Nil /\ ptr.conn = Conn[f] /\ ptr.mode = "ssh" /\ f \in F
      /\ tabs' = [tabs EXCEPT !.file = a]
      /\ ptr' = IF ptr.file = f THEN AfterFileClose(ptr, f, a) ELSE ptr
      BY DEF CloseFile, Unlocked, Becomes
<1>4. a \in Seq(Files) /\ ToSet(a) = G
      BY <1>2, WithoutIs
<1> HIDE DEF a
<1>5. \A g \in ToSet(a) : Conn[g] \in Conns
      BY <1>1, <1>4
<1>6. Rest(tabs', T, ToSet(a), L) /\ tabs'.ssh = tabs.ssh /\ tabs'.file = a /\ tabs'.local = tabs.local
      BY <1>1, <1>3, <1>4, <1>5, FileRest
<1>7. CASE ptr.file = f
  <2>1. ptr' \in Pointers /\ View(ptr', T, ToSet(a), L)
        BY <1>1, <1>3, <1>4, <1>5, <1>7, AfterFileCloseIs
  <2> QED BY <1>3, <1>6, <2>1 DEF Sound
<1>8. CASE ptr.file # f
  <2>1. ptr' = ptr
        BY <1>3, <1>8
  <2>2. Has(F, ptr.conn)
        BY <1>3 DEF Has
  <2>3. ~Has(T, ptr.conn) => ptr.file \in G /\ Conn[ptr.file] = ptr.conn
        BY <1>1, <1>8, <2>2 DEF View
  <2>4. ~Has(T, ptr.conn) => G # {} /\ Has(G, ptr.conn)
        BY <2>3 DEF Has
  <2>5. Has(T, ptr.conn) => T # {}
        BY DEF Has
  <2> HIDE DEF G
  <2>6. View(ptr, T, G, L)
        BY <1>1, <1>3, <2>3, <2>4, <2>5 DEF View
  <2> QED BY <1>1, <1>3, <1>4, <1>6, <2>1, <2>6 DEF Sound
<1> QED BY <1>7, <1>8

LEMMA HomeSound ==
    ASSUME Sound(tabs, ptr), openHome PROVE Sound(tabs', ptr') /\ pending' = Nil
<1> DEFINE T == ToSet(tabs.ssh)
           F == ToSet(tabs.file)
           L == ToSet(tabs.local)
<1>1. Rest(tabs, T, F, L) /\ ptr \in Pointers /\ View(ptr, T, F, L)
      BY DEF Sound
<1>2. tabs' = tabs /\ pending' = Nil /\ ptr.follow = Nil /\ ptr' = [ptr EXCEPT !.mode = "home", !.home = TRUE]
      BY DEF openHome, Unlocked
<1>3. /\ ptr' \in Pointers /\ ptr'.mode = "home" /\ ptr'.conn = ptr.conn /\ ptr'.tab = ptr.tab /\ ptr'.file = ptr.file
      /\ ptr'.follow = Nil
      BY <1>1, <1>2, ZenonT(40) DEF Pointers
<1>4. View(ptr', T, F, L)
      BY <1>1, <1>3 DEF View
<1> QED BY <1>1, <1>2, <1>3, <1>4 DEF Sound

LEMMA TabsStep ==
    ASSUME TabsInv, [TabsNext]_tabsVars PROVE TabsInv'
<1> SUFFICES ASSUME NoDesktop', ~mixed'
             PROVE  Sound(tabs', ptr') /\ (pending' # Nil => ptr'.follow = Nil)
    BY DEF TabsInv
<1>1. used \subseteq used' /\ (mixed => mixed')
  <2>1. used \subseteq used'
        BY DEF TabsNext, tabsVars, Open, Select, Connected, CancelConnecting, OpenFile, Edit, CloseFile, SelectFile,
               RequestClose, confirm, cancel, openHome, FollowUp, RunnerEnds, deleteConnection
  <2>2. \/ mixed' = mixed
        \/ \E S : mixed' = (mixed \/ ~OneDecision(S))
        BY ZenonT(60)
           DEF TabsNext, tabsVars, Open, Select, Connected, CancelConnecting, OpenFile, Edit, CloseFile, SelectFile,
               RequestClose, CarryOut, confirm, cancel, openHome, FollowUp, RunnerEnds, deleteConnection
  <2>3. mixed => mixed'
        BY <2>2, Zenon
  <2> QED BY <2>1, <2>3
<1>2. Sound(tabs, ptr) /\ (pending # Nil => ptr.follow = Nil)
      BY <1>1 DEF TabsInv, NoDesktop
<1>3. CASE UNCHANGED tabsVars
      BY <1>2, <1>3 DEF tabsVars
<1>4. ASSUME NEW i \in Ssh \cup Local \cup Rdp \cup Vnc, Open(i) PROVE Sound(tabs', ptr') /\ pending' = Nil
  <2>1. i \in used'
        BY <1>4 DEF Open
  <2>2. i \in Ssh \cup Local
        BY <2>1 DEF NoDesktop
  <2> QED BY <1>2, <1>4, <2>2, OpenSound
<1>5. ASSUME NEW i \in Ssh \cup Local \cup Rdp \cup Vnc, Select(i) PROVE Sound(tabs', ptr') /\ pending' = Nil
      BY <1>2, <1>5, SelectSound
<1>6. ASSUME NEW t \in Ssh, Connected(t) PROVE tabs' = tabs /\ ptr' = ptr /\ pending' = pending
      BY <1>6 DEF Connected
<1>7. ASSUME NEW t \in Ssh, CancelConnecting(t) PROVE Sound(tabs', ptr') /\ pending' = Nil
      BY <1>2, <1>7, TerminalTabsIs DEF CancelConnecting, Unlocked, Becomes
<1>8. ASSUME NEW f \in Files, OpenFile(f) PROVE Sound(tabs', ptr') /\ pending' = Nil
      BY <1>2, <1>8, OpenFileSound
<1>9. ASSUME NEW f \in Files, Edit(f) PROVE tabs' = tabs /\ ptr' = ptr /\ pending' = pending
      BY <1>9 DEF Edit
<1>10. ASSUME NEW f \in Files, CloseFile(f) PROVE Sound(tabs', ptr') /\ pending' = Nil
      BY <1>2, <1>10, CloseFileSound
<1>11. ASSUME NEW f \in Files, SelectFile(f) PROVE Sound(tabs', ptr') /\ pending' = Nil
      BY <1>2, <1>11, SelectFileSound
<1>12. ASSUME NEW i \in used, NEW scope \in Scopes, NEW transfers \in BOOLEAN, RequestClose(i, scope, transfers)
       PROVE  Sound(tabs', ptr') /\ (pending' # Nil => ptr'.follow = Nil)
  <2> DEFINE S == closeScopeItemIds(i, scope)
  <2>1. ptr.follow = Nil /\ pending = Nil
        BY <1>12 DEF RequestClose, Unlocked
  <2>2. \/ tabs' = tabs /\ ptr' = ptr
        \/ CarryOut(S) /\ pending' = pending
        BY <1>12 DEF RequestClose
  <2> HIDE DEF S
  <2>3. CASE tabs' = tabs /\ ptr' = ptr
        BY <1>2, <2>1, <2>3
  <2>4. CASE CarryOut(S) /\ pending' = pending
        BY <1>2, <2>1, <2>4, PlanIs DEF CarryOut, Becomes
  <2> QED BY <2>2, <2>3, <2>4
<1>13. ASSUME confirm PROVE Sound(tabs', ptr') /\ pending' = Nil
  <2>1. pending # Nil /\ pending' = Nil /\ CarryOut(pending)
        BY <1>13 DEF confirm
  <2> QED BY <1>2, <2>1, PlanIs DEF CarryOut, Becomes
<1>14. ASSUME cancel PROVE tabs' = tabs /\ ptr' = ptr /\ pending' = Nil
       BY <1>14 DEF cancel
<1>15. ASSUME openHome PROVE Sound(tabs', ptr') /\ pending' = Nil
       BY <1>2, <1>15, HomeSound
<1>16. ASSUME FollowUp PROVE Sound(tabs', ptr') /\ pending' = Nil
       BY <1>2, <1>16, FollowUpSound
<1>17. ASSUME NEW k \in {"rdp", "vnc"}, NEW i \in Ids[k], RunnerEnds(k, i) PROVE FALSE
  <2>1. tabs[k] = <<>>
        BY <1>2 DEF Sound, Rest
  <2>2. i \in ToSet(tabs[k])
        BY <1>17 DEF RunnerEnds
  <2> QED BY <2>1, <2>2 DEF ToSet
<1>18. ASSUME NEW c \in Conns, deleteConnection(c) PROVE Sound(tabs', ptr') /\ pending' = Nil
  <2>1. ptr.follow = Nil /\ pending' = Nil /\ Becomes(closeConnections(State, {c}, tabs.file, "delete"))
        BY <1>18 DEF deleteConnection, Unlocked
  <2>2. PICK i \in Instances(tabs) \ Local : Conn[i] = c
        BY <1>18 DEF deleteConnection
  <2>3. ToSet(tabs.local) \subseteq Local
        BY <1>2, RestIs DEF Sound
  <2>4. \E t \in ToSet(tabs.ssh) : Conn[t] \in {c}
        BY <1>2, <2>2, <2>3, InstancesAre
  <2> QED BY <1>2, <2>1, <2>4, ConnectionsIs DEF Becomes
<1>19. CASE TabsNext
       BY <1>2, <1>4, <1>5, <1>6, <1>7, <1>8, <1>9, <1>10, <1>11, <1>12, <1>13, <1>14, <1>15, <1>16, <1>17, <1>18,
          <1>19 DEF TabsNext
<1> QED BY <1>3, <1>19

LEMMA TabsInvShows == TabsInv => ShownIsLive
<1> DEFINE T == ToSet(tabs.ssh)
           F == ToSet(tabs.file)
           L == ToSet(tabs.local)
<1> SUFFICES ASSUME TabsInv, ptr.follow = Nil, NoDesktop, ~mixed, \A f \in F : Of(tabs.ssh, Conn[f]) # <<>>
             PROVE  showingHome \/ Shown # Nil
    BY DEF ShownIsLive, NoDesktop
<1>1. Rest(tabs, T, F, L) /\ ptr \in Pointers /\ View(ptr, T, F, L)
      BY DEF TabsInv, Sound
<1>2. tabs.ssh \in Seq(Ssh) /\ T \subseteq Ssh /\ L \subseteq Local
      BY <1>1, RestIs
<1>3. \A f \in F : Has(T, Conn[f])
      BY <1>2, OfIs
<1>4. F # {} => T # {}
      BY <1>3 DEF Has
<1>5. Nil \notin T /\ Nil \notin L
      BY <1>2, NilAssumption
<1>6. CASE ptr.mode = "home"
      BY <1>6 DEF showingHome
<1>7. CASE ptr.mode = "ssh"
  <2>1. T # {}
        BY <1>1, <1>4, <1>7 DEF View
  <2>2. Has(T, ptr.conn)
        BY <1>1, <1>3, <2>1 DEF View, Has
  <2>3. ptr.tab \in T
        BY <1>1, <2>2 DEF View
  <2>4. Shown = ptr.tab
        BY <1>7, <2>3 DEF Shown
  <2> QED BY <1>5, <2>3, <2>4
<1>8. CASE ptr.mode = "local"
  <2>1. ptr.local \in L
        BY <1>1, <1>4, <1>8 DEF View
  <2>2. Shown = ptr.local
        BY <1>8, <2>1 DEF Shown
  <2> QED BY <1>5, <2>1, <2>2
<1> QED BY <1>1, <1>6, <1>7, <1>8 DEF View

\* Until a desktop is opened or one command takes several decisions (executeClosePlan),
\* what the workspace shows is an open instance or the home page, whatever the close
\* commands offered and the tabs they close.
THEOREM TabsShownIsLive == TabsSpec => []ShownIsLive
<1>1. TabsInv /\ [TabsNext]_tabsVars => TabsInv'
      BY TabsStep
<1> QED BY <1>1, TabsInitInv, TabsInvShows, PTL DEF TabsSpec

-----------------------------------------------------------------------------
(* Files keep their terminal.                                              *)

LEMMA DesktopsKeep ==
    ASSUME NEW k \in {"rdp", "vnc"}, NEW x, x.tabs \in TabSets, NEW S, NEW seen
    PROVE  LET y == closeDesktops(k, x, S, seen)
           IN  y.tabs \in TabSets /\ y.tabs.ssh = x.tabs.ssh /\ y.tabs.file = x.tabs.file
<1> DEFINE r == Without(x.tabs.rdp, S)
           v == Without(x.tabs.vnc, S)
           a == [x.tabs EXCEPT !.rdp = r]
           b == [x.tabs EXCEPT !.vnc = v]
           y == closeDesktops(k, x, S, seen)
<1>1. r \in Seq(Rdp) /\ v \in Seq(Vnc)
      BY WithoutIs DEF TabSets
<1>2. y.tabs = IF S = {} THEN x.tabs ELSE IF k = "rdp" THEN a ELSE b
      BY DEF closeDesktops, TabSets
<1> HIDE DEF r, v, y
<1>3. a \in TabSets /\ a.ssh = x.tabs.ssh /\ a.file = x.tabs.file
      BY <1>1 DEF TabSets
<1>4. b \in TabSets /\ b.ssh = x.tabs.ssh /\ b.file = x.tabs.file
      BY <1>1 DEF TabSets
<1> HIDE DEF a, b
<1>5. y.tabs \in TabSets /\ y.tabs.ssh = x.tabs.ssh /\ y.tabs.file = x.tabs.file
      BY <1>2, <1>3, <1>4
<1> QED BY <1>5 DEF y

LEMMA TerminalsKeep ==
    ASSUME NEW x, x.tabs \in TabSets, NEW S, NEW seen
    PROVE  LET y == closeTerminalTabs(x, S, seen)
           IN  y.tabs \in TabSets /\ ToSet(y.tabs.ssh) = ToSet(x.tabs.ssh) \ S /\ y.tabs.file = x.tabs.file
<1> DEFINE a == Without(x.tabs.ssh, S)
           r == [x.tabs EXCEPT !.ssh = a]
<1>1. a \in Seq(Ssh) /\ ToSet(a) = ToSet(x.tabs.ssh) \ S
      BY WithoutIs DEF TabSets
<1>2. closeTerminalTabs(x, S, seen).tabs = r
      BY DEF closeTerminalTabs, TabSets
<1> HIDE DEF a
<1>3. r \in TabSets /\ r.ssh = a /\ r.file = x.tabs.file
      BY <1>1 DEF TabSets
<1> HIDE DEF r
<1> QED BY <1>1, <1>2, <1>3

LEMMA LocalsKeep ==
    ASSUME NEW x, x.tabs \in TabSets, NEW S, NEW seen
    PROVE  LET y == closeLocalTerminalTabs(x, S, seen)
           IN  y.tabs \in TabSets /\ y.tabs.ssh = x.tabs.ssh /\ y.tabs.file = x.tabs.file
<1> DEFINE a == Without(x.tabs.local, S)
           r == [x.tabs EXCEPT !.local = a]
<1>1. a \in Seq(Local)
      BY WithoutIs DEF TabSets
<1>2. closeLocalTerminalTabs(x, S, seen).tabs = r
      BY DEF closeLocalTerminalTabs, TabSets
<1> HIDE DEF a
<1>3. r \in TabSets /\ r.ssh = x.tabs.ssh /\ r.file = x.tabs.file
      BY <1>1 DEF TabSets
<1> HIDE DEF r
<1> QED BY <1>2, <1>3

LEMMA ConnectionsKeep ==
    ASSUME NEW x, x.tabs \in TabSets, NEW C, NEW seen, NEW variant
    PROVE  LET y == closeConnections(x, C, seen, variant)
           IN  /\ y.tabs \in TabSets
               /\ ToSet(y.tabs.ssh) = {t \in ToSet(x.tabs.ssh) : Conn[t] \notin C}
               /\ ToSet(y.tabs.file) = {f \in ToSet(x.tabs.file) : Conn[f] \notin C}
<1> DEFINE G == {f \in ToSet(x.tabs.file) : Conn[f] \notin C}
           a == Among(x.tabs.file, G)
           r == [x.tabs EXCEPT !.file = a]
           x1 == clearRemoteFileSessionState(x, C)
           In(k) == {i \in ToSet(x.tabs[k]) : Conn[i] \in C}
           x2 == closeDesktops("rdp", x1, In("rdp"), seen)
           x3 == closeDesktops("vnc", x2, In("vnc"), seen)
           b == Without(x3.tabs.ssh, In("ssh"))
           q == [x3.tabs EXCEPT !.ssh = b]
<1>1. a \in Seq(Files) /\ ToSet(a) = G
  <2>1. x.tabs.file \in Seq(Files)
        BY DEF TabSets
  <2>2. a \in Seq(Files) /\ \A z : z \in ToSet(a) <=> z \in ToSet(x.tabs.file) /\ z \in G
    <3> HIDE DEF G
    <3> QED BY <2>1, AmongIs
  <2> HIDE DEF a
  <2> QED BY <2>2
<1>2. x1.tabs = r
      BY DEF clearRemoteFileSessionState, TabSets
<1>3. closeConnections(x, C, seen, variant).tabs = q
  <2> HIDE DEF x1
  <2> QED BY DEF closeConnections, x1
<1> HIDE DEF a, x1
<1>4. r \in TabSets /\ r.ssh = x.tabs.ssh /\ r.file = a
      BY <1>1 DEF TabSets
<1> HIDE DEF r, In, x2, x3
<1>5. x2.tabs \in TabSets /\ x2.tabs.ssh = x.tabs.ssh /\ x2.tabs.file = a
      BY <1>2, <1>4, DesktopsKeep DEF x2
<1>6. x3.tabs \in TabSets /\ x3.tabs.ssh = x.tabs.ssh /\ x3.tabs.file = a
      BY <1>5, DesktopsKeep DEF x3
<1>7. b \in Seq(Ssh) /\ ToSet(b) = ToSet(x.tabs.ssh) \ In("ssh")
  <2>1. x3.tabs.ssh \in Seq(Ssh)
        BY <1>6 DEF TabSets
  <2> QED BY <1>6, <2>1, WithoutIs
<1> HIDE DEF b
<1>8. q \in TabSets /\ q.ssh = b /\ q.file = a
      BY <1>6, <1>7 DEF TabSets
<1> HIDE DEF q
<1>9. ToSet(b) = {t \in ToSet(x.tabs.ssh) : Conn[t] \notin C}
      BY <1>7 DEF In
<1> QED BY <1>1, <1>3, <1>8, <1>9

LEMMA PlanKeeps ==
    ASSUME tabs \in TabSets, NEW S
    PROVE  LET y == executeClosePlan(S)
           IN  /\ y.tabs \in TabSets
               /\ ToSet(y.tabs.ssh) = {t \in ToSet(tabs.ssh) : Conn[t] \notin Cascading(S) /\ t \notin S}
               /\ ToSet(y.tabs.file) = {f \in ToSet(tabs.file) : Conn[f] \notin Cascading(S)}
<1> DEFINE C == Cascading(S)
           T == ToSet(tabs.ssh)
           F == ToSet(tabs.file)
           x == State
           sshTabs == {t \in S \cap T : Conn[t] \notin C}
           locals == S \cap ToSet(tabs.local)
           a == IF C = {} THEN x ELSE closeConnections(x, C, tabs.file, "sessions")
           b == IF sshTabs = {} THEN a ELSE closeTerminalTabs(a, sshTabs, tabs.file)
           c == IF locals = {} THEN b ELSE closeLocalTerminalTabs(b, locals, tabs.file)
           d == closeDesktops("rdp", c, S \cap ToSet(tabs.rdp), tabs.file)
           e == closeDesktops("vnc", d, S \cap ToSet(tabs.vnc), tabs.file)
<1>1. executeClosePlan(S) = e
      BY DEF executeClosePlan
<1> HIDE DEF C
<1>2. x.tabs \in TabSets /\ ToSet(x.tabs.ssh) = T /\ ToSet(x.tabs.file) = F
      BY DEF State
<1> HIDE DEF x, T, F, a, b, c, d, e
<1>3. /\ a.tabs \in TabSets
      /\ ToSet(a.tabs.ssh) = {t \in T : Conn[t] \notin C}
      /\ ToSet(a.tabs.file) = {f \in F : Conn[f] \notin C}
  <2>1. CASE C = {}
        BY <1>2, <2>1 DEF a
  <2>2. CASE C # {}
        BY <1>2, <2>2, ConnectionsKeep DEF a
  <2> QED BY <2>1, <2>2
<1>4. /\ b.tabs \in TabSets
      /\ ToSet(b.tabs.ssh) = {t \in T : Conn[t] \notin C /\ t \notin S}
      /\ ToSet(b.tabs.file) = {f \in F : Conn[f] \notin C}
  <2>1. CASE sshTabs = {}
        BY <1>3, <2>1 DEF b
  <2>2. CASE sshTabs # {}
    <3> HIDE DEF sshTabs
    <3>1. b.tabs \in TabSets /\ ToSet(b.tabs.ssh) = ToSet(a.tabs.ssh) \ sshTabs /\ b.tabs.file = a.tabs.file
          BY <1>3, <2>2, TerminalsKeep, ZenonT(40) DEF b
    <3> QED BY <1>3, <3>1 DEF sshTabs
  <2> QED BY <2>1, <2>2
<1>5. c.tabs \in TabSets /\ c.tabs.ssh = b.tabs.ssh /\ c.tabs.file = b.tabs.file
      BY <1>4, LocalsKeep DEF c
<1>6. d.tabs \in TabSets /\ d.tabs.ssh = b.tabs.ssh /\ d.tabs.file = b.tabs.file
      BY <1>5, DesktopsKeep DEF d
<1>7. e.tabs \in TabSets /\ e.tabs.ssh = b.tabs.ssh /\ e.tabs.file = b.tabs.file
      BY <1>6, DesktopsKeep DEF e
<1> QED BY <1>1, <1>4, <1>7 DEF C, T, F

\* The action of FilesKeepTerminal.
KeepsTerminals ==
    \A f \in ToSet(tabs'.file) :
        Of(tabs.ssh, Conn[f]) # <<>> /\ ~ToSet(Of(tabs.ssh, Conn[f])) \subseteq connecting
          => Of(tabs'.ssh, Conn[f]) # <<>>

\* A step keeps the terminals of a file when each connection with a settled terminal
\* keeps a terminal.
LEMMA Keeping ==
    ASSUME tabs \in TabSets, tabs' \in TabSets,
           \A f \in ToSet(tabs'.file) :
              (\E t \in ToSet(tabs.ssh) : Conn[t] = Conn[f] /\ t \notin connecting) => Has(ToSet(tabs'.ssh), Conn[f])
    PROVE  KeepsTerminals
<1> SUFFICES ASSUME NEW f \in ToSet(tabs'.file), ~ToSet(Of(tabs.ssh, Conn[f])) \subseteq connecting
             PROVE  Of(tabs'.ssh, Conn[f]) # <<>>
    BY DEF KeepsTerminals
<1>1. tabs.ssh \in Seq(Ssh) /\ tabs'.ssh \in Seq(Ssh)
      BY DEF TabSets
<1>2. ToSet(Of(tabs.ssh, Conn[f])) = {t \in ToSet(tabs.ssh) : Conn[t] = Conn[f]}
      BY <1>1, OfIs
<1>3. \E t \in ToSet(tabs.ssh) : Conn[t] = Conn[f] /\ t \notin connecting
      BY <1>2
<1>4. Has(ToSet(tabs'.ssh), Conn[f])
      BY <1>3
<1> QED BY <1>1, <1>4, OfIs

LEMMA PlanKeeping ==
    ASSUME tabs \in TabSets, NEW S, Becomes(executeClosePlan(S))
    PROVE  tabs' \in TabSets /\ KeepsTerminals
<1> DEFINE C == Cascading(S)
           T == ToSet(tabs.ssh)
           F == ToSet(tabs.file)
<1>1. /\ tabs' \in TabSets
      /\ ToSet(tabs'.ssh) = {t \in T : Conn[t] \notin C /\ t \notin S}
      /\ ToSet(tabs'.file) = {f \in F : Conn[f] \notin C}
      BY PlanKeeps DEF Becomes
<1>2. ASSUME NEW f \in ToSet(tabs'.file), NEW t \in T, Conn[t] = Conn[f] PROVE Has(ToSet(tabs'.ssh), Conn[f])
  <2>1. tabs.ssh \in Seq(Ssh) /\ tabs.file \in Seq(Files) /\ T \subseteq Ssh
        BY EmptyIs DEF TabSets
  <2>2. f \in F /\ Conn[f] \notin C
        BY <1>1
  <2>3. Conn[f] \in Conns
        BY <1>2, <2>1, ConnIs
  <2>4. Of(tabs.file, Conn[f]) # <<>> /\ Of(tabs.ssh, Conn[f]) # <<>>
        BY <1>2, <2>1, <2>2, OfIs DEF Has
  <2>5. ToSet(Of(tabs.ssh, Conn[f])) = {u \in T : Conn[u] = Conn[f]}
        BY <2>1, OfIs
  <2>6. \E u \in T : Conn[u] = Conn[f] /\ u \notin S
        BY <2>2, <2>3, <2>4, <2>5 DEF Cascading, Released
  <2> HIDE DEF C
  <2> QED BY <1>1, <2>2, <2>6 DEF Has
<1> HIDE DEF C
<1>3. \A f \in ToSet(tabs'.file) :
         (\E t \in T : Conn[t] = Conn[f] /\ t \notin connecting) => Has(ToSet(tabs'.ssh), Conn[f])
      BY <1>2
<1> QED BY <1>1, <1>3, Keeping

LEMMA OpenTyped ==
    ASSUME tabs \in TabSets, NEW i \in Ssh \cup Local \cup Rdp \cup Vnc, Open(i)
    PROVE  tabs' \in TabSets /\ tabs'.file = tabs.file /\ ToSet(tabs.ssh) \subseteq ToSet(tabs'.ssh)
<1> DEFINE a == Append(tabs.ssh, i)
           b == Append(tabs.local, i)
           c == Append(tabs.rdp, i)
           d == Append(tabs.vnc, i)
<1>1. tabs' = [tabs EXCEPT ![KindOf(i)] = Append(@, i)]
      BY DEF Open
<1>2. /\ i \in Ssh => KindOf(i) = "ssh"
      /\ i \in Local => KindOf(i) = "local"
      /\ i \in Rdp => KindOf(i) = "rdp"
      /\ i \in Vnc => KindOf(i) = "vnc"
      BY KindsAssumption DEF KindOf, Kinds, Ids
<1>3. CASE i \in Ssh
  <2>1. a \in Seq(Ssh) /\ ToSet(a) = ToSet(tabs.ssh) \cup {i}
        BY <1>3, AppendIs DEF TabSets
  <2>2. tabs' = [tabs EXCEPT !.ssh = a]
        BY <1>1, <1>2, <1>3 DEF TabSets
  <2> HIDE DEF a
  <2>3. tabs' \in TabSets /\ tabs'.file = tabs.file /\ tabs'.ssh = a
        BY <2>1, <2>2 DEF TabSets
  <2> QED BY <2>1, <2>3
<1>4. CASE i \in Local
  <2>1. b \in Seq(Local)
        BY <1>4, AppendIs DEF TabSets
  <2>2. tabs' = [tabs EXCEPT !.local = b]
        BY <1>1, <1>2, <1>4 DEF TabSets
  <2> HIDE DEF b
  <2> QED BY <2>1, <2>2 DEF TabSets
<1>5. CASE i \in Rdp
  <2>1. c \in Seq(Rdp)
        BY <1>5, AppendIs DEF TabSets
  <2>2. tabs' = [tabs EXCEPT !.rdp = c]
        BY <1>1, <1>2, <1>5 DEF TabSets
  <2> HIDE DEF c
  <2> QED BY <2>1, <2>2 DEF TabSets
<1>6. CASE i \in Vnc
  <2>1. d \in Seq(Vnc)
        BY <1>6, AppendIs DEF TabSets
  <2>2. tabs' = [tabs EXCEPT !.vnc = d]
        BY <1>1, <1>2, <1>6 DEF TabSets
  <2> HIDE DEF d
  <2> QED BY <2>1, <2>2 DEF TabSets
<1> QED BY <1>3, <1>4, <1>5, <1>6

\* A step that closes no terminal.
LEMMA GrowKeeping ==
    ASSUME tabs \in TabSets, tabs' \in TabSets, ToSet(tabs.ssh) \subseteq ToSet(tabs'.ssh) PROVE KeepsTerminals
<1>1. \A f \in ToSet(tabs'.file) :
         (\E t \in ToSet(tabs.ssh) : Conn[t] = Conn[f] /\ t \notin connecting) => Has(ToSet(tabs'.ssh), Conn[f])
      BY DEF Has
<1> QED BY <1>1, Keeping

LEMMA FileKeeping ==
    ASSUME tabs \in TabSets, NEW a \in Seq(Files), tabs' = [tabs EXCEPT !.file = a]
    PROVE  tabs' \in TabSets /\ KeepsTerminals
<1>1. tabs' \in TabSets /\ tabs'.ssh = tabs.ssh
      BY DEF TabSets
<1> QED BY <1>1, GrowKeeping

LEMMA TabsKeep ==
    ASSUME tabs \in TabSets, [TabsNext]_tabsVars PROVE tabs' \in TabSets /\ KeepsTerminals
<1>1. ASSUME tabs' = tabs PROVE tabs' \in TabSets /\ KeepsTerminals
      BY <1>1, GrowKeeping
<1>2. CASE UNCHANGED tabsVars
      BY <1>1, <1>2 DEF tabsVars
<1>3. ASSUME NEW i \in Ssh \cup Local \cup Rdp \cup Vnc, Open(i) PROVE tabs' \in TabSets /\ KeepsTerminals
      BY <1>3, OpenTyped, GrowKeeping
<1>4. ASSUME NEW i \in Ssh \cup Local \cup Rdp \cup Vnc, Select(i) PROVE tabs' = tabs
      BY <1>4 DEF Select
<1>5. ASSUME NEW t \in Ssh, Connected(t) PROVE tabs' = tabs
      BY <1>5 DEF Connected
<1>6. ASSUME NEW t \in Ssh, CancelConnecting(t) PROVE tabs' \in TabSets /\ KeepsTerminals
  <2>1. t \in connecting /\ Becomes(closeTerminalTabs(State, {t}, tabs.file))
        BY <1>6 DEF CancelConnecting
  <2>2. State.tabs = tabs
        BY DEF State
  <2>3. tabs' \in TabSets /\ ToSet(tabs'.ssh) = ToSet(tabs.ssh) \ {t}
        BY <2>1, <2>2, TerminalsKeep DEF Becomes
  <2>4. \A f \in ToSet(tabs'.file) :
           (\E u \in ToSet(tabs.ssh) : Conn[u] = Conn[f] /\ u \notin connecting) => Has(ToSet(tabs'.ssh), Conn[f])
        BY <2>1, <2>3 DEF Has
  <2> QED BY <2>3, <2>4, Keeping
<1>7. ASSUME NEW f \in Files, OpenFile(f) PROVE tabs' \in TabSets /\ KeepsTerminals
  <2>1. tabs.file \in Seq(Files)
        BY DEF TabSets
  <2>2. Append(tabs.file, f) \in Seq(Files) /\ tabs' = [tabs EXCEPT !.file = Append(tabs.file, f)]
        BY <1>7, <2>1 DEF OpenFile, TabSets
  <2> QED BY <2>2, FileKeeping
<1>8. ASSUME NEW f \in Files, Edit(f) PROVE tabs' = tabs
      BY <1>8 DEF Edit
<1>9. ASSUME NEW f \in Files, CloseFile(f) PROVE tabs' \in TabSets /\ KeepsTerminals
  <2>1. tabs.file \in Seq(Files)
        BY DEF TabSets
  <2>2. Without(tabs.file, {f}) \in Seq(Files)
        BY <2>1, WithoutIs
  <2>3. tabs' = [tabs EXCEPT !.file = Without(tabs.file, {f})]
        BY <1>9 DEF CloseFile, Becomes
  <2> QED BY <2>2, <2>3, FileKeeping
<1>10. ASSUME NEW f \in Files, SelectFile(f) PROVE tabs' = tabs
       BY <1>10 DEF SelectFile
<1>11. ASSUME NEW i \in used, NEW scope \in Scopes, NEW transfers \in BOOLEAN, RequestClose(i, scope, transfers)
       PROVE  tabs' \in TabSets /\ KeepsTerminals
  <2>1. tabs' = tabs \/ Becomes(executeClosePlan(closeScopeItemIds(i, scope)))
        BY <1>11 DEF RequestClose, CarryOut
  <2> QED BY <1>1, <2>1, PlanKeeping
<1>12. ASSUME confirm PROVE tabs' \in TabSets /\ KeepsTerminals
       BY <1>12, PlanKeeping DEF confirm, CarryOut
<1>13. ASSUME cancel PROVE tabs' = tabs
       BY <1>13 DEF cancel
<1>14. ASSUME openHome PROVE tabs' = tabs
       BY <1>14 DEF openHome
<1>15. ASSUME FollowUp PROVE tabs' = tabs
       BY <1>15 DEF FollowUp
<1>16. ASSUME NEW k \in {"rdp", "vnc"}, NEW i \in Ids[k], RunnerEnds(k, i) PROVE tabs' \in TabSets /\ KeepsTerminals
  <2>1. State.tabs = tabs
        BY DEF State
  <2>2. tabs' \in TabSets /\ tabs'.ssh = tabs.ssh
        BY <1>16, <2>1, DesktopsKeep DEF RunnerEnds, Becomes
  <2> QED BY <2>2, GrowKeeping
<1>17. ASSUME NEW c \in Conns, deleteConnection(c) PROVE tabs' \in TabSets /\ KeepsTerminals
  <2>1. State.tabs = tabs
        BY DEF State
  <2>2. /\ tabs' \in TabSets
        /\ ToSet(tabs'.ssh) = {t \in ToSet(tabs.ssh) : Conn[t] \notin {c}}
        /\ ToSet(tabs'.file) = {f \in ToSet(tabs.file) : Conn[f] \notin {c}}
    <3> DEFINE C == {c}
               variant == "delete"
               x == closeConnections(State, C, tabs.file, variant)
    <3>1. tabs' = x.tabs
          BY <1>17 DEF deleteConnection, Becomes
    <3> HIDE DEF C, variant
    <3>2. State.tabs \in TabSets
          BY <2>1
    <3>3. /\ x.tabs \in TabSets
          /\ ToSet(x.tabs.ssh) = {t \in ToSet(State.tabs.ssh) : Conn[t] \notin C}
          /\ ToSet(x.tabs.file) = {f \in ToSet(State.tabs.file) : Conn[f] \notin C}
          BY <3>2, ConnectionsKeep
    <3> HIDE DEF x
    <3> QED BY <2>1, <3>1, <3>3 DEF C
  <2>3. \A f \in ToSet(tabs'.file) :
           (\E t \in ToSet(tabs.ssh) : Conn[t] = Conn[f] /\ t \notin connecting) => Has(ToSet(tabs'.ssh), Conn[f])
        BY <2>2 DEF Has
  <2> QED BY <2>2, <2>3, Keeping
<1> HIDE DEF KeepsTerminals
<1>18. CASE TabsNext
       BY <1>1, <1>3, <1>4, <1>5, <1>6, <1>7, <1>8, <1>9, <1>10, <1>11, <1>12, <1>13, <1>14, <1>15, <1>16, <1>17,
          <1>18 DEF TabsNext
<1> QED BY <1>2, <1>18

\* Every close, of any scope and with desktops open, leaves a terminal to the connections
\* whose files stay open.
THEOREM TabsFilesKeepTerminal == TabsSpec => FilesKeepTerminal
<1>1. TabsInit => tabs \in TabSets
  <2> SUFFICES ASSUME TabsInit PROVE tabs \in TabSets
      OBVIOUS
  <2>1. tabs = [ssh |-> <<>>, local |-> <<>>, rdp |-> <<>>, vnc |-> <<>>, file |-> <<>>]
        BY DEF TabsInit, Ids
  <2>2. \A A : <<>> \in Seq(A)
        OBVIOUS
  <2> QED BY <2>1, <2>2 DEF TabSets
<1>2. tabs \in TabSets /\ [TabsNext]_tabsVars => (tabs \in TabSets)' /\ [KeepsTerminals]_tabsVars
      BY TabsKeep
<1>3. FilesKeepTerminal <=> [][KeepsTerminals]_tabsVars
      BY PTL DEF FilesKeepTerminal, KeepsTerminals
<1> QED BY <1>1, <1>2, <1>3, PTL DEF TabsSpec

=============================================================================
