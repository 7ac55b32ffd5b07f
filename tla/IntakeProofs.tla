---------------------------- MODULE IntakeProofs ----------------------------
(***************************************************************************)
(* Proofs about what the service takes in: the papers of a source, page by *)
(* page (Ingestion, SourceRequests), the sentences of a paper that become  *)
(* claims (ClaimSelection, ClaimGates), the words of an idea and the       *)
(* answers of the local model (LocalModel) and the lines of a page that is *)
(* repaired (NougatRepair).  All of it goes through sequences in order;    *)
(* the lemmas about that come first.  Spec is that of Ingestion, the       *)
(* others are named.                                                       *)
(***************************************************************************)
EXTENDS Ingestion, SourceRequests, ClaimSelection, ClaimGates, LocalModel,
        NougatRepair, Subsequences, SequenceTheorems, FunctionTheorems, FiniteSetTheorems,
        WellFoundedInduction, TLAPS

-----------------------------------------------------------------------------
(* Sequences                                                               *)

\* A set of natural numbers that is not empty has a least element.
LEMMA LeastNatural ==
    ASSUME NEW T \in SUBSET Nat, T # {}
    PROVE  \E x \in T : \A y \in T : x <= y
<1> DEFINE less == {ss \in Nat \X Nat : ss[1] < ss[2]}
<1>1. IsWellFoundedOn(less, Nat)
    BY NatLessThanWellFounded DEF OpToRel
<1>2. PICK x \in T : \A y \in T : ~(<<y, x>> \in less)
    BY <1>1, WFMin
<1>3. ASSUME NEW y \in T
      PROVE  x <= y
    <2>1. <<y, x>> \in Nat \X Nat /\ <<y, x>> \notin less
        BY <1>2
    <2>2. ~(y < x)
        BY <2>1
    <2> QED
        BY <2>2
<1> QED
    BY <1>3

\* Induction over the prefixes: a set of numbers that holds 0 and with each
\* number below n the next one holds all up to n.
LEMMA UpTo ==
    ASSUME NEW n \in Nat, NEW T, 0 \in T, \A k \in 0 .. n - 1 : k \in T => k + 1 \in T
    PROVE  \A k \in 0 .. n : k \in T
<1> DEFINE missing == {k \in 0 .. n : k \notin T}
<1>1. SUFFICES ASSUME missing # {}
               PROVE  FALSE
    OBVIOUS
<1>2. PICK k \in missing : \A m \in missing : k <= m
    <2>1. missing \in SUBSET Nat
        OBVIOUS
    <2> HIDE DEF missing
    <2> QED
        BY <1>1, <2>1, LeastNatural
<1>3. k # 0 /\ k - 1 \in 0 .. n - 1 /\ k - 1 \notin missing /\ (k - 1) + 1 = k
    BY <1>2
<1> QED
    BY <1>2, <1>3

\* What the recursive definition of KeptOf asks of a function.
Solves(f, seq, places, n) ==
    f = [m \in 0 .. n |-> IF m = 0 THEN <<>>
                          ELSE IF m \in places THEN Append(f[m - 1], seq[m])
                          ELSE f[m - 1]]

\* There is a function that keeps of each prefix what it should.
LEMMA PrefixesExist ==
    ASSUME NEW seq, NEW places, NEW n \in Nat
    PROVE  \E f : Solves(f, seq, places, n)
<1> DEFINE T == {k \in 0 .. n : \E f : Solves(f, seq, places, k)}
<1>1. 0 \in T
    <2> DEFINE f == [m \in 0 .. 0 |-> <<>>]
    <2>1. \A m \in 0 .. 0 : m = 0
        OBVIOUS
    <2>2. Solves(f, seq, places, 0)
        BY <2>1 DEF Solves
    <2>3. 0 \in 0 .. n
        OBVIOUS
    <2> HIDE DEF f
    <2> QED
        BY <2>2, <2>3
<1>2. ASSUME NEW k \in 0 .. n - 1, k \in T
      PROVE  k + 1 \in T
    <2>1. PICK g : Solves(g, seq, places, k)
        BY <1>2
    <2> DEFINE f == [m \in 0 .. k + 1 |-> IF m = 0 THEN <<>>
                                        ELSE IF m \in places THEN Append(g[m - 1], seq[m])
                                        ELSE g[m - 1]]
    <2>2. \A m \in 0 .. k : f[m] = g[m]
        <3>1. 0 .. k \subseteq 0 .. k + 1
            OBVIOUS
        <3>2. \A m \in 0 .. k : g[m] = IF m = 0 THEN <<>>
                                       ELSE IF m \in places THEN Append(g[m - 1], seq[m])
                                       ELSE g[m - 1]
            BY <2>1 DEF Solves
        <3> QED
            BY <3>1, <3>2
    <2>3. \A m \in 0 .. k + 1 : m # 0 => m - 1 \in 0 .. k
        OBVIOUS
    <2>4. \A m \in 0 .. k + 1 : m # 0 => f[m - 1] = g[m - 1]
        BY <2>2, <2>3
    <2>5. Solves(f, seq, places, k + 1)
        BY <2>4 DEF Solves
    <2> HIDE DEF f
    <2> QED
        BY <2>5
<1> HIDE DEF T
<1>3. n \in T
    BY <1>1, <1>2, UpTo
<1> QED
    BY <1>3 DEF T

\* KeptOf is one: what it keeps of a prefix, from what it keeps of the one before.
LEMMA PrefixesStep ==
    ASSUME NEW S, NEW seq \in Seq(S), NEW places
    PROVE  /\ KeptOf(seq, places)[0] = <<>>
           /\ \A k \in 0 .. Len(seq) - 1 :
                  KeptOf(seq, places)[k + 1] =
                      IF k + 1 \in places THEN Append(KeptOf(seq, places)[k], seq[k + 1])
                      ELSE KeptOf(seq, places)[k]
<1> DEFINE prefixes == KeptOf(seq, places)
<1>1. \E f : Solves(f, seq, places, Len(seq))
    <2>1. Len(seq) \in Nat
        OBVIOUS
    <2> QED
        BY <2>1, PrefixesExist
<1>2. prefixes = CHOOSE f : Solves(f, seq, places, Len(seq))
    BY DEF KeptOf, Solves
<1> HIDE DEF prefixes
<1>3. Solves(prefixes, seq, places, Len(seq))
    BY <1>1, <1>2
<1>4. \A n \in 0 .. Len(seq) : prefixes[n] = IF n = 0 THEN <<>>
                                         ELSE IF n \in places THEN Append(prefixes[n - 1], seq[n])
                                         ELSE prefixes[n - 1]
    BY <1>3 DEF Solves
<1>5. 0 \in 0 .. Len(seq)
    OBVIOUS
<1>6. \A k \in 0 .. Len(seq) - 1 : k + 1 \in 0 .. Len(seq) /\ k + 1 # 0 /\ (k + 1) - 1 = k
    OBVIOUS
<1>7. prefixes[0] = <<>>
    BY <1>4, <1>5
<1>8. \A k \in 0 .. Len(seq) - 1 :
          prefixes[k + 1] = IF k + 1 \in places THEN Append(prefixes[k], seq[k + 1]) ELSE prefixes[k]
    BY <1>4, <1>6
<1> QED
    BY <1>7, <1>8 DEF prefixes

\* What is kept of a prefix: the elements at the places, each from its own
\* place, and in order.
LEMMA KeptOfPrefix ==
    ASSUME NEW S, NEW seq \in Seq(S), NEW places
    PROVE  \A k \in 0 .. Len(seq) :
             /\ KeptOf(seq, places)[k] \in Seq(S)
             /\ \A i \in places \cap (1 .. k) :
                   \E m \in DOMAIN KeptOf(seq, places)[k] : KeptOf(seq, places)[k][m] = seq[i]
             /\ \A m \in DOMAIN KeptOf(seq, places)[k] :
                   \E i \in places \cap (1 .. k) : KeptOf(seq, places)[k][m] = seq[i]
             /\ \A m, n \in DOMAIN KeptOf(seq, places)[k] : m # n =>
                   \E i, j \in places \cap (1 .. k) :
                       i # j /\ KeptOf(seq, places)[k][m] = seq[i] /\ KeptOf(seq, places)[k][n] = seq[j]
<1> DEFINE prefixes == KeptOf(seq, places)
           Good(k) == /\ prefixes[k] \in Seq(S)
                      /\ \A i \in places \cap (1 .. k) : \E m \in DOMAIN prefixes[k] : prefixes[k][m] = seq[i]
                      /\ \A m \in DOMAIN prefixes[k] : \E i \in places \cap (1 .. k) : prefixes[k][m] = seq[i]
                      /\ \A m, n \in DOMAIN prefixes[k] : m # n =>
                            \E i, j \in places \cap (1 .. k) :
                                i # j /\ prefixes[k][m] = seq[i] /\ prefixes[k][n] = seq[j]
           T == {k \in 0 .. Len(seq) : Good(k)}
<1>1. 0 \in T
    <2>1. prefixes[0] = <<>>
        BY PrefixesStep
    <2>2. DOMAIN prefixes[0] = {} /\ prefixes[0] \in Seq(S) /\ 0 \in 0 .. Len(seq) /\ 1 .. 0 = {}
        BY <2>1
    <2> HIDE DEF prefixes
    <2> QED
        BY <2>2
<1>2. ASSUME NEW k \in 0 .. Len(seq) - 1, k \in T
      PROVE  k + 1 \in T
    <2>1. prefixes[k + 1] = IF k + 1 \in places THEN Append(prefixes[k], seq[k + 1]) ELSE prefixes[k]
        BY PrefixesStep
    <2> HIDE DEF prefixes
    <2>2. Good(k) /\ k + 1 \in 1 .. Len(seq) /\ seq[k + 1] \in S
        BY <1>2
    <2>3. \A i \in 1 .. k + 1 : i \in 1 .. k \/ i = k + 1
        OBVIOUS
    <2>4. CASE k + 1 \notin places
        <3>1. prefixes[k + 1] = prefixes[k] /\ places \cap (1 .. k + 1) = places \cap (1 .. k)
            BY <2>1, <2>3, <2>4
        <3>2. k + 1 \in 0 .. Len(seq)
            BY <2>2
        <3>3. Good(k + 1)
            BY <2>2, <3>1
        <3> QED
            BY <3>2, <3>3
    <2>5. CASE k + 1 \in places
        <3> DEFINE s == prefixes[k]  e == seq[k + 1]
        <3>1. s \in Seq(S) /\ e \in S /\ prefixes[k + 1] = Append(s, e)
            BY <2>1, <2>2, <2>5
        <3>2. /\ Append(s, e) \in Seq(S) /\ DOMAIN Append(s, e) = 1 .. Len(s) + 1
              /\ Append(s, e)[Len(s) + 1] = e /\ \A m \in 1 .. Len(s) : Append(s, e)[m] = s[m]
              /\ DOMAIN s = 1 .. Len(s) /\ Len(s) \in Nat
            BY <3>1
        <3>3. prefixes[k + 1] \in Seq(S)
            BY <3>1, <3>2
        <3>4. ASSUME NEW i \in places \cap (1 .. k + 1)
              PROVE  \E m \in DOMAIN prefixes[k + 1] : prefixes[k + 1][m] = seq[i]
            <4>1. CASE i = k + 1
                BY <3>1, <3>2, <4>1
            <4>2. CASE i \in 1 .. k
                <5>1. PICK m \in DOMAIN s : s[m] = seq[i]
                    BY <2>2, <4>2
                <5> HIDE DEF s, e
                <5> QED
                    BY <3>1, <3>2, <5>1
            <4> QED
                BY <2>3, <4>1, <4>2
        <3>5. ASSUME NEW m \in DOMAIN prefixes[k + 1]
              PROVE  \E i \in places \cap (1 .. k + 1) : prefixes[k + 1][m] = seq[i]
            <4>1. CASE m = Len(s) + 1
                BY <2>5, <3>1, <3>2, <4>1
            <4>2. CASE m \in 1 .. Len(s)
                <5>1. PICK i \in places \cap (1 .. k) : s[m] = seq[i]
                    BY <2>2, <3>2, <4>2
                <5> HIDE DEF s, e
                <5> QED
                    BY <3>1, <3>2, <4>2, <5>1
            <4> HIDE DEF s, e
            <4> QED
                BY <3>1, <3>2, <4>1, <4>2
        <3>6. ASSUME NEW m \in 1 .. Len(s), NEW n \in DOMAIN prefixes[k + 1], m # n
              PROVE  \E i, j \in places \cap (1 .. k + 1) :
                         i # j /\ prefixes[k + 1][m] = seq[i] /\ prefixes[k + 1][n] = seq[j]
            <4>1. CASE n = Len(s) + 1
                <5>1. PICK i \in places \cap (1 .. k) : s[m] = seq[i]
                    BY <2>2, <3>2
                <5>2. i # k + 1 /\ k + 1 \in places \cap (1 .. k + 1)
                    BY <2>5, <5>1
                <5>3. prefixes[k + 1][m] = seq[i] /\ prefixes[k + 1][n] = seq[k + 1]
                    BY <3>1, <3>2, <4>1, <5>1
                <5> QED
                    BY <5>1, <5>2, <5>3
            <4>2. CASE n \in 1 .. Len(s)
                <5>1. PICK i \in places \cap (1 .. k), j \in places \cap (1 .. k) :
                          i # j /\ s[m] = seq[i] /\ s[n] = seq[j]
                    <6>1. m \in DOMAIN prefixes[k] /\ n \in DOMAIN prefixes[k]
                        BY <3>2, <4>2
                    <6> QED
                        BY <2>2, <3>6, <6>1
                <5>2. prefixes[k + 1][m] = s[m] /\ prefixes[k + 1][n] = s[n]
                    BY <3>1, <3>2, <4>2
                <5> QED
                    BY <5>1, <5>2
            <4> HIDE DEF s, e
            <4> QED
                BY <3>1, <3>2, <4>1, <4>2
        <3>7. ASSUME NEW m \in DOMAIN prefixes[k + 1], NEW n \in DOMAIN prefixes[k + 1], m # n
              PROVE  \E i, j \in places \cap (1 .. k + 1) :
                         i # j /\ prefixes[k + 1][m] = seq[i] /\ prefixes[k + 1][n] = seq[j]
            <4>1. m \in 1 .. Len(s) \/ n \in 1 .. Len(s)
                <5> HIDE DEF s, e
                <5> QED
                    BY <3>1, <3>2, <3>7
            <4> QED
                BY <3>6, <3>7, <4>1
        <3>8. k + 1 \in 0 .. Len(seq)
            BY <2>2
        <3>9. Good(k + 1)
            BY <3>3, <3>4, <3>5, <3>7
        <3> QED
            BY <3>8, <3>9
    <2> QED
        BY <2>4, <2>5
<1> HIDE DEF T
<1>3. Len(seq) \in Nat
    OBVIOUS
<1>4. \A k \in 0 .. Len(seq) : k \in T
    BY <1>1, <1>2, <1>3, UpTo
<1> QED
    BY <1>4 DEF T

\* The elements at kept places are those of the sequence there, and two of them
\* come from two places.
LEMMA AtPlaces ==
    ASSUME NEW S, NEW seq \in Seq(S), NEW places \in SUBSET DOMAIN seq
    PROVE  /\ At(seq, places) \in Seq(S)
           /\ ToSet(At(seq, places)) = {seq[i] : i \in places}
           /\ \A m, n \in DOMAIN At(seq, places) : m # n =>
                 \E i, j \in places : /\ i # j /\ At(seq, places)[m] = seq[i]
                                     /\ At(seq, places)[n] = seq[j]
<1>1. Len(seq) \in 0 .. Len(seq) /\ places \cap (1 .. Len(seq)) = places
    OBVIOUS
<1> DEFINE at == At(seq, places)
<1>2. /\ at \in Seq(S)
      /\ \A i \in places : \E m \in DOMAIN at : at[m] = seq[i]
      /\ \A m \in DOMAIN at : \E i \in places : at[m] = seq[i]
      /\ \A m, n \in DOMAIN at : m # n =>
             \E i, j \in places : i # j /\ at[m] = seq[i] /\ at[n] = seq[j]
    BY <1>1, KeptOfPrefix DEF At
<1> HIDE DEF at
<1>3. ToSet(at) = {seq[i] : i \in places}
    BY <1>2 DEF ToSet
<1> QED
    BY <1>2, <1>3 DEF at

\* Among keeps the elements that are in the set.
LEMMA AmongKeeps ==
    ASSUME NEW S, NEW seq \in Seq(S), NEW set
    PROVE  /\ Among(seq, set) \in Seq(S)
           /\ ToSet(Among(seq, set)) = ToSet(seq) \cap set
<1> DEFINE places == {i \in DOMAIN seq : seq[i] \in set}
<1>1. Among(seq, set) = At(seq, places) /\ places \in SUBSET DOMAIN seq
    BY DEF Among
<1>2. {seq[i] : i \in places} = ToSet(seq) \cap set
    BY DEF ToSet
<1> HIDE DEF places
<1> QED
    BY <1>1, <1>2, AtPlaces

\* Once keeps every element, and none twice.
LEMMA OnceKeeps ==
    ASSUME NEW S, NEW seq \in Seq(S)
    PROVE  /\ Once(seq) \in Seq(S)
           /\ ToSet(Once(seq)) = ToSet(seq)
           /\ \A m, n \in DOMAIN Once(seq) : m # n => Once(seq)[m] # Once(seq)[n]
<1> DEFINE firsts == {i \in DOMAIN seq : \A j \in 1 .. i - 1 : seq[j] # seq[i]}
<1>1. firsts \in SUBSET DOMAIN seq
    OBVIOUS
<1>2. \A i, j \in firsts : i # j => seq[i] # seq[j]
    <2>1. SUFFICES ASSUME NEW i \in firsts, NEW j \in firsts, i < j
                   PROVE  seq[i] # seq[j]
        OBVIOUS
    <2>2. i \in 1 .. j - 1
        BY <2>1
    <2> QED
        BY <2>2
<1>3. ASSUME NEW e \in ToSet(seq)
      PROVE  \E i \in firsts : seq[i] = e
    <2> DEFINE places == {i \in DOMAIN seq : seq[i] = e}
    <2>1. places \in SUBSET Nat /\ places # {}
        BY DEF ToSet
    <2>2. PICK i \in places : \A j \in places : i <= j
        <3> HIDE DEF places
        <3> QED
            BY <2>1, LeastNatural
    <2>3. \A j \in 1 .. i - 1 : j \in DOMAIN seq /\ ~(i <= j)
        BY <2>2
    <2> QED
        BY <2>2, <2>3
<1> HIDE DEF firsts
<1>4. Once(seq) = At(seq, firsts)
    BY DEF Once, firsts
<1>5. {seq[i] : i \in firsts} = ToSet(seq)
    BY <1>1, <1>3 DEF ToSet
<1> DEFINE at == At(seq, firsts)
<1>6. /\ at \in Seq(S) /\ ToSet(at) = {seq[i] : i \in firsts}
      /\ \A m, n \in DOMAIN at : m # n =>
             \E i, j \in firsts : i # j /\ at[m] = seq[i] /\ at[n] = seq[j]
    BY <1>1, AtPlaces
<1> HIDE DEF at
<1>7. \A m, n \in DOMAIN at : m # n => at[m] # at[n]
    BY <1>2, <1>6
<1> QED
    BY <1>4, <1>5, <1>6, <1>7 DEF at

\* What is kept of a sequence is chosen of its parts, one after the other.
LEMMA AmongConcat ==
    ASSUME NEW S, NEW u \in Seq(S), NEW v \in Seq(S), NEW set
    PROVE  Among(u \o v, set) = Among(u, set) \o Among(v, set)
<1> DEFINE w == u \o v
           pw == {i \in DOMAIN w : w[i] \in set}
           pu == {i \in DOMAIN u : u[i] \in set}
           pv == {i \in DOMAIN v : v[i] \in set}
           kw == KeptOf(w, pw)
           ku == KeptOf(u, pu)
           kv == KeptOf(v, pv)
<1>0. Len(u) \in Nat /\ Len(v) \in Nat
    OBVIOUS
<1>1. /\ w \in Seq(S) /\ Len(w) = Len(u) + Len(v) /\ DOMAIN w = 1 .. Len(w)
      /\ \A i \in 1 .. Len(u) : w[i] = u[i]
      /\ \A i \in 1 .. Len(v) : w[Len(u) + i] = v[i]
      /\ Len(u) \in Nat /\ Len(v) \in Nat
      /\ DOMAIN u = 1 .. Len(u) /\ DOMAIN v = 1 .. Len(v)
    OBVIOUS
<1> HIDE DEF w
<1>2. /\ \A i \in 1 .. Len(u) : i \in pw <=> i \in pu
      /\ \A i \in 1 .. Len(v) : Len(u) + i \in pw <=> i \in pv
    BY <1>1
<1> HIDE DEF pw, pu, pv
<1>3. /\ kw[0] = <<>> /\ ku[0] = <<>> /\ kv[0] = <<>>
      /\ \A k \in 0 .. Len(w) - 1 :
             kw[k + 1] = IF k + 1 \in pw THEN Append(kw[k], w[k + 1]) ELSE kw[k]
      /\ \A k \in 0 .. Len(u) - 1 :
             ku[k + 1] = IF k + 1 \in pu THEN Append(ku[k], u[k + 1]) ELSE ku[k]
      /\ \A k \in 0 .. Len(v) - 1 :
             kv[k + 1] = IF k + 1 \in pv THEN Append(kv[k], v[k + 1]) ELSE kv[k]
    <2>1. /\ kw[0] = <<>>
          /\ \A k \in 0 .. Len(w) - 1 :
                 kw[k + 1] = IF k + 1 \in pw THEN Append(kw[k], w[k + 1]) ELSE kw[k]
        <3>1. w \in Seq(S)
            BY <1>1
        <3> QED
            BY <3>1, PrefixesStep
    <2>2. /\ ku[0] = <<>>
          /\ \A k \in 0 .. Len(u) - 1 :
                 ku[k + 1] = IF k + 1 \in pu THEN Append(ku[k], u[k + 1]) ELSE ku[k]
        BY PrefixesStep
    <2>3. /\ kv[0] = <<>>
          /\ \A k \in 0 .. Len(v) - 1 :
                 kv[k + 1] = IF k + 1 \in pv THEN Append(kv[k], v[k + 1]) ELSE kv[k]
        BY PrefixesStep
    <2> QED
        BY <2>1, <2>2, <2>3
<1>4. /\ \A k \in 0 .. Len(u) : ku[k] \in Seq(S)
      /\ \A k \in 0 .. Len(v) : kv[k] \in Seq(S)
    BY KeptOfPrefix
<1> HIDE DEF kw, ku, kv
<1>5. kw[Len(u)] = ku[Len(u)]
    <2> DEFINE T == {k \in 0 .. Len(u) : kw[k] = ku[k]}
    <2>1. 0 \in T
        BY <1>1, <1>3
    <2>2. ASSUME NEW k \in 0 .. Len(u) - 1, k \in T
          PROVE  k + 1 \in T
        <3>1. k + 1 \in 1 .. Len(u) /\ k \in 0 .. Len(w) - 1 /\ k + 1 \in 0 .. Len(u)
            BY <1>1
        <3> QED
            BY <1>1, <1>2, <1>3, <2>2, <3>1
    <2> HIDE DEF T
    <2>3. Len(u) \in T
        <3>1. Len(u) \in 0 .. Len(u)
            BY <1>0
        <3> QED
            BY <1>0, <2>1, <2>2, <3>1, UpTo
    <2> QED
        BY <2>3 DEF T
<1>6. kw[Len(u) + Len(v)] = ku[Len(u)] \o kv[Len(v)]
    <2> DEFINE T == {k \in 0 .. Len(v) : kw[Len(u) + k] = ku[Len(u)] \o kv[k]}
               b == ku[Len(u)]
    <2>0. b \in Seq(S)
        BY <1>1, <1>4
    <2>1. 0 \in T
        <3>1. b \o <<>> = b /\ Len(u) + 0 = Len(u) /\ 0 \in 0 .. Len(v)
            BY <1>0, <2>0
        <3>2. kw[Len(u) + 0] = b \o kv[0]
            BY <1>3, <1>5, <3>1
        <3> QED
            BY <3>1, <3>2
    <2>2. ASSUME NEW k \in 0 .. Len(v) - 1, k \in T
          PROVE  k + 1 \in T
        <3> DEFINE n == Len(u) + k
        <3>1. /\ k + 1 \in 1 .. Len(v) /\ n \in 0 .. Len(w) - 1 /\ k + 1 \in 0 .. Len(v)
              /\ n + 1 = Len(u) + (k + 1) /\ k \in 0 .. Len(v)
            BY <1>1
        <3>2. /\ w[n + 1] = v[k + 1] /\ (n + 1 \in pw <=> k + 1 \in pv)
              /\ v[k + 1] \in S
            BY <1>1, <1>2, <3>1
        <3>3. kw[n] = b \o kv[k]
            BY <2>2
        <3>4. kw[n + 1] = IF n + 1 \in pw THEN Append(kw[n], w[n + 1]) ELSE kw[n]
            BY <1>3, <3>1
        <3>5. kv[k + 1] = IF k + 1 \in pv THEN Append(kv[k], v[k + 1]) ELSE kv[k]
            BY <1>3
        <3>6. kv[k] \in Seq(S)
            BY <1>4, <3>1
        <3>7. Append(b \o kv[k], v[k + 1]) = b \o Append(kv[k], v[k + 1])
            <4> HIDE DEF b
            <4>1. v[k + 1] \in S
                BY <3>2
            <4> DEFINE kk == kv[k]  e == v[k + 1]
            <4>3. kk \in Seq(S) /\ e \in S
                BY <3>6, <4>1
            <4> HIDE DEF kk, e
            <4>4. Append(b \o kk, e) = b \o Append(kk, e)
                <5>1. Append(b \o kk, e) = (b \o kk) \o <<e>>
                    BY <2>0, <4>3, ConcatProperties, AppendIsConcat
                <5>2. Append(kk, e) = kk \o <<e>>
                    BY <4>3, AppendIsConcat
                <5>3. (b \o kk) \o <<e>> = b \o (kk \o <<e>>)
                    <6>1. <<e>> \in Seq(S)
                        BY <4>3
                    <6> QED
                        BY <2>0, <4>3, <6>1, ConcatAssociative, SMTT(30)
                <5> QED
                    BY <5>1, <5>2, <5>3
            <4> QED
                BY <4>4 DEF kk, e
        <3> HIDE DEF n, b
        <3>8. kw[n + 1] = b \o kv[k + 1]
            BY <3>2, <3>3, <3>4, <3>5, <3>7
        <3> QED
            BY <3>1, <3>8 DEF b
    <2> HIDE DEF T
    <2>3. Len(v) \in T
        <3>1. Len(v) \in 0 .. Len(v)
            BY <1>0
        <3> QED
            BY <1>0, <2>1, <2>2, <3>1, UpTo
    <2> QED
        BY <2>3 DEF T
<1> QED
    BY <1>1, <1>6 DEF Among, At, kw, ku, kv, pw, pu, pv, w

\* A function that takes a value and a number to a value.
StaysIn(goes, S, n) == \A p \in S, m \in 1 .. n : goes[<<p, m>>] \in S

\* It starts with a value and goes on from each to the next, in a set.
GoesOn(f, start, goes, n, S) ==
    /\ f \in [0 .. n -> S]
    /\ f[0] = start
    /\ \A m \in 1 .. n : f[m] = goes[<<f[m - 1], m>>]

\* There is a function that starts with one value and takes every other from
\* the one before.
LEMMA Recursion ==
    ASSUME NEW S, NEW start \in S, NEW n \in Nat, NEW goes, StaysIn(goes, S, n)
    PROVE  \E f : GoesOn(f, start, goes, n, S)
<1> DEFINE Good(f, k) == /\ f \in [0 .. k -> S]
                         /\ f = [m \in 0 .. k |-> IF m = 0 THEN start ELSE goes[<<f[m - 1], m>>]]
           T == {k \in 0 .. n : \E f : Good(f, k)}
<1>1. 0 \in T
    <2> DEFINE f == [m \in 0 .. 0 |-> start]
    <2>1. \A m \in 0 .. 0 : m = 0
        OBVIOUS
    <2>2. Good(f, 0) /\ 0 \in 0 .. n
        BY <2>1
    <2> QED
        BY <2>2
<1>2. ASSUME NEW k \in 0 .. n - 1, k \in T
      PROVE  k + 1 \in T
    <2>1. PICK g : Good(g, k)
        BY <1>2
    <2> DEFINE f == [m \in 0 .. k + 1 |-> IF m = 0 THEN start ELSE goes[<<g[m - 1], m>>]]
    <2>2. \A m \in 0 .. k : f[m] = g[m]
        <3>1. 0 .. k \subseteq 0 .. k + 1
            OBVIOUS
        <3>2. \A m \in 0 .. k : g[m] = IF m = 0 THEN start ELSE goes[<<g[m - 1], m>>]
            BY <2>1
        <3> QED
            BY <3>1, <3>2
    <2>3. \A m \in 0 .. k + 1 : m # 0 => m - 1 \in 0 .. k /\ m \in 1 .. n
        OBVIOUS
    <2>4. \A m \in 0 .. k + 1 : m # 0 => f[m - 1] = g[m - 1]
        BY <2>2, <2>3
    <2>5. \A m \in 0 .. k + 1 : m # 0 => goes[<<g[m - 1], m>>] \in S
        BY <2>1, <2>3 DEF StaysIn
    <2>6. f \in [0 .. k + 1 -> S]
        BY <2>5
    <2>7. f = [m \in 0 .. k + 1 |-> IF m = 0 THEN start ELSE goes[<<f[m - 1], m>>]]
        BY <2>4
    <2>8. k + 1 \in 0 .. n
        OBVIOUS
    <2> HIDE DEF f
    <2> QED
        BY <2>6, <2>7, <2>8
<1> HIDE DEF T
<1>3. n \in T
    BY <1>1, <1>2, UpTo
<1>4. PICK f : Good(f, n)
    BY <1>3 DEF T
<1>5. 0 \in 0 .. n /\ \A m \in 1 .. n : m \in 0 .. n /\ m # 0
    OBVIOUS
<1>6. GoesOn(f, start, goes, n, S)
    BY <1>4, <1>5 DEF GoesOn
<1> QED
    BY <1>6

\* A prefix grows by the next element.
LEMMA PrefixGrows ==
    ASSUME NEW S, NEW s \in Seq(S)
    PROVE  /\ SubSeq(s, 1, 0) = <<>> /\ SubSeq(s, 1, Len(s)) = s
           /\ \A n \in 0 .. Len(s) : SubSeq(s, 1, n) \in Seq(S) /\ Len(SubSeq(s, 1, n)) = n
           /\ \A n \in 0 .. Len(s) - 1 :
                  n + 1 \in DOMAIN s /\ s[n + 1] \in S /\ SubSeq(s, 1, n + 1) = Append(SubSeq(s, 1, n), s[n + 1])
<1>1. Len(s) \in Nat /\ DOMAIN s = 1 .. Len(s)
    OBVIOUS
<1>2. SubSeq(s, 1, 0) = <<>> /\ SubSeq(s, 1, Len(s)) = s
    BY <1>1
<1>3. ASSUME NEW n \in 0 .. Len(s)
      PROVE  SubSeq(s, 1, n) \in Seq(S) /\ Len(SubSeq(s, 1, n)) = n
    <2>1. \A i \in 1 .. n : i \in 1 .. Len(s) /\ s[i] \in S
        BY <1>1
    <2> QED
        BY <2>1
<1>4. ASSUME NEW n \in 0 .. Len(s) - 1
      PROVE  n + 1 \in DOMAIN s /\ s[n + 1] \in S /\ SubSeq(s, 1, n + 1) = Append(SubSeq(s, 1, n), s[n + 1])
    <2>1. n + 1 \in DOMAIN s /\ s[n + 1] \in S
        BY <1>1
    <2> DEFINE u == SubSeq(s, 1, n + 1)  v == Append(SubSeq(s, 1, n), s[n + 1])
    <2>2. u \in Seq(S) /\ Len(u) = n + 1 /\ \A i \in 1 .. n + 1 : u[i] = s[i]
        BY <1>1
    <2>3. v \in Seq(S) /\ Len(v) = n + 1 /\ \A i \in 1 .. n + 1 : v[i] = s[i]
        <3> DEFINE p == SubSeq(s, 1, n)
        <3>1. p \in Seq(S) /\ Len(p) = n /\ \A i \in 1 .. n : p[i] = s[i]
            BY <1>1
        <3> HIDE DEF p
        <3> QED
            BY <2>1, <3>1
    <2> HIDE DEF u, v
    <2>4. u = v
        BY <2>2, <2>3, SeqEqual
    <2> QED
        BY <2>1, <2>4 DEF u, v
<1> QED
    BY <1>2, <1>3, <1>4

\* A sequence of nothing is empty.
LEMMA NoElements ==
    ASSUME NEW S, NEW u \in Seq(S), ToSet(u) = {}
    PROVE  u = <<>>
<1>1. Len(u) \in Nat /\ \A i \in 1 .. Len(u) : u[i] \in ToSet(u)
    BY DEF ToSet
<1>2. \A i \in 1 .. Len(u) : FALSE
    BY <1>1
<1>3. Len(u) = 0
    BY <1>1, <1>2
<1> QED
    BY <1>3

\* Where a relation goes round in no circle, a set of finitely many has one
\* that no other is before.
LEMMA SomeFirst ==
    ASSUME NEW all, IsFiniteSet(all), NEW before,
           \A x \in all : <<x, x>> \notin before,
           \A x, y, z \in all : <<x, y>> \in before /\ <<y, z>> \in before => <<x, z>> \in before
    PROVE  \A S \in SUBSET all : S # {} => \E x \in S : \A y \in S : <<y, x>> \notin before
<1> DEFINE Begins(S) == S # {} => \E x \in S : \A y \in S : <<y, x>> \notin before
           T == {k \in 0 .. Cardinality(all) : \A S \in SUBSET all : Cardinality(S) = k => Begins(S)}
<1>0. Cardinality(all) \in Nat /\ \A S \in SUBSET all : IsFiniteSet(S) /\ Cardinality(S) \in 0 .. Cardinality(all)
    <2>1. Cardinality(all) \in Nat
        BY FS_CardinalityType
    <2>2. ASSUME NEW S \in SUBSET all
          PROVE  IsFiniteSet(S) /\ Cardinality(S) \in 0 .. Cardinality(all)
        <3>1. IsFiniteSet(S) /\ Cardinality(S) <= Cardinality(all)
            BY FS_Subset
        <3>2. Cardinality(S) \in Nat
            BY <3>1, FS_CardinalityType
        <3> QED
            BY <2>1, <3>1, <3>2
    <2> QED
        BY <2>1, <2>2
<1>1. 0 \in T
    <2>1. \A S \in SUBSET all : Cardinality(S) = 0 => S = {}
        BY <1>0, FS_EmptySet
    <2> QED
        BY <1>0, <2>1
<1>2. ASSUME NEW k \in 0 .. Cardinality(all) - 1, k \in T
      PROVE  k + 1 \in T
    <2>1. ASSUME NEW S \in SUBSET all, Cardinality(S) = k + 1, S # {}
          PROVE  \E x \in S : \A y \in S : <<y, x>> \notin before
        <3>1. PICK x \in S : TRUE
            BY <2>1
        <3> DEFINE R == S \ {x}
        <3>2. Cardinality(R) = k /\ R \in SUBSET all
            <4>1. IsFiniteSet(S)
                BY <1>0
            <4>2. Cardinality(R) = Cardinality(S) - 1
                BY <3>1, <4>1, FS_RemoveElement
            <4> QED
                BY <2>1, <4>2
        <3>3. Begins(R)
            BY <1>2, <3>2
        <3>4. CASE R = {}
            <4>1. \A y \in S : y = x
                BY <3>4
            <4> QED
                BY <3>1, <4>1
        <3>5. CASE R # {}
            <4>1. PICK m \in R : \A y \in R : <<y, m>> \notin before
                BY <3>3, <3>5
            <4>2. \A y \in S : y = x \/ y \in R
                OBVIOUS
            <4>3. x \in all /\ m \in all /\ m \in S
                OBVIOUS
            <4>4. CASE <<x, m>> \in before
                <5>1. \A y \in R : <<y, x>> \notin before
                    BY <4>1, <4>3, <4>4
                <5> QED
                    BY <4>2, <4>3, <5>1
            <4>5. CASE <<x, m>> \notin before
                BY <4>1, <4>2, <4>3, <4>5
            <4> QED
                BY <4>4, <4>5
        <3> QED
            BY <3>4, <3>5
    <2>2. k + 1 \in 0 .. Cardinality(all)
        BY <1>0
    <2> QED
        BY <2>1, <2>2
<1> HIDE DEF T
<1>3. \A k \in 0 .. Cardinality(all) : k \in T
    BY <1>0, <1>1, <1>2, UpTo
<1>4. ASSUME NEW S \in SUBSET all
      PROVE  Begins(S)
    <2>1. Cardinality(S) \in T
        BY <1>0, <1>3
    <2> QED
        BY <2>1 DEF T
<1> QED
    BY <1>4

-----------------------------------------------------------------------------
(* Rows of papers *)

\* As many rows as items.
LEMMA RowsOfItems ==
    ASSUME NEW S, IsFiniteSet(S), NEW r
    PROVE  /\ IsFiniteSet([item: S, by: {r}])
           /\ Cardinality([item: S, by: {r}]) = Cardinality(S)
<1> DEFINE f == [i \in S |-> [item |-> i, by |-> r]]
<1>1. f \in [S -> [item: S, by: {r}]]
    OBVIOUS
<1>2. \A i, j \in S : f[i] = f[j] => i = j
    OBVIOUS
<1>3. \A p \in [item: S, by: {r}] : \E i \in S : f[i] = p
    OBVIOUS
<1>4. f \in Bijection(S, [item: S, by: {r}])
    <2> HIDE DEF f
    <2> QED
        BY <1>1, <1>2, <1>3 DEF Bijection, Injection, IsInjective, Surjection
<1>5. ExistsBijection(S, [item: S, by: {r}])
    BY <1>4 DEF ExistsBijection
<1> QED
    BY <1>5, FS_Bijection

\* Two finite sets without a common element add up.
LEMMA DisjointUnion ==
    ASSUME NEW S, NEW T, IsFiniteSet(S), IsFiniteSet(T), S \cap T = {}
    PROVE  IsFiniteSet(S \cup T) /\ Cardinality(S \cup T) = Cardinality(S) + Cardinality(T)
<1>1. Cardinality(S) \in Nat /\ Cardinality(T) \in Nat
    BY FS_CardinalityType
<1>2. Cardinality(S \cap T) = 0
    BY FS_EmptySet
<1>3. /\ IsFiniteSet(S \cup T)
      /\ Cardinality(S \cup T) = Cardinality(S) + Cardinality(T) - Cardinality(S \cap T)
    BY FS_Union
<1> QED
    BY <1>1, <1>2, <1>3

\* A commit adds what the run kept to what it has stored, and to nobody else's.
LEMMA CommitAdds ==
    ASSUME IInv, NEW r \in Runs, papers' = papers \cup [item: kept[r].papers, by: {r}]
    PROVE  /\ IsFiniteSet(OwnPapers(r)')
           /\ Cardinality(OwnPapers(r)') = Cardinality(OwnPapers(r)) + Cardinality(kept[r].papers)
           /\ Cardinality(OwnPapers(r)) \in Nat /\ Cardinality(kept[r].papers) \in Nat
           /\ \A q \in Runs : q # r => OwnPapers(q)' = OwnPapers(q)
<1> DEFINE new == [item: kept[r].papers, by: {r}]
<1>1. IsFiniteSet(OwnPapers(r)) /\ IsFiniteSet(kept[r].papers)
    BY DEF IInv, Counted, PendingIsNew
<1>2. IsFiniteSet(new) /\ Cardinality(new) = Cardinality(kept[r].papers)
    BY <1>1, RowsOfItems
<1>3. \A p \in new : p.by = r /\ p.item \in kept[r].papers
    OBVIOUS
<1>4. OwnPapers(r) \cap new = {}
    BY <1>3 DEF IInv, PendingIsNew
<1> HIDE DEF new
<1>5. OwnPapers(r)' = OwnPapers(r) \cup new
    BY <1>3 DEF OwnPapers, new
<1>6. \A q \in Runs : q # r => OwnPapers(q)' = OwnPapers(q)
    BY <1>3 DEF OwnPapers, new
<1>7. Cardinality(OwnPapers(r)) \in Nat /\ Cardinality(new) \in Nat
    BY <1>1, <1>2, FS_CardinalityType
<1>8. Cardinality(OwnPapers(r) \cup new) = Cardinality(OwnPapers(r)) + Cardinality(new)
    BY <1>1, <1>2, <1>4, DisjointUnion
<1>9. IsFiniteSet(OwnPapers(r) \cup new)
    BY <1>1, <1>2, FS_Union
<1> QED
    BY <1>2, <1>5, <1>6, <1>7, <1>8, <1>9

-----------------------------------------------------------------------------
(* The steps *)

\* A step of a run that commits no paper and counts none.
LEMMA UncommittedStep ==
    ASSUME IInv, NEW r \in Runs, UNCHANGED <<papers, cut>>, r \notin cut \/ pc'[r] = pc[r],
           \A q \in Runs : q # r => pc'[q] = pc[q] /\ kept'[q] = kept[q] /\ fresh'[q] = fresh[q],
           \A q \in Runs : row'[q].inserted = row[q].inserted,
           Shapes', PendingIsNew(r)'
    PROVE  IInv'
<1>1. \A q \in Runs : OwnPapers(q)' = OwnPapers(q)
    BY DEF OwnPapers
<1>2. ASSUME NEW q \in Runs
      PROVE  PendingIsNew(q)' /\ Counted(q)' /\ (q \in cut' => pc'[q] = "end")
    BY <1>1 DEF IInv, PendingIsNew, Counted
<1> QED
    BY <1>2 DEF IInv

\* A run leaves: nothing is pending any more.
LEMMA LeaveEmpties ==
    ASSUME IInv, NEW r \in Runs, Leave(r)
    PROVE  /\ DOMAIN pc' = Runs /\ pc'[r] = "end"
           /\ DOMAIN kept' = Runs /\ DOMAIN fresh' = Runs
           /\ kept'[r] = Nothing /\ fresh'[r] = Nothing
           /\ \A q \in Runs : q # r => pc'[q] = pc[q] /\ kept'[q] = kept[q] /\ fresh'[q] = fresh[q]
           /\ \A q \in Runs : DOMAIN fresh'[q] = {"papers", "authors"}
           /\ PendingIsNew(r)'
<1>1. Nothing.papers = {} /\ DOMAIN Nothing = {"papers", "authors"}
    BY DEF Nothing
<1>2. /\ pc' = [pc EXCEPT ![r] = "end"]
      /\ kept' = [kept EXCEPT ![r] = Nothing] /\ fresh' = [fresh EXCEPT ![r] = Nothing]
    BY DEF Leave
<1> HIDE DEF Nothing
<1>3. /\ DOMAIN pc' = Runs /\ pc'[r] = "end"
      /\ DOMAIN kept' = Runs /\ DOMAIN fresh' = Runs
      /\ kept'[r] = Nothing /\ fresh'[r] = Nothing
      /\ \A q \in Runs : q # r => pc'[q] = pc[q] /\ kept'[q] = kept[q] /\ fresh'[q] = fresh[q]
    BY <1>2 DEF IInv, Shapes
<1>4. \A q \in Runs : DOMAIN fresh'[q] = {"papers", "authors"}
    BY <1>1, <1>3 DEF IInv, Shapes
<1>5. PendingIsNew(r)'
    BY <1>1, <1>3, FS_EmptySet DEF PendingIsNew
<1> QED
    BY <1>3, <1>4, <1>5

LEMMA LaunchInvariant ==
    ASSUME IInv, NEW r \in Runs, Launch(r)
    PROVE  IInv'
<1>1. row' = [row EXCEPT ![r].status = "running", ![r].resume = next'[r]]
      /\ pc' = [pc EXCEPT ![r] = "fetch"] /\ pc[r] = "off"
      /\ UNCHANGED <<papers, kept, fresh, cut>>
    BY DEF Launch
<1>2. r \notin cut
    BY <1>1 DEF IInv
<1>3. Shapes' /\ \A q \in Runs : row'[q].inserted = row[q].inserted
    BY <1>1 DEF IInv, Shapes
<1>4. PendingIsNew(r)'
    BY <1>1 DEF IInv, PendingIsNew, OwnPapers
<1> QED
    BY <1>1, <1>2, <1>3, <1>4, UncommittedStep DEF IInv, Shapes

\* The steps that neither put nor drop a paper.
LEMMA QuietInvariant ==
    ASSUME IInv, NEW r \in Runs, NEW label, pc' = pc \/ pc' = [pc EXCEPT ![r] = label], pc[r] # "end",
           UNCHANGED <<papers, row, kept, fresh, cut>>
    PROVE  IInv'
<1>1. r \notin cut
    BY DEF IInv
<1>2. Shapes' /\ PendingIsNew(r)'
    BY DEF IInv, Shapes, PendingIsNew, OwnPapers
<1> QED
    BY <1>1, <1>2, UncommittedStep DEF IInv, Shapes

\* A savepoint is rolled back.
LEMMA RefuseInvariant ==
    ASSUME IInv, NEW r \in Runs, pc[r] # "end", Refuse(r), UNCHANGED <<papers, row, kept, cut>>
    PROVE  IInv'
<1>1. fresh' = [fresh EXCEPT ![r] = Nothing] /\ pc' = [pc EXCEPT ![r] = "paper"]
    BY DEF Refuse
<1>2. Nothing.papers = {} /\ DOMAIN Nothing = {"papers", "authors"}
    BY DEF Nothing
<1> HIDE DEF Nothing
<1>3. r \notin cut
    BY DEF IInv
<1>4. fresh'[r] = Nothing /\ \A q \in Runs : q # r => fresh'[q] = fresh[q] /\ pc'[q] = pc[q]
    BY <1>1 DEF IInv, Shapes
<1>5. Shapes'
    BY <1>1, <1>2, <1>4 DEF IInv, Shapes
<1>6. PendingIsNew(r)'
    BY <1>2, <1>4, FS_EmptySet DEF IInv, PendingIsNew, OwnPapers
<1> QED
    BY <1>3, <1>4, <1>5, <1>6, UncommittedStep

LEMMA InsertPaperInvariant ==
    ASSUME IInv, NEW r \in Runs, InsertPaper(r)
    PROVE  IInv'
<1> DEFINE item == Head(page[r])
<1>1. pc[r] = "paper" /\ UNCHANGED <<papers, row, kept, cut>>
    BY DEF InsertPaper, tables
<1>2. CASE item \in Stored \cup kept[r].papers
    BY <1>1, <1>2, RefuseInvariant DEF InsertPaper
<1>3. CASE item \notin Stored \cup kept[r].papers
    <2>1. fresh' = [fresh EXCEPT ![r].papers = {item}] /\ pc' = [pc EXCEPT ![r] = "lookup"]
        BY <1>3 DEF InsertPaper
    <2>2. fresh'[r].papers = {item} /\ DOMAIN fresh'[r] = {"papers", "authors"}
          /\ \A q \in Runs : q # r => fresh'[q] = fresh[q] /\ pc'[q] = pc[q]
        BY <2>1 DEF IInv, Shapes
    <2>3. Shapes'
        BY <1>1, <2>1, <2>2 DEF IInv, Shapes
    <2>4. IsFiniteSet({item})
        BY FS_EmptySet, FS_AddElement, FS_Singleton
    <2>5. \A p \in OwnPapers(r) : p.item # item
        BY <1>3 DEF OwnPapers, Stored
    <2>6. PendingIsNew(r)'
        BY <1>1, <1>3, <2>2, <2>4, <2>5 DEF IInv, PendingIsNew, OwnPapers
    <2>7. r \notin cut
        BY <1>1 DEF IInv
    <2> QED
        BY <1>1, <2>2, <2>3, <2>6, <2>7, UncommittedStep
<1> QED
    BY <1>2, <1>3

LEMMA LookupAuthorInvariant ==
    ASSUME IInv, NEW r \in Runs, LookupAuthor(r)
    PROVE  IInv'
<1>1. pc[r] = "lookup" /\ UNCHANGED <<papers, row, kept, cut>>
    BY DEF LookupAuthor, tables
<1>2. CASE Refuse(r)
    BY <1>1, <1>2, RefuseInvariant
<1>3. CASE ~ Refuse(r)
    <2>1. fresh' = fresh /\ (pc' = pc \/ pc' = [pc EXCEPT ![r] = "author"])
        BY <1>3 DEF LookupAuthor
    <2> QED
        BY <1>1, <2>1, QuietInvariant
<1> QED
    BY <1>2, <1>3

LEMMA InsertAuthorInvariant ==
    ASSUME IInv, NEW r \in Runs, InsertAuthor(r)
    PROVE  IInv'
<1>1. pc[r] = "author" /\ UNCHANGED <<papers, row, kept, cut>>
    BY DEF InsertAuthor, tables
<1>2. CASE Refuse(r)
    BY <1>1, <1>2, RefuseInvariant
<1>3. CASE ~ Refuse(r)
    <2>1. PICK names : fresh' = [fresh EXCEPT ![r].authors = names]
        BY <1>3 DEF InsertAuthor
    <2>2. pc' = [pc EXCEPT ![r] = "lookup"]
        BY <1>3 DEF InsertAuthor
    <2>3. fresh'[r].papers = fresh[r].papers /\ DOMAIN fresh'[r] = {"papers", "authors"}
          /\ \A q \in Runs : q # r => fresh'[q] = fresh[q] /\ pc'[q] = pc[q]
        BY <2>1, <2>2 DEF IInv, Shapes
    <2>4. Shapes'
        BY <1>1, <2>1, <2>2, <2>3 DEF IInv, Shapes
    <2>5. PendingIsNew(r)'
        BY <1>1, <2>3 DEF IInv, PendingIsNew, OwnPapers
    <2>6. r \notin cut
        BY <1>1 DEF IInv
    <2> QED
        BY <1>1, <2>3, <2>4, <2>5, <2>6, UncommittedStep
<1> QED
    BY <1>2, <1>3

LEMMA FinishPaperInvariant ==
    ASSUME IInv, NEW r \in Runs, FinishPaper(r)
    PROVE  IInv'
<1>1. CASE ~ CategoriesFit(Head(page[r]))
    <2>1. pc[r] = "lookup" /\ Refuse(r) /\ UNCHANGED <<papers, row, kept, cut>>
        BY <1>1 DEF FinishPaper, tables
    <2> QED
        BY <2>1, RefuseInvariant
<1>2. CASE CategoriesFit(Head(page[r]))
    <2>1. /\ pc[r] = "lookup" /\ pc' = [pc EXCEPT ![r] = "paper"]
          /\ kept' = [kept EXCEPT ![r] = Pending(r)] /\ fresh' = [fresh EXCEPT ![r] = Nothing]
          /\ UNCHANGED <<papers, row, cut>>
        BY <1>2 DEF FinishPaper, tables
    <2>2. Nothing.papers = {} /\ DOMAIN Nothing = {"papers", "authors"}
        BY DEF Nothing
    <2>3. Pending(r).papers = kept[r].papers \cup fresh[r].papers
        BY DEF Pending
    <2> HIDE DEF Nothing, Pending
    <2>4. /\ kept'[r].papers = kept[r].papers \cup fresh[r].papers /\ fresh'[r] = Nothing
          /\ \A q \in Runs : q # r => kept'[q] = kept[q] /\ fresh'[q] = fresh[q] /\ pc'[q] = pc[q]
        BY <2>1, <2>3 DEF IInv, Shapes
    <2>5. Shapes'
        BY <2>1, <2>2, <2>4 DEF IInv, Shapes
    <2>6. IsFiniteSet(kept[r].papers \cup fresh[r].papers)
        BY FS_Union DEF IInv, PendingIsNew
    <2>7. PendingIsNew(r)'
        BY <2>1, <2>2, <2>4, <2>6, FS_EmptySet DEF IInv, PendingIsNew, OwnPapers
    <2>8. r \notin cut
        BY <2>1 DEF IInv
    <2> QED
        BY <2>1, <2>4, <2>5, <2>7, <2>8, UncommittedStep
<1> QED
    BY <1>1, <1>2

LEMMA CommitPageInvariant ==
    ASSUME IInv, NEW r \in Runs, CommitPage(r)
    PROVE  IInv'
<1>1. /\ pc[r] = "paper" /\ papers' = papers \cup [item: kept[r].papers, by: {r}]
      /\ kept' = [kept EXCEPT ![r] = Nothing]
      /\ pc' = [pc EXCEPT ![r] = "commit"]
      /\ UNCHANGED <<fresh, cut>>
    BY DEF CommitPage, Visible
<1>2. Nothing.papers = {}
    BY DEF Nothing
<1> HIDE DEF Nothing
<1>3. /\ row'[r].inserted = row[r].inserted + Cardinality(kept[r].papers)
      /\ DOMAIN row'[r] = DOMAIN row[r] /\ DOMAIN row' = Runs
      /\ \A q \in Runs : q # r => row'[q] = row[q]
    BY DEF CommitPage, IInv, Shapes
<1>4. Shapes'
    BY <1>1, <1>3 DEF IInv, Shapes
<1>5. /\ IsFiniteSet(OwnPapers(r)')
      /\ Cardinality(OwnPapers(r)') = Cardinality(OwnPapers(r)) + Cardinality(kept[r].papers)
      /\ Cardinality(OwnPapers(r)) \in Nat /\ Cardinality(kept[r].papers) \in Nat
      /\ \A q \in Runs : q # r => OwnPapers(q)' = OwnPapers(q)
    BY <1>1, CommitAdds
<1>6. r \notin cut
    BY <1>1 DEF IInv
<1>7. kept'[r] = Nothing /\ \A q \in Runs : q # r => kept'[q] = kept[q] /\ pc'[q] = pc[q]
    BY <1>1 DEF IInv, Shapes
<1>8. Counted(r)'
    <2>1. row[r].inserted \in Nat /\ row[r].inserted = Cardinality(OwnPapers(r))
        BY <1>6 DEF IInv, Counted
    <2> QED
        BY <1>1, <1>3, <1>5, <1>6, <2>1 DEF Counted
<1>9. PendingIsNew(r)'
    <2>1. \A p \in OwnPapers(r)' : p \in OwnPapers(r) \/ p.item \in kept[r].papers
        BY <1>1 DEF OwnPapers
    <2> QED
        BY <1>1, <1>2, <1>7, <2>1, FS_EmptySet DEF IInv, PendingIsNew
<1>10. ASSUME NEW q \in Runs, q # r
       PROVE  PendingIsNew(q)' /\ Counted(q)' /\ (q \in cut' => pc'[q] = "end")
    BY <1>1, <1>3, <1>5, <1>7, <1>10 DEF IInv, PendingIsNew, Counted
<1> QED
    BY <1>1, <1>4, <1>6, <1>8, <1>9, <1>10 DEF IInv

LEMMA PageErrorInvariant ==
    ASSUME IInv, NEW r \in Runs, PageError(r)
    PROVE  IInv'
<1>1. /\ papers' = papers \cup [item: kept[r].papers, by: {r}]
      /\ row' = [row EXCEPT ![r].status = "failed"]
      /\ cut' = cut \cup {r} /\ Leave(r)
    BY DEF PageError, Visible
<1>2. /\ DOMAIN pc' = Runs /\ pc'[r] = "end"
      /\ DOMAIN kept' = Runs /\ DOMAIN fresh' = Runs
      /\ kept'[r] = Nothing /\ fresh'[r] = Nothing
      /\ \A q \in Runs : q # r => pc'[q] = pc[q] /\ kept'[q] = kept[q] /\ fresh'[q] = fresh[q]
      /\ \A q \in Runs : DOMAIN fresh'[q] = {"papers", "authors"}
      /\ PendingIsNew(r)'
    BY <1>1, LeaveEmpties
<1>3. /\ row'[r].inserted = row[r].inserted
      /\ DOMAIN row' = Runs /\ \A q \in Runs : DOMAIN row'[q] = DOMAIN row[q]
      /\ \A q \in Runs : q # r => row'[q] = row[q]
    BY <1>1 DEF IInv, Shapes
<1>4. Shapes'
    BY <1>2, <1>3 DEF IInv, Shapes
<1>5. /\ IsFiniteSet(OwnPapers(r)')
      /\ Cardinality(OwnPapers(r)') = Cardinality(OwnPapers(r)) + Cardinality(kept[r].papers)
      /\ Cardinality(OwnPapers(r)) \in Nat /\ Cardinality(kept[r].papers) \in Nat
      /\ \A q \in Runs : q # r => OwnPapers(q)' = OwnPapers(q)
    BY <1>1, CommitAdds
<1>6. Counted(r)'
    <2>1. row[r].inserted \in Nat /\ row[r].inserted <= Cardinality(OwnPapers(r))
        BY <1>5 DEF IInv, Counted
    <2>2. r \in cut'
        BY <1>1
    <2> QED
        BY <1>3, <1>5, <2>1, <2>2 DEF Counted
<1>7. ASSUME NEW q \in Runs, q # r
      PROVE  PendingIsNew(q)' /\ Counted(q)' /\ (q \in cut' => pc'[q] = "end")
    BY <1>1, <1>2, <1>3, <1>5, <1>7 DEF IInv, PendingIsNew, Counted
<1> QED
    BY <1>2, <1>4, <1>6, <1>7 DEF IInv

\* The other ends.
LEMMA LeaveInvariant ==
    ASSUME IInv, NEW r \in Runs, Leave(r), NEW s, pc[r] # "end",
           row' = row \/ row' = [row EXCEPT ![r].status = s], UNCHANGED <<papers, cut>>
    PROVE  IInv'
<1>1. /\ DOMAIN pc' = Runs /\ pc'[r] = "end"
      /\ DOMAIN kept' = Runs /\ DOMAIN fresh' = Runs
      /\ \A q \in Runs : q # r => pc'[q] = pc[q] /\ kept'[q] = kept[q] /\ fresh'[q] = fresh[q]
      /\ \A q \in Runs : DOMAIN fresh'[q] = {"papers", "authors"}
      /\ PendingIsNew(r)'
    BY LeaveEmpties
<1>2. DOMAIN row' = Runs /\ \A q \in Runs : DOMAIN row'[q] = DOMAIN row[q] /\ row'[q].inserted = row[q].inserted
    BY DEF IInv, Shapes
<1>3. Shapes'
    BY <1>1, <1>2 DEF IInv, Shapes
<1>4. r \notin cut
    BY DEF IInv
<1> QED
    BY <1>1, <1>2, <1>3, <1>4, UncommittedStep

-----------------------------------------------------------------------------
(* The theorem *)

LEMMA InitInvariant ==
    ASSUME Init
    PROVE  IInv
<1>1. IsFiniteSet({}) /\ Cardinality({}) = 0
    BY FS_EmptySet
<1>2. Shapes
    BY DEF Init, Shapes, Nothing
<1>3. ASSUME NEW r \in Runs
      PROVE  PendingIsNew(r) /\ Counted(r) /\ (r \in cut => pc[r] = "end")
    <2>1. OwnPapers(r) = {} /\ kept[r].papers = {} /\ fresh[r].papers = {}
          /\ row[r].inserted = 0 /\ cut = {}
        BY DEF Init, OwnPapers, Nothing
    <2> QED
        BY <1>1, <2>1 DEF PendingIsNew, Counted
<1> QED
    BY <1>2, <1>3 DEF IInv

LEMMA NextInvariant ==
    ASSUME IInv, [Next]_vars
    PROVE  IInv'
<1>1. ASSUME NEW s \in Sources, Publish(s)
      PROVE  IInv'
    BY <1>1 DEF Publish, tables, work, IInv, Shapes, PendingIsNew, Counted, OwnPapers
<1>2. ASSUME NEW r \in Runs, Launch(r) \/ InsertPaper(r) \/ LookupAuthor(r) \/ InsertAuthor(r)
      PROVE  IInv'
    BY <1>2, LaunchInvariant, InsertPaperInvariant, LookupAuthorInvariant, InsertAuthorInvariant
<1>3. ASSUME NEW r \in Runs, FinishPaper(r) \/ CommitPage(r) \/ PageError(r)
      PROVE  IInv'
    BY <1>3, FinishPaperInvariant, CommitPageInvariant, PageErrorInvariant
<1>4. ASSUME NEW r \in Runs, Fetch(r)
      PROVE  IInv'
    <2>1. pc[r] = "fetch" /\ pc' = [pc EXCEPT ![r] = "paper"]
          /\ UNCHANGED <<papers, row, kept, fresh, cut>>
        BY <1>4 DEF Fetch, tables
    <2> QED
        BY <2>1, QuietInvariant
<1>5. ASSUME NEW r \in Runs, Continue(r)
      PROVE  IInv'
    <2>1. pc[r] = "commit" /\ pc' = [pc EXCEPT ![r] = "fetch"]
          /\ UNCHANGED <<papers, row, kept, fresh, cut>>
        BY <1>5 DEF Continue, tables
    <2> QED
        BY <2>1, QuietInvariant
<1>6. ASSUME NEW r \in Runs, Stop(r) \/ FetchFails(r) \/ Kill(r)
      PROVE  IInv'
    BY <1>6, LeaveInvariant DEF Stop, FetchFails, Kill, Alive, tables
<1>7. CASE UNCHANGED vars
    BY <1>7 DEF vars, tables, work, IInv, Shapes, PendingIsNew, Counted, OwnPapers
<1> QED
    BY <1>1, <1>2, <1>3, <1>4, <1>5, <1>6, <1>7 DEF Next

LEMMA IngestionInvariant == Spec => []IInv
<1>1. Init => IInv
    BY InitInvariant
<1>2. IInv /\ [Next]_vars => IInv'
    BY NextInvariant
<1> QED
    BY <1>1, <1>2, PTL DEF Spec

-----------------------------------------------------------------------------
(* The progress of ingestion runs.                                         *)

\* The first element of a sequence, and the others.
LEMMA HeadAndTail ==
    ASSUME NEW S, NEW seq \in Seq(S), seq # <<>>
    PROVE  /\ Head(seq) \in S /\ Tail(seq) \in Seq(S)
           /\ ToSet(seq) = {Head(seq)} \cup ToSet(Tail(seq))
           /\ NoneTwice(seq) => NoneTwice(Tail(seq)) /\ Head(seq) \notin ToSet(Tail(seq))
<1>1. /\ Head(seq) = seq[1] /\ Head(seq) \in S /\ Tail(seq) \in Seq(S)
      /\ Len(seq) \in Nat /\ Len(seq) >= 1 /\ DOMAIN seq = 1 .. Len(seq)
      /\ DOMAIN Tail(seq) = 1 .. Len(seq) - 1
      /\ \A i \in 1 .. Len(seq) - 1 : Tail(seq)[i] = seq[i + 1]
    OBVIOUS
<1> DEFINE tail == Tail(seq)
<1> HIDE DEF tail
<1>2. DOMAIN tail = 1 .. Len(seq) - 1 /\ \A i \in DOMAIN tail : tail[i] = seq[i + 1] /\ i + 1 \in DOMAIN seq /\ i + 1 # 1
    BY <1>1 DEF tail
<1>3. \A j \in DOMAIN seq : j = 1 \/ (j - 1 \in DOMAIN tail /\ tail[j - 1] = seq[j])
    <2>1. ASSUME NEW j \in DOMAIN seq, j # 1
          PROVE  j - 1 \in DOMAIN tail /\ tail[j - 1] = seq[j]
        <3> DEFINE i == j - 1
        <3>1. i \in DOMAIN tail /\ i + 1 = j
            BY <1>1, <1>2, <2>1
        <3> HIDE DEF i
        <3>2. tail[i] = seq[j]
            BY <1>2, <3>1
        <3> QED
            BY <3>1, <3>2 DEF i
    <2> QED
        BY <2>1
<1>4. ToSet(seq) = {Head(seq)} \cup ToSet(tail)
    <2>1. 1 \in DOMAIN seq
        BY <1>1
    <2>2. \A j \in DOMAIN seq : seq[j] \in {Head(seq)} \cup ToSet(tail)
        BY <1>1, <1>3 DEF ToSet
    <2>3. \A i \in DOMAIN tail : tail[i] \in ToSet(seq)
        BY <1>2 DEF ToSet
    <2>4. Head(seq) \in ToSet(seq)
        BY <1>1, <2>1 DEF ToSet
    <2> QED
        BY <2>2, <2>3, <2>4 DEF ToSet
<1>5. ASSUME NoneTwice(seq)
      PROVE  NoneTwice(tail) /\ Head(seq) \notin ToSet(tail)
    <2>1. ASSUME NEW i \in DOMAIN tail, NEW j \in DOMAIN tail, i # j
          PROVE  tail[i] # tail[j]
        <3>1. i + 1 # j + 1 /\ i + 1 \in DOMAIN seq /\ j + 1 \in DOMAIN seq
            BY <1>1, <1>2, <2>1
        <3>2. seq[i + 1] # seq[j + 1]
            BY <1>5, <3>1 DEF NoneTwice
        <3> QED
            BY <1>2, <3>2
    <2>2. ASSUME NEW i \in DOMAIN tail
          PROVE  tail[i] # Head(seq)
        <3>1. i + 1 # 1 /\ i + 1 \in DOMAIN seq /\ 1 \in DOMAIN seq
            BY <1>1, <1>2
        <3>2. seq[i + 1] # seq[1]
            BY <1>5, <3>1 DEF NoneTwice
        <3> QED
            BY <1>1, <1>2, <3>2
    <2> QED
        BY <2>1, <2>2 DEF NoneTwice, ToSet
<1> QED
    BY <1>1, <1>4, <1>5 DEF tail

\* A step of one run: of the others it touches nothing, of the tables it only adds.
OnlyTouches(r) ==
    /\ feed' = feed /\ coming' = coming /\ source' = source
    /\ Stored \subseteq Stored' /\ errors \subseteq errors'
    /\ \A q \in Runs : q # r =>
         /\ pc'[q] = pc[q] /\ next'[q] = next[q] /\ row'[q] = row[q]
         /\ page'[q] = page[q] /\ byline'[q] = byline[q] /\ linked'[q] = linked[q]
         /\ kept'[q] = kept[q] /\ fresh'[q] = fresh[q]
         /\ refused'[q] = refused[q] /\ counts'[q] = counts[q] /\ promised'[q] = promised[q]

\* What others have in hand stays; and one that is still alone cannot be alive.
LEMMA OthersKeep ==
    ASSUME ProgressInv, NEW r \in Runs, OnlyTouches(r), pc[r] # "end",
           \A q \in Runs : q # r => met'[q] = IF pc[r] = "off" /\ q \in Alive THEN met[q] \cup {r} ELSE met[q],
           NEW q \in Runs, q # r
    PROVE  InHand(q)' /\ AloneIsSafe(q)' /\ NothingIsLeft(q)'
<1>1. InHand(q) /\ NothingIsLeft(q) /\ AliveHaveMet
    BY DEF ProgressInv
<1>2. /\ feed' = feed /\ source' = source /\ Stored \subseteq Stored' /\ errors \subseteq errors'
      /\ pc'[q] = pc[q] /\ next'[q] = next[q] /\ row'[q] = row[q]
      /\ page'[q] = page[q] /\ byline'[q] = byline[q] /\ linked'[q] = linked[q]
      /\ kept'[q] = kept[q] /\ fresh'[q] = fresh[q]
      /\ refused'[q] = refused[q] /\ counts'[q] = counts[q] /\ promised'[q] = promised[q]
    BY DEF OnlyTouches
<1>3. InHand(q)'
    <2>1. met[q] = {} /\ pc[q] = "off" => met'[q] = {}
        BY DEF Alive
    <2>2. NoneTwice(page[q])' = NoneTwice(page[q]) /\ NoneTwice(byline[q])' = NoneTwice(byline[q])
        BY <1>2 DEF NoneTwice
    <2>3. ToSet(page[q])' = ToSet(page[q]) /\ ToSet(byline[q])' = ToSet(byline[q])
        BY <1>2 DEF ToSet
    <2> QED
        BY <1>1, <1>2, <2>1, <2>2, <2>3 DEF InHand
<1>4. AloneIsSafe(q)'
    <2>1. ASSUME q \in Alive'
          PROVE  met'[q] # {}
        <3>1. q \in Alive
            BY <1>2, <2>1 DEF Alive
        <3>2. CASE pc[r] = "off"
            BY <3>1, <3>2
        <3>3. CASE pc[r] # "off"
            <4>1. r \in Alive /\ met'[q] = met[q]
                BY <3>3 DEF Alive
            <4> QED
                BY <1>1, <3>1, <4>1 DEF AliveHaveMet
        <3> QED
            BY <3>2, <3>3
    <2> QED
        BY <2>1 DEF AloneIsSafe
<1>5. NothingIsLeft(q)'
    <2>1. (\A n : Passed(q, n)' = Passed(q, n)) /\ Recorded \subseteq Recorded' /\ Unfinished(q)' = Unfinished(q)
        BY <1>2 DEF Passed, Recorded, Unfinished
    <2>2. (q \in Alive)' = (q \in Alive)
        BY <1>2 DEF Alive
    <2> QED
        BY <1>1, <1>2, <2>1, <2>2 DEF NothingIsLeft
<1> QED
    BY <1>3, <1>4, <1>5

\* A step that is not a launch, of a run that is alive, leaves who has met whom.
LEMMA MetKeeps ==
    ASSUME AliveHaveMet, met' = met, NEW r \in Runs, r \in Alive,
           \A q \in Runs : q # r => pc'[q] = pc[q]
    PROVE  AliveHaveMet'
BY DEF AliveHaveMet, Alive

\* Who touches only one run keeps the invariant if it does for that run.
LEMMA RunStep ==
    ASSUME ProgressInv, NEW r \in Runs, r \in Alive, OnlyTouches(r), met' = met,
           Sorts', LossNeedsOverlap', InHand(r)', AloneIsSafe(r)', NothingIsLeft(r)'
    PROVE  ProgressInv'
<1>1. pc[r] \notin {"off", "end"}
    BY DEF Alive
<1>2. \A q \in Runs : q # r => met'[q] = IF pc[r] = "off" /\ q \in Alive THEN met[q] \cup {r} ELSE met[q]
    BY <1>1
<1>3. \A q \in Runs : q # r => InHand(q)' /\ AloneIsSafe(q)' /\ NothingIsLeft(q)'
    BY <1>1, <1>2, OthersKeep
<1>4. NewsIsNew'
    BY DEF OnlyTouches, ProgressInv, NewsIsNew, NoneTwice
<1>5. AliveHaveMet'
    BY MetKeeps DEF OnlyTouches, ProgressInv
<1> QED
    BY <1>3, <1>4, <1>5 DEF ProgressInv

\* A step in the middle of a page: only what is in hand changes.
MidPage(r) ==
    /\ feed' = feed /\ coming' = coming /\ source' = source
    /\ papers' = papers /\ authors' = authors /\ errors' = errors /\ row' = row
    /\ next' = next /\ last' = last /\ counts' = counts /\ promised' = promised /\ met' = met

\* The same for a run that is in the middle of a page and stays at its place.
LEMMA MidPageStep ==
    ASSUME ProgressInv, NEW r \in Runs, r \in Alive, MidPage(r), Sorts',
           \A q \in Runs : q # r =>
               /\ pc'[q] = pc[q] /\ page'[q] = page[q] /\ byline'[q] = byline[q] /\ linked'[q] = linked[q]
               /\ kept'[q] = kept[q] /\ fresh'[q] = fresh[q] /\ refused'[q] = refused[q],
           Unfinished(r) \subseteq Unfinished(r)',
           InHand(r)', AloneIsSafe(r)'
    PROVE  ProgressInv'
<1>1. OnlyTouches(r) /\ met' = met
    BY DEF MidPage, OnlyTouches, Stored
<1>2. LossNeedsOverlap'
    BY DEF MidPage, ProgressInv, LossNeedsOverlap
<1>3. NothingIsLeft(r)'
    <2>1. NothingIsLeft(r)
        BY DEF ProgressInv
    <2>2. Recorded' = Recorded /\ (\A n : Passed(r, n)' = Passed(r, n))
        BY DEF MidPage, Recorded, Stored, Passed
    <2> QED
        BY <2>1, <2>2 DEF MidPage, NothingIsLeft
<1> QED
    BY <1>1, <1>2, <1>3, RunStep

\* To a run that has met another one a savepoint may be refused, to any run one
\* for a paper that is not fit.
LEMMA RefuseProgress ==
    ASSUME ProgressInv, NEW r \in Runs, pc[r] \in {"paper", "lookup", "author"}, page[r] # <<>>,
           Refuse(r), MidPage(r), kept' = kept, met[r] # {} \/ Head(page[r]) \in Unfit
    PROVE  ProgressInv'
<1>1. Sorts /\ InHand(r)
    BY DEF ProgressInv
<1>2. page \in [Runs -> Seq(Items)] /\ page[r] \in Seq(Items)
    BY <1>1 DEF Sorts
<1>3. /\ Tail(page[r]) \in Seq(Items)
      /\ ToSet(page[r]) = {Head(page[r])} \cup ToSet(Tail(page[r]))
      /\ NoneTwice(Tail(page[r]))
    BY <1>1, <1>2, HeadAndTail DEF InHand
<1>4. /\ refused' = [refused EXCEPT ![r] = refused[r] \cup {Head(page[r])}]
      /\ fresh' = [fresh EXCEPT ![r] = Nothing]
      /\ linked' = [linked EXCEPT ![r] = {}]
      /\ byline' = [byline EXCEPT ![r] = <<>>]
      /\ page' = [page EXCEPT ![r] = Tail(page[r])]
      /\ pc' = [pc EXCEPT ![r] = "paper"]
    BY DEF Refuse
<1>5. Nothing.papers = {} /\ DOMAIN Nothing = {"papers", "authors"} /\ <<>> \in Seq(Names \cup {Null})
    BY DEF Nothing
<1> HIDE DEF Nothing
<1>6. /\ refused'[r] = refused[r] \cup {Head(page[r])} /\ fresh'[r] = Nothing /\ linked'[r] = {}
      /\ byline'[r] = <<>> /\ page'[r] = Tail(page[r]) /\ pc'[r] = "paper"
      /\ \A q \in Runs : q # r =>
               /\ pc'[q] = pc[q] /\ page'[q] = page[q] /\ byline'[q] = byline[q] /\ linked'[q] = linked[q]
               /\ fresh'[q] = fresh[q] /\ refused'[q] = refused[q]
    BY <1>1, <1>4 DEF Sorts
<1>7. Sorts'
    <2>1. page' \in [Runs -> Seq(Items)]
        BY <1>2, <1>3, <1>4
    <2>2. byline' \in [Runs -> Seq(Names \cup {Null})]
        BY <1>1, <1>4, <1>5 DEF Sorts
    <2>3. \A q \in Runs : DOMAIN fresh'[q] = {"papers", "authors"}
        BY <1>1, <1>5, <1>6 DEF Sorts
    <2> QED
        BY <1>1, <1>4, <2>1, <2>2, <2>3 DEF Sorts, MidPage
<1>8. Unfinished(r) \subseteq Unfinished(r)'
    BY <1>3, <1>6 DEF Unfinished, MidPage
<1>9. InHand(r)'
    <2>1. NoneTwice(page[r])' /\ NoneTwice(byline[r])'
        BY <1>3, <1>6 DEF NoneTwice
    <2>2. ToSet(page[r])' \subseteq ToSet(page[r]) /\ ToSet(byline[r])' = {}
        BY <1>3, <1>6 DEF ToSet
    <2> QED
        BY <1>1, <1>6, <2>1, <2>2 DEF InHand
<1>10. AloneIsSafe(r)'
    <2>1. AloneIsSafe(r) /\ r \in Alive
        BY DEF ProgressInv, Alive
    <2>2. ToSet(page[r])' \subseteq ToSet(page[r]) /\ Stored' = Stored /\ met' = met
        BY <1>3, <1>6 DEF ToSet, Stored, MidPage
    <2>3. met[r] = {} => refused'[r] \subseteq Unfit
        BY <1>6, <2>1 DEF AloneIsSafe
    <2> QED
        BY <1>6, <2>1, <2>2, <2>3 DEF AloneIsSafe
<1>11. r \in Alive
    BY DEF Alive
<1> QED
    BY <1>6, <1>7, <1>8, <1>9, <1>10, <1>11, MidPageStep

\* The first paper of a page is stored, refused, or waits for another run.
LEMMA InsertPaperProgress ==
    ASSUME ProgressInv, NEW r \in Runs, InsertPaper(r)
    PROVE  ProgressInv'
<1> DEFINE item == Head(page[r])
<1>1. Sorts /\ InHand(r) /\ AloneIsSafe(r)
    BY DEF ProgressInv
<1>2. pc[r] = "paper" /\ page[r] # <<>> /\ MidPage(r) /\ kept' = kept
    BY DEF InsertPaper, MidPage, tables
<1>3. r \in Alive
    BY <1>2 DEF Alive
<1>4. item \in ToSet(page[r])
    BY <1>1, <1>2, HeadAndTail DEF Sorts
<1>5. CASE item \in Stored \cup kept[r].papers
    <2>1. Refuse(r)
        BY <1>5 DEF InsertPaper
    <2>2. met[r] # {}
        BY <1>1, <1>3, <1>4, <1>5 DEF AloneIsSafe, InHand
    <2> QED
        BY <1>2, <2>1, <2>2, RefuseProgress
<1>6. CASE item \notin Stored \cup kept[r].papers
    <2> DEFINE names == AuthorsOf(item)
    <2>1. /\ fresh' = [fresh EXCEPT ![r].papers = {item}]
          /\ byline' = [byline EXCEPT ![r] = names]
          /\ pc' = [pc EXCEPT ![r] = "lookup"]
          /\ page' = page /\ linked' = linked /\ refused' = refused
        BY <1>6 DEF InsertPaper
    <2>2. names \in Seq(Names \cup {Null}) /\ NoneTwice(names) /\ ToSet(names) = ToSet(Byline[item])
        <3>1. item \in Items
            BY <1>1, <1>2, HeadAndTail DEF Sorts
        <3>2. Byline[item] \in Seq(Names \cup {Null})
            BY <3>1, ItemsAssumption
        <3> QED
            BY <3>2, OnceKeeps DEF AuthorsOf, NoneTwice
    <2> HIDE DEF names, item
    <2>3. /\ fresh'[r].papers = {item} /\ DOMAIN fresh'[r] = {"papers", "authors"} /\ byline'[r] = names /\ pc'[r] = "lookup"
          /\ \A q \in Runs : q # r => fresh'[q] = fresh[q] /\ byline'[q] = byline[q] /\ pc'[q] = pc[q]
        BY <1>1, <2>1 DEF Sorts
    <2>4. Sorts'
        <3>1. byline' \in [Runs -> Seq(Names \cup {Null})]
            BY <1>1, <2>1, <2>2 DEF Sorts
        <3>2. \A q \in Runs : DOMAIN fresh'[q] = {"papers", "authors"}
            BY <1>1, <2>3 DEF Sorts
        <3> QED
            BY <1>1, <1>2, <2>1, <3>1, <3>2 DEF Sorts, MidPage
    <2>5. InHand(r)'
        <3>1. NoneTwice(byline[r])' /\ NoneTwice(page[r])'
            BY <1>1, <2>1, <2>2, <2>3 DEF NoneTwice, InHand
        <3>2. linked'[r] = {}
            BY <1>1, <1>2, <2>1 DEF InHand
        <3>3. ToSet(page[r])' = ToSet(page[r]) /\ ToSet(byline[r])' = ToSet(names)
            BY <2>1, <2>3 DEF ToSet
        <3>4. Head(page'[r]) = item
            BY <2>1 DEF item
        <3>5. ToSet(byline[r])' \subseteq ToSet(Byline[Head(page'[r])])
            BY <2>2, <3>3, <3>4
        <3> QED
            BY <1>1, <1>2, <2>1, <2>3, <3>1, <3>2, <3>3, <3>4, <3>5 DEF InHand
    <2>6. AloneIsSafe(r)'
        <3>1. ToSet(page[r])' = ToSet(page[r]) /\ Stored' = Stored /\ met' = met
            BY <1>2, <2>1 DEF ToSet, Stored, MidPage
        <3> QED
            BY <1>1, <1>3, <2>1, <2>3, <3>1 DEF AloneIsSafe
    <2>7. Unfinished(r)' = Unfinished(r)
        BY <1>2, <2>1 DEF Unfinished, MidPage, ToSet
    <2> QED
        BY <1>2, <1>3, <2>1, <2>3, <2>4, <2>5, <2>6, <2>7, MidPageStep
<1> QED
    BY <1>5, <1>6

\* The name at the head is done: it is linked, and the others of the byline are not.
LEMMA Linking ==
    ASSUME Sorts, NEW r \in Runs, InHand(r), byline[r] # <<>>, NEW name, name = Head(byline[r]),
           linked' = [linked EXCEPT ![r] = linked[r] \cup {name}],
           byline' = [byline EXCEPT ![r] = Tail(byline[r])]
    PROVE  /\ name \notin linked[r]
           /\ byline' \in [Runs -> Seq(Names \cup {Null})] /\ DOMAIN linked' = Runs
           /\ NoneTwice(byline[r])' /\ ToSet(byline[r])' \cap linked'[r] = {}
           /\ ToSet(byline[r])' \subseteq ToSet(byline[r])
           /\ \A q \in Runs : q # r => byline'[q] = byline[q] /\ linked'[q] = linked[q]
<1>1. byline \in [Runs -> Seq(Names \cup {Null})] /\ byline[r] \in Seq(Names \cup {Null})
    BY DEF Sorts
<1>2. /\ name \in Names \cup {Null} /\ Tail(byline[r]) \in Seq(Names \cup {Null})
      /\ ToSet(byline[r]) = {name} \cup ToSet(Tail(byline[r]))
      /\ NoneTwice(Tail(byline[r])) /\ name \notin ToSet(Tail(byline[r]))
    BY <1>1, HeadAndTail DEF InHand
<1>3. byline' \in [Runs -> Seq(Names \cup {Null})] /\ byline'[r] = Tail(byline[r]) /\ linked'[r] = linked[r] \cup {name}
      /\ DOMAIN linked' = Runs
      /\ \A q \in Runs : q # r => byline'[q] = byline[q] /\ linked'[q] = linked[q]
    BY <1>1, <1>2 DEF Sorts
<1>4. NoneTwice(byline[r])' /\ ToSet(byline[r])' = ToSet(Tail(byline[r]))
    BY <1>2, <1>3 DEF NoneTwice, ToSet
<1>5. ToSet(byline[r]) \cap linked[r] = {}
    BY DEF InHand
<1> QED
    BY <1>2, <1>3, <1>4, <1>5

\* Looking up an author changes nothing but what is known of it.
LEMMA LookupAuthorProgress ==
    ASSUME ProgressInv, NEW r \in Runs, LookupAuthor(r)
    PROVE  ProgressInv'
<1> DEFINE name == Head(byline[r])
<1>1. Sorts /\ InHand(r) /\ AloneIsSafe(r)
    BY DEF ProgressInv
<1>2. pc[r] = "lookup" /\ page[r] # <<>> /\ byline[r] # <<>> /\ MidPage(r) /\ kept' = kept
    BY <1>1 DEF LookupAuthor, MidPage, tables, InHand
<1>3. r \in Alive
    BY <1>2 DEF Alive
<1>4. name \in ToSet(byline[r])
    BY <1>1, <1>2, HeadAndTail DEF Sorts
<1>5. name \notin linked[r]
    BY <1>1, <1>4 DEF InHand
<1>6. Stored' = Stored /\ authors' = authors /\ met' = met /\ refused' = refused /\ page' = page /\ fresh' = fresh
    BY <1>2, <1>5 DEF LookupAuthor, Stored, MidPage
<1>7. NoneTwice(page[r])' = NoneTwice(page[r]) /\ ToSet(page[r])' = ToSet(page[r])
    BY <1>6 DEF NoneTwice, ToSet
<1>8. Unfinished(r)' = Unfinished(r)
    BY <1>2, <1>6, <1>7 DEF Unfinished, MidPage
<1>9. CASE name \notin authors \cup Pending(r).authors
    <2>1. pc' = [pc EXCEPT ![r] = "author"] /\ byline' = byline /\ linked' = linked
        BY <1>9 DEF LookupAuthor
    <2>2. pc'[r] = "author" /\ \A q \in Runs : q # r => pc'[q] = pc[q]
        BY <1>1, <2>1 DEF Sorts
    <2>3. Sorts'
        BY <1>1, <1>2, <1>6, <2>1 DEF Sorts, MidPage
    <2>4. NoneTwice(byline[r])' = NoneTwice(byline[r]) /\ ToSet(byline[r])' = ToSet(byline[r])
        BY <2>1 DEF NoneTwice, ToSet
    <2>5. InHand(r)'
        BY <1>1, <1>2, <1>6, <1>7, <2>1, <2>2, <2>4 DEF InHand
    <2>6. AloneIsSafe(r)'
        BY <1>1, <1>3, <1>6, <1>7, <1>9, <2>1 DEF AloneIsSafe
    <2> QED
        BY <1>2, <1>3, <1>6, <1>8, <2>1, <2>2, <2>3, <2>5, <2>6, MidPageStep
<1>10. CASE name \in authors \cup Pending(r).authors
    <2>1. /\ linked' = [linked EXCEPT ![r] = linked[r] \cup {name}]
          /\ byline' = [byline EXCEPT ![r] = Tail(byline[r])]
          /\ pc' = pc
        BY <1>5, <1>10 DEF LookupAuthor
    <2>2. /\ byline' \in [Runs -> Seq(Names \cup {Null})] /\ DOMAIN linked' = Runs
          /\ NoneTwice(byline[r])' /\ ToSet(byline[r])' \cap linked'[r] = {}
          /\ ToSet(byline[r])' \subseteq ToSet(byline[r])
          /\ \A q \in Runs : q # r => byline'[q] = byline[q] /\ linked'[q] = linked[q]
        BY <1>1, <1>2, <2>1, Linking
    <2>3. Sorts'
        BY <1>1, <1>2, <1>6, <2>1, <2>2 DEF Sorts, MidPage
    <2>4. InHand(r)'
        BY <1>1, <1>2, <1>6, <1>7, <2>1, <2>2 DEF InHand
    <2>5. AloneIsSafe(r)'
        BY <1>1, <1>2, <1>3, <1>6, <1>7, <2>1 DEF AloneIsSafe
    <2> QED
        BY <1>2, <1>3, <1>6, <1>8, <2>1, <2>2, <2>3, <2>4, <2>5, MidPageStep
<1> QED
    BY <1>9, <1>10

\* An author is inserted, found, or waited for.
LEMMA InsertAuthorProgress ==
    ASSUME ProgressInv, NEW r \in Runs, InsertAuthor(r)
    PROVE  ProgressInv'
<1> DEFINE name == Head(byline[r])
<1>1. Sorts /\ InHand(r) /\ AloneIsSafe(r)
    BY DEF ProgressInv
<1>2. pc[r] = "author" /\ page[r] # <<>> /\ byline[r] # <<>> /\ MidPage(r) /\ kept' = kept
    BY <1>1 DEF InsertAuthor, MidPage, tables, InHand
<1>3. r \in Alive
    BY <1>2 DEF Alive
<1>4. CASE name \in authors \cup {Null}
    <2>1. Refuse(r)
        BY <1>4 DEF InsertAuthor
    <2>2. met[r] # {} \/ Head(page[r]) \in Unfit
        <3>1. CASE name \in authors
            BY <1>1, <1>2, <1>3, <3>1 DEF AloneIsSafe
        <3>2. CASE name = Null
            <4>1. name \in ToSet(Byline[Head(page[r])])
                BY <1>1, <1>2, HeadAndTail DEF Sorts, InHand
            <4>2. Head(page[r]) \in Items
                BY <1>1, <1>2, HeadAndTail DEF Sorts
            <4> QED
                BY <3>2, <4>1, <4>2 DEF Unfit
        <3> QED
            BY <1>4, <3>1, <3>2
    <2> QED
        BY <1>2, <2>1, <2>2, RefuseProgress
<1>5. CASE name \notin authors \cup {Null}
    <2>1. /\ linked' = [linked EXCEPT ![r] = linked[r] \cup {name}]
          /\ byline' = [byline EXCEPT ![r] = Tail(byline[r])]
          /\ pc' = [pc EXCEPT ![r] = "lookup"]
          /\ page' = page /\ refused' = refused
        BY <1>5 DEF InsertAuthor
    <2>2. PICK names : fresh' = [fresh EXCEPT ![r].authors = names]
        BY <1>5 DEF InsertAuthor
    <2>3. /\ fresh'[r].papers = fresh[r].papers /\ DOMAIN fresh' = Runs
          /\ \A q \in Runs : DOMAIN fresh'[q] = {"papers", "authors"}
          /\ \A q \in Runs : q # r => fresh'[q] = fresh[q]
        BY <1>1, <2>2 DEF Sorts
    <2>4. /\ byline' \in [Runs -> Seq(Names \cup {Null})] /\ DOMAIN linked' = Runs
          /\ NoneTwice(byline[r])' /\ ToSet(byline[r])' \cap linked'[r] = {}
          /\ ToSet(byline[r])' \subseteq ToSet(byline[r])
          /\ \A q \in Runs : q # r => byline'[q] = byline[q] /\ linked'[q] = linked[q]
        BY <1>1, <1>2, <2>1, Linking
    <2>5. pc'[r] = "lookup" /\ \A q \in Runs : q # r => pc'[q] = pc[q]
        BY <1>1, <2>1 DEF Sorts
    <2>6. NoneTwice(page[r])' = NoneTwice(page[r]) /\ ToSet(page[r])' = ToSet(page[r]) /\ Stored' = Stored /\ met' = met
        BY <1>2, <2>1 DEF NoneTwice, ToSet, Stored, MidPage
    <2>7. Unfinished(r)' = Unfinished(r)
        BY <1>2, <2>1, <2>6 DEF Unfinished, MidPage
    <2>8. Sorts'
        BY <1>1, <1>2, <2>1, <2>3, <2>4 DEF Sorts, MidPage
    <2>9. InHand(r)'
        BY <1>1, <1>2, <2>1, <2>3, <2>4, <2>5, <2>6 DEF InHand
    <2>10. AloneIsSafe(r)'
        BY <1>1, <1>3, <2>1, <2>5, <2>6 DEF AloneIsSafe
    <2> QED
        BY <1>2, <1>3, <2>1, <2>3, <2>4, <2>5, <2>7, <2>8, <2>9, <2>10, MidPageStep
<1> QED
    BY <1>4, <1>5

\* A paper whose authors are done is on record, stored or as an error.
LEMMA FinishPaperProgress ==
    ASSUME ProgressInv, NEW r \in Runs, FinishPaper(r)
    PROVE  ProgressInv'
<1>1. Sorts /\ InHand(r) /\ AloneIsSafe(r)
    BY DEF ProgressInv
<1>2. pc[r] = "lookup" /\ page[r] # <<>> /\ fresh[r].papers = {Head(page[r])} /\ MidPage(r) /\ byline[r] = <<>>
    BY <1>1 DEF FinishPaper, MidPage, tables, InHand
<1>3. CASE ~ CategoriesFit(Head(page[r]))
    <2>1. Refuse(r) /\ kept' = kept
        BY <1>3 DEF FinishPaper
    <2>2. Head(page[r]) \in Unfit
        BY <1>1, <1>2, <1>3, HeadAndTail DEF Sorts, Unfit
    <2> QED
        BY <1>2, <2>1, <2>2, RefuseProgress
<1>4. CASE CategoriesFit(Head(page[r]))
    <2>3. r \in Alive
        BY <1>2 DEF Alive
    <2>4. /\ kept' = [kept EXCEPT ![r] = Pending(r)]
          /\ fresh' = [fresh EXCEPT ![r] = Nothing]
          /\ linked' = [linked EXCEPT ![r] = {}]
          /\ page' = [page EXCEPT ![r] = Tail(page[r])]
          /\ pc' = [pc EXCEPT ![r] = "paper"]
          /\ byline' = byline /\ refused' = refused
        BY <1>4 DEF FinishPaper
    <2>5. /\ Nothing.papers = {} /\ DOMAIN Nothing = {"papers", "authors"}
          /\ Pending(r).papers = kept[r].papers \cup {Head(page[r])}
        BY <1>2 DEF Nothing, Pending
    <2> HIDE DEF Nothing, Pending
    <2>6. page \in [Runs -> Seq(Items)] /\ page[r] \in Seq(Items)
        BY <1>1 DEF Sorts
    <2>7. /\ Tail(page[r]) \in Seq(Items)
          /\ ToSet(page[r]) = {Head(page[r])} \cup ToSet(Tail(page[r]))
          /\ NoneTwice(Tail(page[r])) /\ Head(page[r]) \notin ToSet(Tail(page[r]))
        BY <1>1, <1>2, <2>6, HeadAndTail DEF InHand
    <2>8. /\ kept'[r].papers = kept[r].papers \cup {Head(page[r])} /\ linked'[r] = {}
          /\ page'[r] = Tail(page[r]) /\ pc'[r] = "paper" /\ page' \in [Runs -> Seq(Items)] /\ fresh'[r] = Nothing
          /\ \A q \in Runs : q # r =>
                   /\ pc'[q] = pc[q] /\ page'[q] = page[q] /\ linked'[q] = linked[q]
                   /\ fresh'[q] = fresh[q] /\ kept'[q] = kept[q]
        BY <1>1, <2>4, <2>5, <2>6, <2>7 DEF Sorts
    <2>9. Sorts'
        <3>1. \A q \in Runs : DOMAIN fresh'[q] = {"papers", "authors"}
            BY <1>1, <2>5, <2>8 DEF Sorts
        <3> QED
            BY <1>1, <1>2, <2>4, <2>8, <3>1 DEF Sorts, MidPage
    <2>10. NoneTwice(page[r])' /\ ToSet(page[r])' = ToSet(Tail(page[r]))
        BY <2>7, <2>8 DEF NoneTwice, ToSet
    <2>11. Unfinished(r) \subseteq Unfinished(r)'
        BY <1>2, <2>4, <2>7, <2>8, <2>10 DEF Unfinished, MidPage
    <2>12. NoneTwice(byline[r])' /\ Stored' = Stored /\ met' = met
        BY <1>1, <1>2, <2>4 DEF InHand, NoneTwice, Stored, MidPage
    <2>13. ToSet(page[r])' \cap kept'[r].papers = {}
        BY <1>1, <2>7, <2>8, <2>10 DEF InHand
    <2>14. InHand(r)'
        BY <2>8, <2>10, <2>12, <2>13 DEF InHand
    <2>15. AloneIsSafe(r)'
        BY <1>1, <2>3, <2>4, <2>7, <2>8, <2>10, <2>12 DEF AloneIsSafe
    <2> QED
        BY <1>2, <2>3, <2>4, <2>8, <2>9, <2>11, <2>14, <2>15, MidPageStep
<1> QED
    BY <1>3, <1>4

\* A run that continues has no paper in hand.
LEMMA ContinueProgress ==
    ASSUME ProgressInv, NEW r \in Runs, Continue(r)
    PROVE  ProgressInv'
<1>1. Sorts /\ InHand(r) /\ AloneIsSafe(r)
    BY DEF ProgressInv
<1>2. /\ pc[r] = "commit" /\ pc' = [pc EXCEPT ![r] = "fetch"] /\ MidPage(r)
      /\ page' = page /\ byline' = byline /\ linked' = linked /\ kept' = kept /\ fresh' = fresh /\ refused' = refused
    BY DEF Continue, MidPage, tables
<1>3. r \in Alive
    BY <1>2 DEF Alive
<1>4. pc'[r] = "fetch" /\ \A q \in Runs : q # r => pc'[q] = pc[q]
    BY <1>1, <1>2 DEF Sorts
<1>5. Sorts'
    BY <1>1, <1>2 DEF Sorts, MidPage
<1>6. /\ NoneTwice(page[r])' = NoneTwice(page[r]) /\ ToSet(page[r])' = ToSet(page[r]) /\ Stored' = Stored /\ met' = met
      /\ NoneTwice(byline[r])' = NoneTwice(byline[r]) /\ ToSet(byline[r])' = ToSet(byline[r]) /\ counts' = counts
    BY <1>2 DEF NoneTwice, ToSet, Stored, MidPage
<1>7. InHand(r)'
    BY <1>1, <1>2, <1>4, <1>6 DEF InHand
<1>8. AloneIsSafe(r)'
    BY <1>1, <1>2, <1>3, <1>4, <1>6 DEF AloneIsSafe
<1>9. Unfinished(r)' = Unfinished(r)
    BY <1>2, <1>6 DEF Unfinished
<1> QED
    BY <1>2, <1>3, <1>4, <1>5, <1>7, <1>8, <1>9, MidPageStep

\* A new page: each of its items is invalid, stored, or in hand.
LEMMA FetchProgress ==
    ASSUME ProgressInv, NEW r \in Runs, Fetch(r)
    PROVE  ProgressInv'
<1> DEFINE all == feed[source[r]]
           from == next[r] + 1
           to == Min({next[r] + PageSize, Len(all)})
           got == SubSeq(all, from, to)
           valid == Among(got, Items \ Invalid)
           unique == Once(Among(valid, Items \ Stored))
<1>1. Sorts /\ InHand(r) /\ AloneIsSafe(r) /\ NothingIsLeft(r)
    BY DEF ProgressInv
<1>2. /\ pc[r] = "fetch" /\ pc' = [pc EXCEPT ![r] = "paper"]
      /\ feed' = feed /\ coming' = coming /\ source' = source
      /\ papers' = papers /\ authors' = authors /\ errors' = errors /\ row' = row
      /\ byline' = byline /\ linked' = linked /\ kept' = kept /\ fresh' = fresh /\ refused' = refused
      /\ promised' = promised /\ met' = met
    BY DEF Fetch, tables
<1>3. /\ page' = [page EXCEPT ![r] = unique]
      /\ next' = [next EXCEPT ![r] = next[r] + Len(got)]
      /\ counts' = [counts EXCEPT ![r] = [fetched |-> Len(got),
                                          duplicate |-> Len(valid) - Len(unique),
                                          invalid |-> ToSet(got) \cap Invalid]]
    BY DEF Fetch
<1>4. r \in Alive
    BY <1>2 DEF Alive
<1>5. all \in Seq(Items) /\ next[r] \in Nat /\ Len(all) \in Nat /\ DOMAIN all = 1 .. Len(all)
    BY <1>1 DEF Sorts
<1>6. to \in Int /\ to <= Len(all)
    <2>1. next[r] + PageSize \in Nat
        BY <1>5, PageSizeAssumption
    <2>2. \A a, b \in Nat : Min({a, b}) \in Nat /\ Min({a, b}) <= b
        BY DEF Min
    <2> DEFINE end == next[r] + PageSize
               size == Len(all)
    <2>3. end \in Nat /\ size \in Nat /\ to = Min({end, size})
        BY <1>5, <2>1
    <2> HIDE DEF end, size
    <2>4. Min({end, size}) \in Nat /\ Min({end, size}) <= size
        BY <2>2, <2>3
    <2>5. to \in Nat /\ to <= size
        BY ONLY <2>3, <2>4
    <2> HIDE DEF to
    <2> QED
        BY <2>5 DEF size
<1>7. from \in Int /\ from = next[r] + 1 /\ from >= 1
    BY <1>5
<1> HIDE DEF all, from, to
<1>8. /\ got \in Seq(Items) /\ Len(got) \in Nat
      /\ Len(got) = IF from <= to THEN to - from + 1 ELSE 0
      /\ \A i \in 1 .. to - from + 1 : got[i] = all[from + i - 1]
    <2>1. \A i \in from .. to : all[i] \in Items
        BY <1>5, <1>6, <1>7
    <2> QED
        BY <1>6, <1>7, <2>1, SubSeqProperties
<1> HIDE DEF got
<1>9. ToSet(valid) = ToSet(got) \cap (Items \ Invalid) /\ valid \in Seq(Items)
    BY <1>8, AmongKeeps
<1> HIDE DEF valid
<1>10. unique \in Seq(Items) /\ NoneTwice(unique) /\ ToSet(unique) = ToSet(valid) \cap (Items \ Stored)
    <2> DEFINE some == Among(valid, Items \ Stored)
    <2>1. some \in Seq(Items) /\ ToSet(some) = ToSet(valid) \cap (Items \ Stored)
        BY <1>9, AmongKeeps
    <2> HIDE DEF some
    <2>2. unique = Once(some)
        BY DEF some
    <2> QED
        BY <2>1, <2>2, OnceKeeps DEF NoneTwice
<1> HIDE DEF unique
<1>11. /\ page' \in [Runs -> Seq(Items)] /\ page'[r] = unique
       /\ next' \in [Runs -> Nat] /\ next'[r] = next[r] + Len(got)
       /\ DOMAIN counts' = Runs
       /\ pc'[r] = "paper"
       /\ \A q \in Runs : q # r => page'[q] = page[q] /\ next'[q] = next[q] /\ counts'[q] = counts[q] /\ pc'[q] = pc[q]
    BY <1>1, <1>2, <1>3, <1>5, <1>8, <1>10 DEF Sorts
<1>12. counts'[r].invalid = ToSet(got) \cap Invalid
    BY <1>1, <1>3 DEF Sorts
<1>13. Sorts'
    BY <1>1, <1>2, <1>11 DEF Sorts
<1>14. kept[r].papers = {} /\ refused[r] = {} /\ linked[r] = {} /\ page[r] = <<>> /\ counts[r].invalid = {}
    BY <1>1, <1>2 DEF InHand
<1>15. NoneTwice(page[r])' /\ ToSet(page[r])' = ToSet(unique) /\ Stored' = Stored /\ Recorded' = Recorded
    BY <1>2, <1>10, <1>11 DEF NoneTwice, ToSet, Stored, Recorded
<1>16. InHand(r)'
    <2>1. NoneTwice(byline[r])' = NoneTwice(byline[r])
        BY <1>2 DEF NoneTwice
    <2> QED
        BY <1>1, <1>2, <1>11, <1>14, <1>15, <2>1 DEF InHand
<1>17. AloneIsSafe(r)'
    BY <1>2, <1>10, <1>11, <1>14, <1>15 DEF AloneIsSafe
<1>18. NothingIsLeft(r)'
    <2>1. \A n : Passed(r, n)' = Passed(r, n)
        BY <1>2 DEF Passed
    <2>2. ToSet(got) \subseteq Recorded' \cup Unfinished(r)'
        <3>1. ToSet(got) \subseteq Items
            BY <1>8 DEF ToSet
        <3>2. Unfinished(r)' = (ToSet(got) \cap Invalid) \cup ToSet(unique)
            BY <1>2, <1>12, <1>14, <1>15 DEF Unfinished
        <3> QED
            BY <1>9, <1>10, <1>15, <3>1, <3>2 DEF Recorded
    <2>3. \A j \in DOMAIN all : j <= next[r] + Len(got) => j <= next[r] \/ all[j] \in ToSet(got)
        <3>1. ASSUME NEW j \in DOMAIN all, j <= next[r] + Len(got), ~ (j <= next[r])
              PROVE  all[j] \in ToSet(got)
            <4> DEFINE i == j - next[r]
            <4>1. i \in 1 .. Len(got) /\ i \in 1 .. to - from + 1 /\ from + i - 1 = j
                <5>1. j \in Nat /\ next[r] \in Nat /\ Len(got) \in Nat
                    BY <1>5, <1>8
                <5>2. i \in 1 .. Len(got)
                    BY <3>1, <5>1
                <5>3. from <= to
                    BY <1>8, <5>2
                <5>4. Len(got) = to - from + 1
                    BY <1>8, <5>3
                <5> QED
                    BY SMTT(30), <1>6, <1>7, <5>1, <5>2, <5>4
            <4> HIDE DEF i
            <4>2. got[i] = all[j]
                BY <1>8, <4>1
            <4>3. i \in DOMAIN got
                BY <1>8, <4>1
            <4> QED
                BY <4>2, <4>3 DEF ToSet
        <3> QED
            BY <3>1
    <2>4. Passed(r, next[r] + Len(got)) \subseteq Passed(r, next[r]) \cup ToSet(got)
        BY <2>3 DEF Passed, all
    <2>5. Unfinished(r) = {}
        BY <1>14 DEF Unfinished, ToSet
    <2>6. Passed(r, next[r]) \subseteq Recorded
        BY <1>1, <1>4, <2>5 DEF NothingIsLeft
    <2>7. Passed(r, next[r])' = Passed(r, next[r] + Len(got))
        BY <1>2, <1>11 DEF Passed
    <2>8. Passed(r, next[r])' \subseteq Recorded' \cup Unfinished(r)'
        BY <1>15, <2>2, <2>4, <2>6, <2>7
    <2> QED
        BY <1>1, <1>2, <1>15, <2>1, <2>8 DEF NothingIsLeft
<1>19. OnlyTouches(r)
    BY <1>2, <1>11 DEF OnlyTouches, Stored
<1>20. LossNeedsOverlap'
    BY <1>2 DEF ProgressInv, LossNeedsOverlap
<1> QED
    BY <1>2, <1>4, <1>13, <1>16, <1>17, <1>18, <1>19, <1>20, RunStep

\* The place is saved when all papers before it are on record.
LEMMA CommitPageProgress ==
    ASSUME ProgressInv, NEW r \in Runs, CommitPage(r)
    PROVE  ProgressInv'
<1> DEFINE new == [item: counts[r].invalid, by: {r}, kind: {"validation_error"}]
                  \cup [item: refused[r], by: {r}, kind: {"db_error"}]
           stored == [item: kept[r].papers, by: {r}]
<1>1. Sorts /\ InHand(r) /\ AloneIsSafe(r) /\ NothingIsLeft(r) /\ LossNeedsOverlap
    BY DEF ProgressInv
<1>2. /\ pc[r] = "paper" /\ page[r] = <<>> /\ pc' = [pc EXCEPT ![r] = "commit"]
      /\ feed' = feed /\ coming' = coming /\ source' = source /\ next' = next
      /\ page' = page /\ byline' = byline /\ linked' = linked /\ fresh' = fresh
      /\ promised' = promised /\ met' = met
      /\ kept' = [kept EXCEPT ![r] = Nothing] /\ refused' = [refused EXCEPT ![r] = {}]
      /\ counts' = [counts EXCEPT ![r] = [fetched |-> 0, duplicate |-> 0, invalid |-> {}]]
    BY DEF CommitPage
<1>3. papers' = papers \cup stored
    BY DEF CommitPage, Visible
<1>4. errors' = errors \cup new
    BY DEF CommitPage
<1>5. PICK after : after.resume = next[r] /\ "resume" \in DOMAIN after /\ row' = [row EXCEPT ![r] = after]
    <2> DEFINE after == [status |-> row[r].status,
                  resume |-> next[r],
                  fetched |-> row[r].fetched + counts[r].fetched,
                  inserted |-> row[r].inserted + Cardinality(kept[r].papers),
                  duplicate |-> row[r].duplicate + counts[r].duplicate,
                  failed |-> row[r].failed + Cardinality(counts[r].invalid) + Cardinality(refused[r])]
    <2>1. row' = [row EXCEPT ![r] = after]
        BY DEF CommitPage
    <2>2. after.resume = next[r] /\ "resume" \in DOMAIN after
        OBVIOUS
    <2> HIDE DEF after
    <2> QED
        BY <2>1, <2>2
<1>6. Nothing.papers = {}
    BY DEF Nothing
<1> HIDE DEF Nothing
<1>7. r \in Alive
    BY <1>2 DEF Alive
<1>8. /\ pc'[r] = "commit" /\ kept'[r].papers = {} /\ refused'[r] = {} /\ counts'[r].invalid = {} /\ row'[r] = after
      /\ \A q \in Runs : q # r => /\ pc'[q] = pc[q] /\ kept'[q] = kept[q] /\ refused'[q] = refused[q]
                                  /\ counts'[q] = counts[q] /\ row'[q] = row[q]
    BY <1>1, <1>2, <1>5, <1>6 DEF Sorts
<1>9. Sorts'
    <2>1. \A q \in Runs : "resume" \in DOMAIN row'[q] /\ row'[q].resume \in Nat
        BY <1>1, <1>5, <1>8 DEF Sorts
    <2>2. \A e \in new : e.by = r
        OBVIOUS
    <2>3. \A e \in errors' : e.by \in Runs
        BY <1>1, <1>4, <2>2 DEF Sorts
    <2> QED
        BY <1>1, <1>2, <1>5, <2>1, <2>3 DEF Sorts
<1>10. \A p \in stored : p.item \in kept[r].papers
    OBVIOUS
<1>11. \A i \in kept[r].papers : \E p \in stored : p.item = i
    <2>1. ASSUME NEW i \in kept[r].papers
          PROVE  [item |-> i, by |-> r] \in stored
        BY <2>1
    <2> QED
        BY <2>1
<1>12. Stored' = Stored \cup kept[r].papers
    <2> HIDE DEF stored
    <2> QED
        BY <1>3, <1>10, <1>11 DEF Stored
<1>13. \A e \in new : e.by = r /\ (e.kind = "db_error" => e.item \in refused[r])
    OBVIOUS
<1>14. \A i \in counts[r].invalid \cup refused[r] : \E e \in new : e.item = i
    <2>1. ASSUME NEW i \in counts[r].invalid
          PROVE  [item |-> i, by |-> r, kind |-> "validation_error"] \in new
        BY <2>1
    <2>2. ASSUME NEW i \in refused[r]
          PROVE  [item |-> i, by |-> r, kind |-> "db_error"] \in new
        BY <2>2
    <2> QED
        BY <2>1, <2>2
<1> HIDE DEF new, stored
<1>15. Recorded \cup Unfinished(r) \subseteq Recorded'
    <2>1. ToSet(page[r]) = {}
        BY <1>2 DEF ToSet
    <2>2. \A i \in counts[r].invalid \cup refused[r] : i \in Recorded'
        BY <1>4, <1>14 DEF Recorded
    <2> QED
        BY <1>4, <1>12, <2>1, <2>2 DEF Recorded, Unfinished
<1>16. LossNeedsOverlap'
    <2>1. ASSUME NEW e \in new, e.kind = "db_error"
          PROVE  (e.item \in Unfit \/ met[r] # {}) /\ e.by = r
        BY <1>1, <1>7, <1>13, <2>1 DEF AloneIsSafe
    <2> QED
        BY <1>1, <1>2, <1>4, <2>1 DEF LossNeedsOverlap
<1>17. NoneTwice(page[r])' = NoneTwice(page[r]) /\ NoneTwice(byline[r])' = NoneTwice(byline[r]) /\ ToSet(page[r])' = {}
    BY <1>2 DEF NoneTwice, ToSet
<1>18. InHand(r)'
    BY <1>1, <1>2, <1>8, <1>17 DEF InHand
<1>19. AloneIsSafe(r)'
    BY <1>8, <1>17 DEF AloneIsSafe
<1>20. NothingIsLeft(r)'
    <2>1. \A n : Passed(r, n)' = Passed(r, n)
        BY <1>2 DEF Passed
    <2>2. Passed(r, next[r]) \subseteq Recorded'
        BY <1>1, <1>7, <1>15 DEF NothingIsLeft
    <2>3. row'[r].resume = next[r] /\ next'[r] = next[r]
        BY <1>2, <1>5, <1>8
    <2> QED
        BY <1>1, <1>2, <2>1, <2>2, <2>3 DEF NothingIsLeft
<1>21. OnlyTouches(r)
    BY <1>2, <1>4, <1>8, <1>12 DEF OnlyTouches
<1> QED
    BY <1>2, <1>7, <1>9, <1>16, <1>18, <1>19, <1>20, <1>21, RunStep

\* A run that leaves has nothing in hand; what it had not committed it left behind
\* the place that is saved.
LEMMA LeaveProgress ==
    ASSUME ProgressInv, NEW r \in Runs, r \in Alive, Leave(r),
           feed' = feed, coming' = coming, promised' = promised, met' = met, errors' = errors,
           Stored \subseteq Stored',
           NEW s, row' = row \/ row' = [row EXCEPT ![r].status = s]
    PROVE  ProgressInv'
<1>1. Sorts /\ InHand(r) /\ AloneIsSafe(r) /\ NothingIsLeft(r)
    BY DEF ProgressInv
<1> DEFINE none == [fetched |-> 0, duplicate |-> 0, invalid |-> {}]
<1>2. /\ pc' = [pc EXCEPT ![r] = "end"]
      /\ page' = [page EXCEPT ![r] = <<>>] /\ byline' = [byline EXCEPT ![r] = <<>>]
      /\ linked' = [linked EXCEPT ![r] = {}]
      /\ kept' = [kept EXCEPT ![r] = Nothing] /\ fresh' = [fresh EXCEPT ![r] = Nothing]
      /\ refused' = [refused EXCEPT ![r] = {}]
      /\ counts' = [counts EXCEPT ![r] = none]
      /\ source' = source /\ next' = next
    BY DEF Leave
<1>3. Nothing.papers = {} /\ DOMAIN Nothing = {"papers", "authors"} /\ none.invalid = {}
    BY DEF Nothing
<1> HIDE DEF Nothing, none
<1>4. /\ pc'[r] = "end" /\ page'[r] = <<>> /\ byline'[r] = <<>> /\ linked'[r] = {}
      /\ kept'[r] = Nothing /\ fresh'[r] = Nothing /\ refused'[r] = {} /\ counts'[r] = none
      /\ \A q \in Runs : q # r =>
         /\ pc'[q] = pc[q] /\ page'[q] = page[q] /\ byline'[q] = byline[q] /\ linked'[q] = linked[q]
         /\ kept'[q] = kept[q] /\ fresh'[q] = fresh[q] /\ refused'[q] = refused[q] /\ counts'[q] = counts[q]
    BY <1>1, <1>2 DEF Sorts
<1>5. /\ DOMAIN row' = Runs
      /\ \A q \in Runs : "resume" \in DOMAIN row'[q] /\ row'[q].resume = row[q].resume
      /\ \A q \in Runs : q # r => row'[q] = row[q]
    <2>1. CASE row' = row
        BY <1>1, <2>1 DEF Sorts
    <2>2. CASE row' = [row EXCEPT ![r].status = s]
        BY <1>1, <2>2 DEF Sorts
    <2> QED
        BY <2>1, <2>2
<1>6. Sorts'
    <2>1. page' \in [Runs -> Seq(Items)] /\ byline' \in [Runs -> Seq(Names \cup {Null})]
        BY <1>1, <1>2 DEF Sorts
    <2>2. \A q \in Runs : DOMAIN fresh'[q] = {"papers", "authors"}
        BY <1>1, <1>3, <1>4 DEF Sorts
    <2>3. \A q \in Runs : row'[q].resume \in Nat
        BY <1>1, <1>5 DEF Sorts
    <2> QED
        BY <1>1, <1>2, <1>5, <2>1, <2>2, <2>3 DEF Sorts
<1>7. LossNeedsOverlap'
    BY DEF ProgressInv, LossNeedsOverlap
<1>8. InHand(r)'
    BY <1>3, <1>4 DEF InHand, NoneTwice, ToSet
<1>9. r \notin Alive'
    BY <1>4 DEF Alive
<1>10. AloneIsSafe(r)'
    BY <1>9 DEF AloneIsSafe
<1>11. NothingIsLeft(r)'
    <2>1. \A n : Passed(r, n)' = Passed(r, n)
        BY <1>2 DEF Passed
    <2>2. Recorded \subseteq Recorded'
        BY DEF Recorded
    <2> QED
        BY <1>1, <1>2, <1>5, <1>9, <2>1, <2>2 DEF NothingIsLeft
<1>12. OnlyTouches(r)
    BY <1>2, <1>4, <1>5 DEF OnlyTouches
<1> QED
    BY <1>6, <1>7, <1>8, <1>10, <1>11, <1>12, RunStep

\* A run that ends, however it does, leaves its place behind what is on record.
LEMMA EndProgress ==
    ASSUME ProgressInv, NEW r \in Runs, Stop(r) \/ FetchFails(r) \/ PageError(r) \/ Kill(r)
    PROVE  ProgressInv'
<1>1. Leave(r) /\ feed' = feed /\ coming' = coming /\ promised' = promised /\ met' = met /\ errors' = errors
    BY DEF Stop, FetchFails, PageError, Kill, tables
<1>2. r \in Alive
    <2>1. CASE PageError(r)
        BY <2>1 DEF PageError, Alive
    <2>2. CASE Stop(r) \/ FetchFails(r) \/ Kill(r)
        BY <2>2 DEF Stop, FetchFails, Kill, Alive
    <2> QED
        BY <2>1, <2>2
<1>3. Stored \subseteq Stored'
    BY DEF Stop, FetchFails, PageError, Kill, tables, Visible, Stored
<1>4. \E s : row' = row \/ row' = [row EXCEPT ![r].status = s]
    BY DEF Stop, FetchFails, PageError, Kill, tables
<1> QED
    BY <1>1, <1>2, <1>3, <1>4, LeaveProgress

\* A launch meets all that are alive.
LEMMA LaunchProgress ==
    ASSUME ProgressInv, NEW r \in Runs, Launch(r)
    PROVE  ProgressInv'
<1>1. Sorts /\ InHand(r) /\ AloneIsSafe(r) /\ NothingIsLeft(r) /\ AliveHaveMet
    BY DEF ProgressInv
<1>2. /\ pc[r] = "off" /\ pc' = [pc EXCEPT ![r] = "fetch"]
      /\ row' = [row EXCEPT ![r].status = "running", ![r].resume = next'[r]]
      /\ met' = [q \in Runs |-> IF q = r THEN Alive ELSE IF q \in Alive THEN met[q] \cup {r} ELSE met[q]]
      /\ feed' = feed /\ coming' = coming /\ papers' = papers /\ authors' = authors /\ errors' = errors
      /\ source' = source /\ page' = page /\ byline' = byline /\ linked' = linked
      /\ kept' = kept /\ fresh' = fresh /\ refused' = refused /\ counts' = counts
    BY DEF Launch
<1> DEFINE StartsAt(spot, items) ==
          /\ spot \in Nat
          /\ next' = [next EXCEPT ![r] = spot]
          /\ promised' = [promised EXCEPT ![r] = items]
          /\ items \subseteq ToSet(feed[source[r]])
          /\ {feed[source[r]][i] : i \in {j \in DOMAIN feed[source[r]] : j <= spot}} \cap items \subseteq Recorded
<1>3. PICK spot, items : StartsAt(spot, items)
    <2>1. CASE /\ next' = [next EXCEPT ![r] = 0]
               /\ promised' = [promised EXCEPT ![r] = ToSet(feed[source[r]])]
        <3>1. feed[source[r]] \in Seq(Items)
            BY <1>1 DEF Sorts
        <3>2. \A j \in DOMAIN feed[source[r]] : ~ (j <= 0)
            BY <3>1
        <3>3. {feed[source[r]][i] : i \in {j \in DOMAIN feed[source[r]] : j <= 0}} = {}
            BY <3>2
        <3> QED
            BY <2>1, <3>3
    <2>2. ASSUME NEW q \in Runs, source[q] = source[r],
                 next' = [next EXCEPT ![r] = row[q].resume],
                 promised' = [promised EXCEPT ![r] = promised[q]]
          PROVE  \E spot, items : StartsAt(spot, items)
        <3>1. row[q].resume \in Nat
            BY <1>1 DEF Sorts
        <3>2. NothingIsLeft(q)
            BY DEF ProgressInv
        <3>3. promised[q] \subseteq ToSet(feed[source[r]])
            BY <2>2, <3>2 DEF NothingIsLeft
        <3>4. {feed[source[r]][i] : i \in {j \in DOMAIN feed[source[r]] : j <= row[q].resume}} \cap promised[q] \subseteq Recorded
            BY <2>2, <3>2 DEF NothingIsLeft, Passed
        <3> QED
            BY <2>2, <3>1, <3>3, <3>4
    <2> QED
        BY <2>1, <2>2 DEF Launch
<1>4. /\ pc'[r] = "fetch" /\ next'[r] = spot /\ promised'[r] = items /\ row'[r].resume = spot /\ "resume" \in DOMAIN row'[r]
      /\ next' \in [Runs -> Nat] /\ DOMAIN row' = Runs /\ DOMAIN promised' = Runs
      /\ \A q \in Runs : q # r => pc'[q] = pc[q] /\ next'[q] = next[q] /\ promised'[q] = promised[q] /\ row'[q] = row[q]
    BY <1>1, <1>2, <1>3 DEF Sorts
<1>5. Sorts'
    <2>1. \A q \in Runs : "resume" \in DOMAIN row'[q] /\ row'[q].resume \in Nat
        BY <1>1, <1>4 DEF Sorts
    <2> QED
        BY <1>1, <1>2, <1>4, <2>1 DEF Sorts
<1>6. NewsIsNew'
    BY <1>2 DEF ProgressInv, NewsIsNew, NoneTwice
<1>7. AliveHaveMet'
    <2>1. Alive' = Alive \cup {r} /\ r \notin Alive
        BY <1>2, <1>4 DEF Alive
    <2> QED
        BY <1>1, <1>2, <2>1 DEF AliveHaveMet, Alive
<1>8. LossNeedsOverlap'
    <2>1. \A q \in Runs : met[q] # {} => met'[q] # {}
        BY <1>1, <1>2 DEF InHand
    <2>2. \A e \in errors : e.by \in Runs /\ (e.kind = "db_error" => e.item \in Unfit \/ met[e.by] # {})
        BY <1>1 DEF ProgressInv, LossNeedsOverlap, Sorts
    <2> QED
        BY <1>2, <2>1, <2>2 DEF LossNeedsOverlap
<1>9. InHand(r)'
    <2>1. NoneTwice(page[r])' = NoneTwice(page[r]) /\ NoneTwice(byline[r])' = NoneTwice(byline[r])
          /\ ToSet(page[r])' = ToSet(page[r]) /\ ToSet(byline[r])' = ToSet(byline[r])
        BY <1>2 DEF NoneTwice, ToSet
    <2> QED
        BY <1>1, <1>2, <1>4, <2>1 DEF InHand
<1>10. AloneIsSafe(r)'
    <2>1. page[r] = <<>> /\ refused[r] = {}
        BY <1>1, <1>2 DEF InHand
    <2>2. ToSet(page[r])' = {}
        BY <1>2, <2>1 DEF ToSet
    <2> QED
        BY <1>2, <1>4, <2>1, <2>2 DEF AloneIsSafe
<1>11. NothingIsLeft(r)'
    <2>1. Recorded' = Recorded
        BY <1>2 DEF Recorded, Stored
    <2> QED
        BY <1>2, <1>3, <1>4, <2>1 DEF NothingIsLeft, Passed
<1>12. OnlyTouches(r)
    BY <1>2, <1>4 DEF OnlyTouches, Stored
<1>13. \A q \in Runs : q # r => InHand(q)' /\ AloneIsSafe(q)' /\ NothingIsLeft(q)'
    <2>1. \A q \in Runs : q # r => met'[q] = IF pc[r] = "off" /\ q \in Alive THEN met[q] \cup {r} ELSE met[q]
        BY <1>2
    <2>2. pc[r] # "end"
        BY <1>2
    <2> QED
        BY <1>12, <2>1, <2>2, OthersKeep
<1> QED
    BY <1>5, <1>6, <1>7, <1>8, <1>9, <1>10, <1>11, <1>13 DEF ProgressInv

\* What is published was promised to nobody, and moves the others by one.
LEMMA PublishProgress ==
    ASSUME ProgressInv, NEW s \in Sources, Publish(s)
    PROVE  ProgressInv'
<1>1. Sorts /\ NewsIsNew /\ AliveHaveMet /\ LossNeedsOverlap
    BY DEF ProgressInv
<1> DEFINE item == Head(coming[s])
<1>2. /\ coming[s] # <<>> /\ feed' = [feed EXCEPT ![s] = <<item>> \o feed[s]]
      /\ coming' = [coming EXCEPT ![s] = Tail(coming[s])]
      /\ UNCHANGED <<tables, work, promised, met>>
    BY DEF Publish
<1>3. /\ papers' = papers /\ authors' = authors /\ errors' = errors /\ row' = row /\ pc' = pc /\ source' = source
      /\ next' = next /\ page' = page /\ byline' = byline /\ linked' = linked /\ kept' = kept /\ fresh' = fresh
      /\ refused' = refused /\ counts' = counts /\ promised' = promised /\ met' = met
    BY <1>2 DEF tables, work
<1>4. /\ item \in Items /\ Tail(coming[s]) \in Seq(Items) /\ ToSet(coming[s]) = {item} \cup ToSet(Tail(coming[s]))
      /\ NoneTwice(Tail(coming[s])) /\ item \notin ToSet(Tail(coming[s]))
    BY <1>1, <1>2, HeadAndTail DEF Sorts, NewsIsNew
<1>5. item \notin ToSet(feed[s]) /\ ToSet(coming[s]) \cap ToSet(feed[s]) = {}
    BY <1>1, <1>4 DEF NewsIsNew
<1> HIDE DEF item
<1> DEFINE old == feed[s]
           new == <<item>> \o old
<1>6. old \in Seq(Items)
    BY <1>1 DEF Sorts
<1> HIDE DEF old
<1>7. /\ new \in Seq(Items) /\ Len(old) \in Nat
      /\ DOMAIN new = 1 .. Len(old) + 1 /\ DOMAIN old = 1 .. Len(old)
      /\ new[1] = item /\ \A i \in 2 .. Len(old) + 1 : new[i] = old[i - 1]
    BY <1>4, <1>6
<1> HIDE DEF new
<1>8. \A i \in DOMAIN new : new[i] = item \/ (i - 1 \in DOMAIN old /\ new[i] = old[i - 1] /\ i - 1 <= i)
    <2>1. ASSUME NEW i \in DOMAIN new, i # 1
          PROVE  i - 1 \in DOMAIN old /\ new[i] = old[i - 1] /\ i - 1 <= i
        BY <1>7, <2>1
    <2> QED
        BY <1>7, <2>1
<1>9. ToSet(new) = {item} \cup ToSet(old)
    <2>1. ASSUME NEW i \in DOMAIN old
          PROVE  old[i] \in ToSet(new)
        <3> DEFINE j == i + 1
        <3>1. j \in 2 .. Len(old) + 1 /\ j \in DOMAIN new /\ j - 1 = i
            BY <1>7
        <3> HIDE DEF j
        <3>2. new[j] = old[i]
            BY <1>7, <3>1
        <3> QED
            BY <3>1, <3>2 DEF ToSet
    <2>2. 1 \in DOMAIN new
        BY <1>7
    <2> QED
        BY <1>7, <1>8, <2>1, <2>2 DEF ToSet
<1>10. /\ feed' \in [Sources -> Seq(Items)] /\ coming' \in [Sources -> Seq(Items)]
       /\ feed'[s] = new /\ coming'[s] = Tail(coming[s])
       /\ \A t \in Sources : t # s => feed'[t] = feed[t] /\ coming'[t] = coming[t]
    BY <1>1, <1>2, <1>4, <1>7 DEF Sorts, new, old
<1>11. Sorts'
    BY <1>1, <1>3, <1>10 DEF Sorts
<1>12. NewsIsNew'
    <2>1. NoneTwice(coming[s])' /\ ToSet(coming[s])' \cap ToSet(feed[s])' = {}
        <3>1. ToSet(coming[s])' = ToSet(Tail(coming[s])) /\ ToSet(feed[s])' = ToSet(new)
            BY <1>10 DEF ToSet
        <3> QED
            BY <1>4, <1>5, <1>9, <1>10, <3>1 DEF NoneTwice, old
    <2>2. ASSUME NEW t \in Sources, t # s
          PROVE  NoneTwice(coming[t])' /\ ToSet(coming[t])' \cap ToSet(feed[t])' = {}
        <3>1. coming'[t] = coming[t] /\ feed'[t] = feed[t]
            BY <1>10, <2>2
        <3> QED
            BY <1>1, <3>1 DEF NewsIsNew, NoneTwice, ToSet
    <2> QED
        BY <2>1, <2>2 DEF NewsIsNew
<1>13. AliveHaveMet' /\ LossNeedsOverlap'
    BY <1>1, <1>3 DEF AliveHaveMet, Alive, LossNeedsOverlap
<1>14. ASSUME NEW r \in Runs
       PROVE  InHand(r)' /\ AloneIsSafe(r)' /\ NothingIsLeft(r)'
    <2>1. InHand(r) /\ AloneIsSafe(r) /\ NothingIsLeft(r)
        BY DEF ProgressInv
    <2>2. InHand(r)' /\ AloneIsSafe(r)'
        BY <1>3, <2>1 DEF InHand, AloneIsSafe, Alive, NoneTwice, Stored, ToSet
    <2>3. Recorded' = Recorded /\ Unfinished(r)' = Unfinished(r) /\ Alive' = Alive
        BY <1>3 DEF Recorded, Stored, Unfinished, Alive, ToSet
    <2>4. promised[r] \subseteq ToSet(feed[source[r]])' /\ \A n \in Nat : Passed(r, n)' \subseteq Passed(r, n)
        <3>1. CASE source[r] = s
            <4>1. promised[r] \subseteq ToSet(old) /\ item \notin promised[r]
                BY <1>5, <2>1, <3>1 DEF NothingIsLeft, old
            <4>2. ToSet(feed[source[r]])' = ToSet(new)
                BY <1>3, <1>10, <3>1 DEF ToSet
            <4>3. ASSUME NEW n \in Nat, NEW i \in DOMAIN new, i <= n, new[i] \in promised[r]
                  PROVE  \E k \in DOMAIN old : k <= n /\ new[i] = old[k]
                <5>1. i - 1 \in DOMAIN old /\ new[i] = old[i - 1]
                    BY <1>8, <4>1, <4>3
                <5>2. i - 1 <= n
                    BY <1>7, <4>3
                <5> QED
                    BY <5>1, <5>2
            <4>4. \A n : Passed(r, n)' = {new[i] : i \in {j \in DOMAIN new : j <= n}} \cap promised[r]
                BY <1>3, <1>10, <3>1 DEF Passed
            <4>5. \A n : Passed(r, n) = {old[i] : i \in {j \in DOMAIN old : j <= n}} \cap promised[r]
                BY <3>1 DEF Passed, old
            <4> QED
                BY <1>9, <4>1, <4>2, <4>3, <4>4, <4>5
        <3>2. CASE source[r] # s
            <4>1. feed'[source[r]] = feed[source[r]]
                BY <1>1, <1>10, <3>2 DEF Sorts
            <4> QED
                BY <1>3, <2>1, <4>1 DEF Passed, NothingIsLeft, ToSet
        <3> QED
            BY <3>1, <3>2
    <2>5. row[r].resume \in Nat /\ next[r] \in Nat
        BY <1>1 DEF Sorts
    <2>6. NothingIsLeft(r)'
        BY <1>3, <2>1, <2>3, <2>4, <2>5 DEF NothingIsLeft
    <2> QED
        BY <2>2, <2>6
<1> QED
    BY <1>11, <1>12, <1>13, <1>14 DEF ProgressInv

\* It holds before any run is launched.
LEMMA ProgressInit == Init => ProgressInv
<1> SUFFICES ASSUME Init
             PROVE  ProgressInv
    OBVIOUS
<1> DEFINE none == [fetched |-> 0, duplicate |-> 0, invalid |-> {}]
           empty == [status |-> "none", resume |-> 0, fetched |-> 0, inserted |-> 0, duplicate |-> 0, failed |-> 0]
<1>1. /\ feed = Listed /\ coming = Coming /\ papers = {} /\ authors = {} /\ errors = {}
      /\ row = [r \in Runs |-> empty] /\ pc = [r \in Runs |-> "off"]
      /\ source \in [Runs -> Sources] /\ next = [r \in Runs |-> 0]
      /\ page = [r \in Runs |-> <<>>] /\ byline = [r \in Runs |-> <<>>]
      /\ linked = [r \in Runs |-> {}]
      /\ kept = [r \in Runs |-> Nothing] /\ fresh = [r \in Runs |-> Nothing]
      /\ refused = [r \in Runs |-> {}] /\ counts = [r \in Runs |-> none]
      /\ promised = [r \in Runs |-> {}] /\ met = [r \in Runs |-> {}]
    BY DEF Init
<1>2. /\ Nothing.papers = {} /\ DOMAIN Nothing = {"papers", "authors"} /\ none.invalid = {}
      /\ empty.resume = 0 /\ "resume" \in DOMAIN empty
    BY DEF Nothing
<1>3. <<>> \in Seq(Items) /\ <<>> \in Seq(Names \cup {Null}) /\ DOMAIN <<>> = {}
    OBVIOUS
<1> HIDE DEF Nothing, none, empty
<1>4. Sorts
    BY <1>1, <1>2, <1>3, SourcesAssumption DEF Sorts
<1>5. NewsIsNew
    BY <1>1, NewsAssumption DEF NewsIsNew, NoneTwice, IsInjective
<1>6. Alive = {}
    BY <1>1 DEF Alive
<1>7. AliveHaveMet /\ LossNeedsOverlap
    BY <1>1, <1>6 DEF AliveHaveMet, LossNeedsOverlap
<1>8. ASSUME NEW r \in Runs
      PROVE  InHand(r) /\ AloneIsSafe(r) /\ NothingIsLeft(r)
    BY <1>1, <1>2, <1>3, <1>6 DEF InHand, NoneTwice, AloneIsSafe, NothingIsLeft, Passed, ToSet
<1> QED
    BY <1>4, <1>5, <1>7, <1>8 DEF ProgressInv

\* Every step keeps it.
LEMMA ProgressStep == ProgressInv /\ [Next]_vars => ProgressInv'
<1> SUFFICES ASSUME ProgressInv, [Next]_vars
             PROVE  ProgressInv'
    OBVIOUS
<1>1. ASSUME NEW s \in Sources, Publish(s)
      PROVE  ProgressInv'
    BY <1>1, PublishProgress
<1>2. ASSUME NEW r \in Runs,
             Launch(r) \/ Fetch(r) \/ InsertPaper(r) \/ LookupAuthor(r) \/ InsertAuthor(r) \/ FinishPaper(r)
      PROVE  ProgressInv'
    BY <1>2, LaunchProgress, FetchProgress, InsertPaperProgress, LookupAuthorProgress, InsertAuthorProgress, FinishPaperProgress
<1>3. ASSUME NEW r \in Runs,
             CommitPage(r) \/ Continue(r) \/ Stop(r) \/ FetchFails(r) \/ PageError(r) \/ Kill(r)
      PROVE  ProgressInv'
    BY <1>3, CommitPageProgress, ContinueProgress, EndProgress
<1>4. CASE UNCHANGED vars
    <2>1. UNCHANGED <<feed, coming, papers, authors, errors, row, pc, source, next, page, byline, linked, kept, fresh,
                      refused, counts, promised, met>>
        BY <1>4 DEF vars, tables, work
    <2>a. Sorts /\ NewsIsNew /\ AliveHaveMet /\ LossNeedsOverlap
        BY DEF ProgressInv
    <2>b. Sorts'
        BY <2>1, <2>a DEF Sorts
    <2>c. NewsIsNew'
        BY <2>1, <2>a DEF NewsIsNew, NoneTwice
    <2>d. AliveHaveMet'
        BY <2>1, <2>a DEF AliveHaveMet, Alive
    <2>e. LossNeedsOverlap'
        BY <2>1, <2>a DEF LossNeedsOverlap
    <2>2. Sorts' /\ NewsIsNew' /\ AliveHaveMet' /\ LossNeedsOverlap'
        BY <2>b, <2>c, <2>d, <2>e
    <2>3. \A r \in Runs : InHand(r)' /\ AloneIsSafe(r)' /\ NothingIsLeft(r)'
        <3>1. ASSUME NEW r \in Runs
              PROVE  InHand(r)' /\ AloneIsSafe(r)' /\ NothingIsLeft(r)'
            <4>1. InHand(r) /\ AloneIsSafe(r) /\ NothingIsLeft(r)
                BY DEF ProgressInv
            <4> QED
                BY <2>1, <4>1 DEF InHand, NoneTwice, AloneIsSafe, Alive, Stored, NothingIsLeft, Passed, Recorded, Unfinished
        <3> QED
            BY <3>1
    <2> QED
        BY <2>2, <2>3 DEF ProgressInv
<1> QED
    BY <1>1, <1>2, <1>3, <1>4 DEF Next

\* ProgressInv, for any runs, sources, items, authors and size of pages.
THEOREM ProgressInvariant == Spec => []ProgressInv
BY ProgressInit, ProgressStep, PTL DEF Spec

\* What a run found listed, or the one it resumes, and that lies before the place
\* it has saved, is stored or on record as an error (NothingIsSkipped), whatever
\* is published meanwhile and wherever runs are stopped.
THEOREM RunsAreResumable == Spec => []NothingIsSkipped
<1>1. ProgressInv => NothingIsSkipped
    <2> SUFFICES ASSUME ProgressInv, NEW r \in Runs, NEW i \in 1 .. Len(feed[source[r]]),
                        i <= row[r].resume, feed[source[r]][i] \in promised[r]
                 PROVE  feed[source[r]][i] \in Recorded
        BY DEF NothingIsSkipped, Recorded
    <2>1. i \in DOMAIN feed[source[r]]
        BY DEF ProgressInv, Sorts
    <2>2. feed[source[r]][i] \in Passed(r, row[r].resume)
        BY <2>1 DEF Passed
    <2> QED
        BY <2>2 DEF ProgressInv, NothingIsLeft
<1> QED
    BY <1>1, ProgressInvariant, PTL

\* A run that met no other one loses no valid paper that the database takes
\* (LossNeedsOverlap).
THEOREM SingleWriterLosesNothing == Spec => []LossNeedsOverlap
<1>1. ProgressInv => LossNeedsOverlap
    BY DEF ProgressInv
<1> QED
    BY <1>1, ProgressInvariant, PTL

\* A sequence has as many elements as it is long, at most.
LEMMA ElementsAreFew ==
    ASSUME NEW S, NEW seq \in Seq(S)
    PROVE  IsFiniteSet(ToSet(seq)) /\ Cardinality(ToSet(seq)) <= Len(seq)
<1>1. Len(seq) \in Nat /\ DOMAIN seq = 1 .. Len(seq) /\ seq \in [1 .. Len(seq) -> S]
    OBVIOUS
<1>2. IsFiniteSet(1 .. Len(seq)) /\ Cardinality(1 .. Len(seq)) = Len(seq)
    BY <1>1, FS_Interval
<1>3. seq \in Surjection(1 .. Len(seq), ToSet(seq))
    BY <1>1 DEF Surjection, ToSet
<1> QED
    BY <1>2, <1>3, FS_Surjection DEF ExistsSurjection

\* A step of one run: of the others nothing changes that counts here.
LEMMA FitStep ==
    ASSUME IInv, PagesFit, NEW r \in Runs, pc[r] # "end",
           papers' = papers \/ papers' = papers \cup [item: kept[r].papers, by: {r}],
           cut' = cut \/ (cut' = cut \cup {r} /\ UncountedFits(r)'),
           \A q \in Runs : q # r => kept'[q] = kept[q] /\ page'[q] = page[q] /\ row'[q] = row[q],
           HandFits(r)'
    PROVE  PagesFit'
<1>1. r \notin cut
    BY DEF IInv
<1>2. UncountedFits(r)'
    BY <1>1 DEF UncountedFits
<1>3. ASSUME NEW q \in Runs, q # r
      PROVE  HandFits(q)' /\ UncountedFits(q)'
    <2>1. HandFits(q) /\ UncountedFits(q)
        BY DEF PagesFit
    <2>2. HandFits(q)'
        BY <1>3, <2>1 DEF HandFits
    <2>3. OwnPapers(q)' = OwnPapers(q)
        BY <1>3, CommitAdds DEF OwnPapers
    <2> QED
        BY <1>3, <2>1, <2>2, <2>3 DEF UncountedFits
<1> QED
    BY <1>2, <1>3 DEF PagesFit

\* What a run has in hand does not grow within a page.
LEMMA HandShrinks ==
    ASSUME PagesFit, NEW r \in Runs,
           kept'[r].papers \cup ToSet(page'[r]) \subseteq kept[r].papers \cup ToSet(page[r])
    PROVE  HandFits(r)'
<1> DEFINE hand == kept[r].papers \cup ToSet(page[r])
           left == kept'[r].papers \cup ToSet(page'[r])
<1>1. IsFiniteSet(hand) /\ Cardinality(hand) <= PageSize
    BY DEF PagesFit, HandFits
<1>2. left \in SUBSET hand /\ (ToSet(page[r]))' = ToSet(page'[r])
    BY DEF ToSet
<1> HIDE DEF hand
<1>3. IsFiniteSet(left) /\ Cardinality(left) <= Cardinality(hand)
    BY <1>1, <1>2, FS_Subset
<1>4. Cardinality(left) \in Nat /\ Cardinality(hand) \in Nat /\ PageSize \in Nat
    BY <1>1, <1>3, FS_CardinalityType, PageSizeAssumption
<1> HIDE DEF left
<1>5. Cardinality(left) <= PageSize
    BY <1>1, <1>3, <1>4
<1> QED
    BY <1>2, <1>3, <1>5 DEF HandFits, left

\* Nothing to insert.
LEMMA NoPageNoItems == ToSet(<<>>) = {}
BY DEF ToSet

LEMMA LeaveFits ==
    ASSUME IInv, ProgressInv, PagesFit, NEW r \in Runs, Leave(r), pc[r] # "end",
           papers' = papers \/ papers' = papers \cup [item: kept[r].papers, by: {r}],
           cut' = cut \/ (cut' = cut \cup {r} /\ UncountedFits(r)'),
           \A q \in Runs : q # r => row'[q] = row[q]
    PROVE  PagesFit'
<1>1. Sorts
    BY DEF ProgressInv
<1>2. kept' = [kept EXCEPT ![r] = Nothing] /\ page' = [page EXCEPT ![r] = <<>>]
    BY DEF Leave
<1>3. Nothing.papers = {}
    BY DEF Nothing
<1> HIDE DEF Nothing
<1>4. kept'[r].papers = {} /\ page'[r] = <<>>
      /\ \A q \in Runs : q # r => kept'[q] = kept[q] /\ page'[q] = page[q]
    BY <1>1, <1>2, <1>3 DEF Sorts
<1>5. HandFits(r)'
    BY <1>4, HandShrinks, NoPageNoItems
<1> QED
    BY <1>4, <1>5, FitStep

\* An error ends a run inside a page: one paper of the page is not kept.
LEMMA PageErrorFits ==
    ASSUME IInv, IInv', ProgressInv, PagesFit, NEW r \in Runs, PageError(r)
    PROVE  PagesFit'
<1> DEFINE item == Head(page[r])
<1>1. /\ pc[r] \in {"paper", "lookup", "author"} /\ page[r] # <<>> /\ Leave(r)
      /\ papers' = papers \cup [item: kept[r].papers, by: {r}]
      /\ row' = [row EXCEPT ![r].status = "failed"] /\ cut' = cut \cup {r}
    BY DEF PageError, Visible
<1>2. row'[r].inserted = row[r].inserted /\ \A q \in Runs : q # r => row'[q] = row[q]
    BY <1>1 DEF IInv, Shapes
<1>3. /\ Cardinality(OwnPapers(r)') = Cardinality(OwnPapers(r)) + Cardinality(kept[r].papers)
      /\ Cardinality(OwnPapers(r)) \in Nat /\ Cardinality(kept[r].papers) \in Nat
    BY <1>1, CommitAdds
<1>4. row[r].inserted \in Nat /\ row[r].inserted = Cardinality(OwnPapers(r))
    BY <1>1 DEF IInv, Counted
<1>5. item \in ToSet(page[r]) /\ item \notin kept[r].papers
    BY <1>1, HeadAndTail DEF ProgressInv, Sorts, InHand
<1>6. Cardinality(kept[r].papers) + 1 <= PageSize
    <2> DEFINE hand == kept[r].papers \cup ToSet(page[r])
               more == kept[r].papers \cup {item}
    <2>1. IsFiniteSet(hand) /\ Cardinality(hand) <= PageSize
        BY DEF PagesFit, HandFits
    <2>2. more \in SUBSET hand
        BY <1>5
    <2>3. IsFiniteSet(kept[r].papers)
        BY DEF IInv, PendingIsNew
    <2>4. Cardinality(more) = Cardinality(kept[r].papers) + 1
        BY <1>5, <2>3, FS_AddElement
    <2> HIDE DEF hand, more
    <2>5. IsFiniteSet(more) /\ Cardinality(more) <= Cardinality(hand)
        BY <2>1, <2>2, FS_Subset
    <2>6. Cardinality(more) \in Nat /\ Cardinality(hand) \in Nat /\ PageSize \in Nat
        BY <2>1, <2>5, FS_CardinalityType, PageSizeAssumption
    <2> QED
        BY <2>1, <2>4, <2>5, <2>6
<1>7. UncountedFits(r)'
    BY <1>2, <1>3, <1>4, <1>6, PageSizeAssumption DEF UncountedFits
<1> QED
    BY <1>1, <1>2, <1>7, LeaveFits

\* A page that is fetched is no longer than PageSize.
LEMMA FetchFits ==
    ASSUME IInv, ProgressInv, PagesFit, NEW r \in Runs, Fetch(r)
    PROVE  PagesFit'
<1> DEFINE all == feed[source[r]]
           to == Min({next[r] + PageSize, Len(all)})
           got == SubSeq(all, next[r] + 1, to)
           valid == Among(got, Items \ Invalid)
           unique == Once(Among(valid, Items \ Stored))
<1>1. Sorts /\ InHand(r)
    BY DEF ProgressInv
<1>2. /\ pc[r] = "fetch" /\ page' = [page EXCEPT ![r] = unique]
      /\ kept' = kept /\ papers' = papers /\ row' = row /\ cut' = cut
    BY DEF Fetch, tables
<1>3. kept[r].papers = {}
    BY <1>1, <1>2 DEF InHand
<1>4. page'[r] = unique /\ \A q \in Runs : q # r => page'[q] = page[q]
    BY <1>1, <1>2 DEF Sorts
<1>5. all \in Seq(Items) /\ next[r] \in Nat /\ Len(all) \in Nat /\ PageSize \in Nat
    BY <1>1, PageSizeAssumption DEF Sorts
<1>6. to \in Nat /\ to <= Len(all) /\ to <= next[r] + PageSize
    <2>1. \A a, b \in Nat : Min({a, b}) \in Nat /\ Min({a, b}) <= b /\ Min({a, b}) <= a
        BY DEF Min
    <2> DEFINE end == next[r] + PageSize
               size == Len(all)
    <2>2. end \in Nat /\ size \in Nat /\ to = Min({end, size})
        BY <1>5
    <2> HIDE DEF end, size
    <2>3. to \in Nat /\ to <= size /\ to <= end
        BY <2>1, <2>2
    <2> HIDE DEF to
    <2> QED
        BY <2>3 DEF end, size
<1> HIDE DEF all, to
<1>7. got \in Seq(Items) /\ Len(got) \in Nat /\ Len(got) <= PageSize
    <2> DEFINE from == next[r] + 1
    <2>1. from \in Int /\ to \in Int /\ \A i \in from .. to : all[i] \in Items
        BY <1>5, <1>6
    <2> HIDE DEF from
    <2>2. SubSeq(all, from, to) \in Seq(Items)
          /\ Len(SubSeq(all, from, to)) = IF from <= to THEN to - from + 1 ELSE 0
        BY <2>1, SubSeqProperties
    <2> QED
        BY <1>5, <1>6, <2>2 DEF from
<1> HIDE DEF got
<1>8. ToSet(unique) \subseteq ToSet(got)
    <2>1. valid \in Seq(Items) /\ ToSet(valid) \subseteq ToSet(got)
        BY <1>7, AmongKeeps
    <2> HIDE DEF valid
    <2> DEFINE some == Among(valid, Items \ Stored)
    <2>2. some \in Seq(Items) /\ ToSet(some) \subseteq ToSet(valid)
        BY <2>1, AmongKeeps
    <2> HIDE DEF some
    <2>3. ToSet(Once(some)) = ToSet(some)
        BY <2>2, OnceKeeps
    <2>4. unique = Once(some)
        BY DEF some
    <2> QED
        BY <2>1, <2>2, <2>3, <2>4
<1> HIDE DEF unique
<1>9. HandFits(r)'
    <2> DEFINE hand == kept'[r].papers \cup ToSet(page'[r])
    <2>1. hand \in SUBSET ToSet(got)
        BY <1>2, <1>3, <1>4, <1>8
    <2> HIDE DEF hand
    <2>2. IsFiniteSet(ToSet(got)) /\ Cardinality(ToSet(got)) <= Len(got)
        BY <1>7, ElementsAreFew
    <2>3. IsFiniteSet(hand) /\ Cardinality(hand) <= Cardinality(ToSet(got))
        BY <2>1, <2>2, FS_Subset
    <2>4. Cardinality(hand) \in Nat /\ Cardinality(ToSet(got)) \in Nat
        BY <2>2, <2>3, FS_CardinalityType
    <2>5. Cardinality(hand) <= PageSize
        BY <1>5, <1>7, <2>2, <2>3, <2>4
    <2>6. (ToSet(page[r]))' = ToSet(page'[r])
        BY DEF ToSet
    <2> QED
        BY <2>3, <2>5, <2>6 DEF HandFits, hand
<1> QED
    BY <1>2, <1>4, <1>9, FitStep

\* The steps within a page: the head of it goes, or is kept.
LEMMA InsertFits ==
    ASSUME IInv, ProgressInv, PagesFit, NEW r \in Runs,
           InsertPaper(r) \/ LookupAuthor(r) \/ InsertAuthor(r)
    PROVE  PagesFit'
<1>1. Sorts /\ InHand(r)
    BY DEF ProgressInv
<1>2. /\ pc[r] \in {"paper", "lookup", "author"} /\ page[r] # <<>>
      /\ kept' = kept /\ papers' = papers /\ row' = row /\ cut' = cut
    BY <1>1 DEF InsertPaper, LookupAuthor, InsertAuthor, tables, InHand
<1>3. page' = page \/ page' = [page EXCEPT ![r] = Tail(page[r])]
    BY DEF InsertPaper, LookupAuthor, InsertAuthor, Refuse
<1>4. page[r] \in Seq(Items) /\ ToSet(Tail(page[r])) \subseteq ToSet(page[r])
    BY <1>1, <1>2, HeadAndTail DEF Sorts
<1>5. (page'[r] = page[r] \/ page'[r] = Tail(page[r])) /\ \A q \in Runs : q # r => page'[q] = page[q]
    BY <1>1, <1>3 DEF Sorts
<1>6. HandFits(r)'
    BY <1>2, <1>4, <1>5, HandShrinks
<1> QED
    BY <1>2, <1>5, <1>6, FitStep

LEMMA FinishFits ==
    ASSUME IInv, ProgressInv, PagesFit, NEW r \in Runs, FinishPaper(r)
    PROVE  PagesFit'
<1>1. Sorts /\ InHand(r)
    BY DEF ProgressInv
<1>2. /\ pc[r] = "lookup" /\ page[r] # <<>> /\ fresh[r].papers = {Head(page[r])}
      /\ papers' = papers /\ row' = row /\ cut' = cut
    BY <1>1 DEF FinishPaper, tables, InHand
<1>3. page' = [page EXCEPT ![r] = Tail(page[r])]
      /\ (kept' = kept \/ kept' = [kept EXCEPT ![r] = Pending(r)])
    BY DEF FinishPaper, Refuse
<1>4. Pending(r).papers = kept[r].papers \cup {Head(page[r])}
    BY <1>2 DEF Pending
<1> HIDE DEF Pending
<1>5. ToSet(page[r]) = {Head(page[r])} \cup ToSet(Tail(page[r]))
    BY <1>1, <1>2, HeadAndTail DEF Sorts
<1>6. page'[r] = Tail(page[r]) /\ kept'[r].papers \subseteq kept[r].papers \cup {Head(page[r])}
      /\ \A q \in Runs : q # r => page'[q] = page[q] /\ kept'[q] = kept[q]
    BY <1>1, <1>3, <1>4 DEF Sorts
<1>7. HandFits(r)'
    BY <1>5, <1>6, HandShrinks
<1> QED
    BY <1>2, <1>6, <1>7, FitStep

LEMMA CommitFits ==
    ASSUME IInv, ProgressInv, PagesFit, NEW r \in Runs, CommitPage(r)
    PROVE  PagesFit'
<1>1. Sorts
    BY DEF ProgressInv
<1>2. /\ pc[r] = "paper" /\ papers' = papers \cup [item: kept[r].papers, by: {r}]
      /\ kept' = [kept EXCEPT ![r] = Nothing] /\ page' = page /\ cut' = cut
    BY DEF CommitPage, Visible
<1>3. \A q \in Runs : q # r => row'[q] = row[q]
    BY <1>1 DEF CommitPage, Sorts
<1>4. Nothing.papers = {}
    BY DEF Nothing
<1> HIDE DEF Nothing
<1>5. kept'[r].papers = {} /\ \A q \in Runs : q # r => kept'[q] = kept[q]
    BY <1>1, <1>2, <1>4 DEF Sorts
<1>6. HandFits(r)'
    BY <1>2, <1>5, HandShrinks
<1> QED
    BY <1>2, <1>3, <1>5, <1>6, FitStep

LEMMA LaunchFits ==
    ASSUME IInv, ProgressInv, PagesFit, NEW r \in Runs, Launch(r) \/ Continue(r)
    PROVE  PagesFit'
<1>1. pc[r] # "end" /\ papers' = papers /\ page' = page /\ kept' = kept /\ cut' = cut
    BY DEF Launch, Continue, tables
<1>2. \A q \in Runs : q # r => row'[q] = row[q]
    BY DEF Launch, Continue, tables, ProgressInv, Sorts
<1>3. HandFits(r)'
    BY <1>1, HandShrinks
<1> QED
    BY <1>1, <1>2, <1>3, FitStep

LEMMA EndFits ==
    ASSUME IInv, ProgressInv, PagesFit, NEW r \in Runs, Stop(r) \/ FetchFails(r) \/ Kill(r)
    PROVE  PagesFit'
<1>1. Leave(r) /\ pc[r] # "end" /\ papers' = papers /\ cut' = cut
    BY DEF Stop, FetchFails, Kill, Alive, tables
<1>2. \E s : row' = row \/ row' = [row EXCEPT ![r].status = s]
    BY DEF Stop, FetchFails, Kill, tables
<1>3. \A q \in Runs : q # r => row'[q] = row[q]
    BY <1>2 DEF ProgressInv, Sorts
<1> QED
    BY <1>1, <1>3, LeaveFits

LEMMA FitInit == Init => PagesFit
<1> SUFFICES ASSUME Init, NEW r \in Runs
             PROVE  HandFits(r) /\ UncountedFits(r)
    BY DEF PagesFit
<1>1. kept[r].papers = {} /\ page[r] = <<>> /\ cut = {}
    BY DEF Init, Nothing
<1>2. IsFiniteSet({}) /\ Cardinality({}) = 0
    BY FS_EmptySet
<1>3. kept[r].papers \cup ToSet(page[r]) = {}
    BY <1>1 DEF ToSet
<1>4. HandFits(r)
    <2> HIDE DEF Init
    <2> QED
        BY <1>2, <1>3, PageSizeAssumption DEF HandFits
<1> QED
    BY <1>1, <1>4 DEF UncountedFits

LEMMA FitNext == IInv /\ IInv' /\ ProgressInv /\ PagesFit /\ [Next]_vars => PagesFit'
<1> SUFFICES ASSUME IInv, IInv', ProgressInv, PagesFit, [Next]_vars
             PROVE  PagesFit'
    OBVIOUS
<1>1. ASSUME UNCHANGED <<papers, row, kept, page, cut>>
      PROVE  PagesFit'
    BY <1>1 DEF PagesFit, HandFits, UncountedFits, OwnPapers, ToSet
<1>2. ASSUME NEW s \in Sources, Publish(s)
      PROVE  PagesFit'
    BY <1>1, <1>2 DEF Publish, tables, work
<1>3. ASSUME NEW r \in Runs, Launch(r) \/ Fetch(r) \/ InsertPaper(r) \/ LookupAuthor(r) \/ InsertAuthor(r)
      PROVE  PagesFit'
    BY <1>3, LaunchFits, FetchFits, InsertFits
<1>4. ASSUME NEW r \in Runs, FinishPaper(r) \/ CommitPage(r) \/ Continue(r) \/ PageError(r)
      PROVE  PagesFit'
    BY <1>4, FinishFits, CommitFits, LaunchFits, PageErrorFits
<1>5. ASSUME NEW r \in Runs, Stop(r) \/ FetchFails(r) \/ Kill(r)
      PROVE  PagesFit'
    BY <1>5, EndFits
<1>6. CASE UNCHANGED vars
    BY <1>1, <1>6 DEF vars, tables, work
<1> QED
    BY <1>2, <1>3, <1>4, <1>5, <1>6 DEF Next

\* However runs overlap, wait for each other, fail, end in an error inside a page
\* or are killed: the counter of a run is the number of papers it has stored, and
\* of one that an error has ended inside a page it falls short by less than a page.
THEOREM CountersExact == Spec => []CountersAreAccurate
<1>1. IInv /\ PagesFit => CountersAreAccurate
    <2> SUFFICES ASSUME IInv, PagesFit, NEW r \in Runs
                 PROVE  LET uncounted == Cardinality({p \in papers : p.by = r}) - row[r].inserted
                        IN  IF r \in cut THEN uncounted \in 0 .. PageSize - 1 ELSE uncounted = 0
        BY DEF CountersAreAccurate
    <2> DEFINE stored == Cardinality({p \in papers : p.by = r})
    <2>1. stored = Cardinality(OwnPapers(r)) /\ stored \in Nat
        BY FS_CardinalityType DEF OwnPapers, IInv, Counted
    <2> HIDE DEF stored
    <2>2. /\ row[r].inserted \in Nat /\ PageSize \in Nat
          /\ IF r \in cut THEN row[r].inserted <= stored ELSE row[r].inserted = stored
          /\ r \in cut => stored < row[r].inserted + PageSize
        BY <2>1, PageSizeAssumption DEF IInv, Counted, PagesFit, UncountedFits
    <2>3. IF r \in cut THEN stored - row[r].inserted \in 0 .. PageSize - 1 ELSE stored - row[r].inserted = 0
        BY <2>1, <2>2
    <2> QED
        BY <2>3 DEF stored
<1> QED
    BY <1>1, IngestionInvariant, ProgressInvariant, FitInit, FitNext, PTL DEF Spec

-----------------------------------------------------------------------------
(* The requests to a source.                                               *)

\* A sequence is what its first elements and the others are.
LEMMA Cutting ==
    ASSUME NEW S, NEW s \in Seq(S), NEW n \in 0 .. Len(s)
    PROVE  /\ SubSeq(s, 1, n) \in Seq(S) /\ Len(SubSeq(s, 1, n)) = n
           /\ \A i \in 1 .. n : SubSeq(s, 1, n)[i] = s[i]
           /\ SubSeq(s, n + 1, Len(s)) \in Seq(S)
           /\ Len(SubSeq(s, n + 1, Len(s))) = Len(s) - n
           /\ \A i \in 1 .. Len(s) - n : SubSeq(s, n + 1, Len(s))[i] = s[n + i]
           /\ ToSet(s) = ToSet(SubSeq(s, 1, n)) \cup ToSet(SubSeq(s, n + 1, Len(s)))
<1>1. Len(s) \in Nat /\ n \in Nat /\ n <= Len(s)
    OBVIOUS
<1>2. /\ SubSeq(s, 1, n) \in Seq(S) /\ Len(SubSeq(s, 1, n)) = n
      /\ \A i \in 1 .. n : SubSeq(s, 1, n)[i] = s[i]
    <2>1. \A i \in 1 .. n : s[i] \in S
        BY <1>1
    <2> QED
        BY <1>1, <2>1, SubSeqProperties
<1>3. /\ SubSeq(s, n + 1, Len(s)) \in Seq(S)
      /\ Len(SubSeq(s, n + 1, Len(s))) = Len(s) - n
      /\ \A i \in 1 .. Len(s) - n : SubSeq(s, n + 1, Len(s))[i] = s[n + i]
    <2> DEFINE m == n + 1
    <2>1. m \in Int /\ Len(s) \in Int /\ \A i \in m .. Len(s) : s[i] \in S
        BY <1>1
    <2> HIDE DEF m
    <2>2. /\ SubSeq(s, m, Len(s)) \in Seq(S)
          /\ Len(SubSeq(s, m, Len(s))) = IF m <= Len(s) THEN Len(s) - m + 1 ELSE 0
          /\ \A i \in 1 .. Len(s) - m + 1 : SubSeq(s, m, Len(s))[i] = s[m + i - 1]
        BY <2>1, SubSeqProperties
    <2>3. m = n + 1
        BY DEF m
    <2>4. ASSUME NEW i \in 1 .. Len(s) - n
          PROVE  SubSeq(s, m, Len(s))[i] = s[n + i]
        <3>1. i \in 1 .. Len(s) - m + 1 /\ m + i - 1 = n + i
            BY <1>1, <2>3
        <3> QED
            BY <2>2, <3>1
    <2> QED
        BY <1>1, <2>2, <2>3, <2>4
<1>4. ASSUME NEW u, NEW v, u = SubSeq(s, 1, n), v = SubSeq(s, n + 1, Len(s))
      PROVE  ToSet(s) = ToSet(u) \cup ToSet(v)
    <2>1. /\ DOMAIN u = 1 .. n /\ \A i \in 1 .. n : u[i] = s[i]
          /\ DOMAIN v = 1 .. Len(s) - n /\ \A i \in 1 .. Len(s) - n : v[i] = s[n + i]
          /\ DOMAIN s = 1 .. Len(s)
        BY <1>1, <1>2, <1>3, <1>4
    <2>2. ASSUME NEW j \in DOMAIN s
          PROVE  s[j] \in ToSet(u) \cup ToSet(v)
        <3>1. CASE j <= n
            BY <2>1, <3>1 DEF ToSet
        <3>2. CASE ~ (j <= n)
            <4>1. j - n \in 1 .. Len(s) - n /\ n + (j - n) = j
                BY <1>1, <2>1, <3>2
            <4>2. v[j - n] = s[j] /\ j - n \in DOMAIN v
                BY <2>1, <4>1
            <4> QED
                BY <4>2 DEF ToSet
        <3> QED
            BY <3>1, <3>2
    <2>3. ASSUME NEW i \in DOMAIN u
          PROVE  u[i] \in ToSet(s)
        BY <1>1, <2>1 DEF ToSet
    <2>4. ASSUME NEW i \in DOMAIN v
          PROVE  v[i] \in ToSet(s)
        <3>1. n + i \in DOMAIN s
            BY <1>1, <2>1
        <3> QED
            BY <2>1, <3>1 DEF ToSet
    <2> QED
        BY <2>2, <2>3, <2>4 DEF ToSet
<1> QED
    BY <1>2, <1>3, <1>4

\* What each source allows, in numbers.
LEMMA Budgets ==
    ASSUME NEW s \in DOMAIN Budget
    PROVE  /\ Budget[s].interval \in 1 .. 6
           /\ Budget[s].attempts \in 1 .. 5
           /\ Budget[s].longest \in Nat
<1>1. CASE s \in DOMAIN Connectors
    BY <1>1 DEF Budget, Connectors, Arxiv, Core, Scholar, Springer
<1>2. CASE s \in DOMAIN Fetchers \ DOMAIN Connectors
    BY <1>2 DEF Budget, Fetchers, ScholarCitations, Crossref
<1> QED
    BY <1>1, <1>2 DEF Budget

\* Time goes on up to its bound.
LEMMA LaterIsLater ==
    ASSUME since \in Nat, NEW seconds \in Nat
    PROVE  Later(seconds) \in Nat
BY DEF Later, Never

\* The delay before a retry is a number.
LEMMA BackoffIsTime ==
    ASSUME asked \in DOMAIN Budget, NEW n \in Nat, n >= 1, n < Budget[asked].attempts
    PROVE  Backoff(n) \in Nat
<1>1. n \in 1 .. 4 /\ Budget[asked].longest \in Nat
    BY Budgets
<1>2. <<1, 2, 4, 8>>[n] \in Nat
    BY <1>1
<1> QED
    BY <1>1, <1>2 DEF Backoff, Least

\* Time, attempts and the distance kept, whatever is done to the pages.
Times ==
    /\ asked \in DOMAIN Budget
    /\ since \in Nat /\ apart \in Nat /\ tries \in Nat
    /\ phase = "sent" => tries >= 1
    /\ RequestsKeepTheirDistance

\* Clocks and counters keep their types.
LEMMA TimesStep == Times /\ [RequestsNext]_requestVars => Times' /\ asked' = asked
<1> SUFFICES ASSUME Times, [RequestsNext]_requestVars
             PROVE  Times' /\ asked' = asked
    OBVIOUS
<1>1. /\ Budget[asked].interval \in 1 .. 6
      /\ Budget[asked].attempts \in 1 .. 5
    BY Budgets DEF Times
<1>2. CASE UNCHANGED requestVars
    BY <1>2 DEF Times, requestVars, RequestsKeepTheirDistance
<1>3. ASSUME Start
      PROVE  Times' /\ asked' = asked
    BY <1>3 DEF Start, Times, RequestsKeepTheirDistance, Never
<1>4. ASSUME Send
      PROVE  Times' /\ asked' = asked
    <2>1. /\ apart' = IF since = Never THEN apart ELSE Least(apart, Most(since, Budget[asked].interval))
          /\ since' = 0 /\ tries' = tries + 1 /\ asked' = asked
        BY <1>4 DEF Send
    <2> QED
        BY <1>1, <2>1 DEF Times, RequestsKeepTheirDistance, Least, Most
<1>5. ASSUME Complete \/ NextWork \/ Interrupt \/ ListNew \/ Withdraw
      PROVE  Times' /\ asked' = asked
    <2>1. asked' = asked /\ since' = since /\ apart' = apart /\ tries' = tries /\ (phase' = "sent" => phase = "sent")
        BY <1>5 DEF Complete, NextWork, Interrupt, ListNew, Withdraw
    <2> QED
        BY <2>1 DEF Times, RequestsKeepTheirDistance
<1>6. ASSUME NEW delay \in 0 .. MaxDelay,
             Retry(delay) \/ GiveUp(delay) \/ AnswerPage(delay) \/ TakePage(delay) \/ AnswerWork(delay)
      PROVE  Times' /\ asked' = asked
    <2>1. delay \in Nat
        BY PapersAssumption
    <2>2. Later(delay) \in Nat
        BY <2>1, LaterIsLater DEF Times
    <2>3. CASE Retry(delay)
        <3>1. Backoff(tries) \in Nat
            BY <2>3, BackoffIsTime DEF Retry, Times
        <3>2. delay + Backoff(tries) \in Nat
            BY <2>1, <3>1
        <3>3. Later(delay + Backoff(tries)) \in Nat
            BY <3>2, LaterIsLater DEF Times
        <3> QED
            BY <2>3, <3>3 DEF Retry, Times, RequestsKeepTheirDistance
    <2>4. CASE GiveUp(delay)
        BY <2>2, <2>4 DEF GiveUp, Times, RequestsKeepTheirDistance
    <2>5. CASE AnswerPage(delay)
        <3>1. asked' = asked /\ apart' = apart /\ since' = Later(delay) /\ tries' = 0 /\ phase' # "sent"
            BY <2>5 DEF AnswerPage
        <3> QED
            BY <2>2, <3>1 DEF Times, RequestsKeepTheirDistance
    <2>6. CASE TakePage(delay) \/ AnswerWork(delay)
        <3>1. asked' = asked /\ apart' = apart /\ since' = Later(delay) /\ tries' \in {0, tries} /\ phase' # "sent"
            BY <2>6 DEF TakePage, AnswerWork
        <3> QED
            BY <2>2, <3>1 DEF Times, RequestsKeepTheirDistance
    <2> QED
        BY <1>6, <2>3, <2>4, <2>5, <2>6
<1> QED
    BY <1>2, <1>3, <1>4, <1>5, <1>6 DEF RequestsNext

\* Clocks and counters are numbers, whatever the source answers.
LEMMA TimesInvariant == RequestsSpec => []Times
<1>1. RequestsInit => Times
    <2>1. ASSUME asked \in DOMAIN Budget
          PROVE  Budget[asked].interval \in 1 .. 6
        BY <2>1, Budgets
    <2> QED
        BY <2>1 DEF RequestsInit, Times, RequestsKeepTheirDistance, Never
<1> QED
    BY <1>1, TimesStep, PTL DEF RequestsSpec

\* No two requests of one object are closer than the interval of its source
\* (RequestsKeepTheirDistance): the retries, which wait 1, 2, 4 and 8 seconds, go
\* through the throttle too; for any delays of the answers and of the work.
THEOREM RequestsAreSpaced == RequestsSpec => []RequestsKeepTheirDistance
<1>1. Times => RequestsKeepTheirDistance
    BY DEF Times
<1> QED
    BY <1>1, TimesInvariant, PTL

Lists == listing \in Seq(Papers) /\ IsPlace(place) /\ asked \in DOMAIN Budget

\* The papers of an answer, those that are left, what its connector makes of it,
\* and that it leaves nothing out.
PapersOf(n) == SubSeq(Ahead, 1, n)
LeftBy(n) == SubSeq(Ahead, n + 1, Len(Ahead))
CursorOf(n, whole) == IF whole THEN LeftBy(n) ELSE <<>>
AnswerOf(n, displayed, all, whole) == PageOf(PapersOf(n), displayed, all, CursorOf(n, whole))
Told(n, displayed, all, whole) == LeftBy(n) = <<>> \/ Tells(n, displayed, all, whole)

\* A page by index: it holds what its next place has behind it and this one has
\* not, and all of that when it is the last and nothing was left out.
LEMMA PageByIndex ==
    ASSUME Pages, Lists, asked # "semantic_scholar",
           NEW n \in 0 .. Len(Ahead), NEW displayed \in 0 .. FullPage, NEW all \in {Total, 0}, NEW whole \in BOOLEAN
    PROVE  /\ Ahead \in Seq(Papers) /\ PapersOf(n) \in Seq(Papers)
           /\ AnswerOf(n, displayed, all, whole).papers = PapersOf(n)
           /\ IsPlace(AnswerOf(n, displayed, all, whole).place)
           /\ Told(n, displayed, all, whole) =>
                 Behind(AnswerOf(n, displayed, all, whole).place) \subseteq Behind(place) \cup ToSet(PapersOf(n))
           /\ AnswerOf(n, displayed, all, whole).last /\ Told(n, displayed, all, whole) =>
                 ToSet(OldPapers) \cap ToSet(listing) \subseteq Behind(place) \cup ToSet(PapersOf(n))
<1> DEFINE list == PapersOf(n)
           rest == LeftBy(n)
           cursor == CursorOf(n, whole)
           answer == AnswerOf(n, displayed, all, whole)
<1>0. /\ list = SubSeq(Ahead, 1, n) /\ rest = SubSeq(Ahead, n + 1, Len(Ahead))
      /\ answer = PageOf(list, displayed, all, cursor)
      /\ Told(n, displayed, all, whole) <=> rest = <<>> \/ Tells(n, displayed, all, whole)
    BY DEF PapersOf, LeftBy, AnswerOf, Told
<1> HIDE DEF list, rest, cursor, answer
<1> USE <1>0
<1> DEFINE first == IF asked = "springer" THEN place ELSE place + 1
           total == Len(listing)
           ahead == SubSeq(listing, first, total)
<1>1. asked \in {"arxiv", "core", "springer"}
    BY DEF Pages, Connectors
<1>2. place \in Nat /\ first \in Nat /\ total \in Nat
    BY <1>1 DEF Lists, IsPlace
<1>3. Ahead = ahead
    BY <1>1 DEF Ahead
<1>4. /\ answer.papers = list
      /\ answer.place = place + IF asked = "springer" THEN displayed ELSE Len(list)
      /\ answer.last => \/ asked = "springer" /\ (displayed = 0 \/ place + displayed > all)
                        \/ asked # "springer" /\ (list = <<>> \/ place + Len(list) >= all)
    <2>1. CASE asked = "arxiv"
        BY <2>1 DEF PageOf, ArxivPage
    <2>2. CASE asked = "core"
        BY <2>2 DEF PageOf, CorePage
    <2>3. CASE asked = "springer"
        BY <2>3 DEF PageOf, SpringerPage
    <2> QED
        BY <1>1, <2>1, <2>2, <2>3
<1>5. \A x \in Nat : Behind(x) =
          {listing[i] : i \in {j \in DOMAIN listing : j < IF asked = "springer" THEN x ELSE x + 1}} \cap ToSet(OldPapers)
    BY <1>1 DEF Behind
<1>6. listing \in Seq(Papers) /\ DOMAIN listing = 1 .. total
    BY DEF Lists
<1>7. first >= 1
    BY <1>2 DEF Lists, IsPlace
<1> HIDE DEF first
<1>8. /\ ahead \in Seq(Papers) /\ Len(ahead) = IF first <= total THEN total - first + 1 ELSE 0
      /\ \A i \in 1 .. total - first + 1 : ahead[i] = listing[first + i - 1]
    <2>1. \A i \in first .. total : listing[i] \in Papers
        BY <1>2, <1>6, <1>7
    <2> QED
        BY <1>2, <2>1, SubSeqProperties
<1>18. all \in {total, 0}
    BY DEF Total
<1>19. Tells(n, displayed, all, whole) => n > 0 /\ all = total /\ (asked = "springer" => displayed = n)
    BY DEF Tells, Total
<1> HIDE DEF ahead, total
<1>9. n \in 0 .. Len(ahead) /\ list = SubSeq(ahead, 1, n) /\ rest = SubSeq(ahead, n + 1, Len(ahead))
    BY <1>3
<1>10. /\ list \in Seq(Papers) /\ Len(list) = n
       /\ \A i \in 1 .. n : list[i] = ahead[i]
    <2>1. ahead \in Seq(Papers)
        BY <1>8
    <2> QED
        BY ONLY <1>9, <2>1, Cutting
<1>11. \A j \in first .. first + n - 1 : j \in DOMAIN listing => listing[j] \in ToSet(list)
    <2>1. ASSUME NEW j \in first .. first + n - 1, j \in DOMAIN listing
          PROVE  listing[j] \in ToSet(list)
        <3>1. j \in Nat /\ n \in Nat /\ n <= Len(ahead) /\ j <= total
            BY <1>2, <1>6, <1>8, <1>9, <2>1
        <3> DEFINE i == j - first + 1
        <3>2. i \in 1 .. n /\ i \in 1 .. total - first + 1 /\ first + i - 1 = j
            BY <1>2, <1>8, <2>1, <3>1
        <3> HIDE DEF i
        <3>3. list[i] = listing[j]
            BY <1>8, <1>10, <3>2
        <3>4. i \in DOMAIN list
            BY <1>10, <3>2
        <3> QED
            BY <3>3, <3>4 DEF ToSet
    <2> QED
        BY <2>1
<1>12. n \in Nat /\ (rest = <<>> => total < first + n)
    <2>1. n \in Nat
        BY <1>8, <1>9
    <2>2. ASSUME rest = <<>>
          PROVE  total < first + n
        <3>1. Len(ahead) = n
            <4>1. Len(rest) = Len(ahead) - n
                BY ONLY <1>8, <1>9, Cutting
            <4>2. Len(rest) = 0
                BY ONLY <2>2
            <4>3. Len(ahead) \in Nat
                BY ONLY <1>8
            <4> QED
                BY <2>1, <4>1, <4>2, <4>3
        <3> QED
            BY <1>2, <1>8, <3>1
    <2> QED
        BY <2>1, <2>2
<1> DEFINE whole_told == rest = <<>> \/ Tells(n, displayed, all, whole)
<1>13. /\ Behind(place) = {listing[i] : i \in {j \in DOMAIN listing : j < first}} \cap ToSet(OldPapers)
       /\ whole_told =>
            Behind(answer.place) \subseteq {listing[i] : i \in {j \in DOMAIN listing : j < first + n}} \cap ToSet(OldPapers)
       /\ IsPlace(answer.place)
    <2> DEFINE step == IF asked = "springer" THEN displayed ELSE Len(list)
               x == place + step
    <2>1. answer.place = x /\ step \in Nat /\ x \in Nat
        BY <1>2, <1>4, <1>10, <1>12, PapersAssumption
    <2>2. (IF asked = "springer" THEN x ELSE x + 1) = first + step
        BY <1>2, <2>1 DEF first
    <2>3. IsPlace(answer.place)
        BY <1>1, <1>2, <2>1 DEF IsPlace, Lists
    <2>8. Tells(n, displayed, all, whole) => step = n
        BY <1>10, <1>19
    <2> HIDE DEF x, step
    <2>4. Behind(x) = {listing[i] : i \in {j \in DOMAIN listing : j < IF asked = "springer" THEN x ELSE x + 1}} \cap ToSet(OldPapers)
        BY <1>5, <2>1
    <2>5. ASSUME whole_told
          PROVE  \A j \in DOMAIN listing : (j < IF asked = "springer" THEN x ELSE x + 1) => j < first + n
        <3>1. CASE rest = <<>>
            BY <1>2, <1>6, <1>12, <3>1
        <3>2. CASE Tells(n, displayed, all, whole)
            BY <1>2, <1>6, <1>12, <2>1, <2>2, <2>8, <3>2
        <3> QED
            BY <2>5, <3>1, <3>2
    <2>6. Behind(place) = {listing[i] : i \in {j \in DOMAIN listing : j < first}} \cap ToSet(OldPapers)
        BY <1>2, <1>5 DEF first
    <2>7. whole_told => Behind(x) \subseteq {listing[i] : i \in {j \in DOMAIN listing : j < first + n}} \cap ToSet(OldPapers)
        BY <2>4, <2>5
    <2> QED
        BY <2>1, <2>3, <2>6, <2>7
<1>14. \A j \in DOMAIN listing : j < first \/ j \in first .. first + n - 1 \/ j >= first + n
    BY <1>2, <1>6, <1>12
<1>15. answer.last /\ whole_told => \A j \in DOMAIN listing : j < first + n
    <2>1. ASSUME answer.last, whole_told
          PROVE  total < first + n
        <3>1. CASE rest = <<>>
            BY <1>12, <3>1
        <3>2. CASE Tells(n, displayed, all, whole)
            <4>1. n > 0 /\ all = total /\ (asked = "springer" => displayed = n) /\ Len(list) = n /\ list # <<>>
                BY <1>10, <1>12, <1>19, <3>2
            <4>2. \/ asked = "springer" /\ place + n > total
                  \/ asked # "springer" /\ place + n >= total
                BY <1>4, <1>12, <2>1, <4>1
            <4>3. first = IF asked = "springer" THEN place ELSE place + 1
                BY DEF first
            <4> QED
                BY <1>2, <1>12, <4>2, <4>3
        <3> QED
            BY <2>1, <3>1, <3>2
    <2> QED
        BY <1>2, <1>6, <1>12, <2>1
<1>16. {listing[i] : i \in {j \in DOMAIN listing : j < first + n}}
           \subseteq {listing[i] : i \in {j \in DOMAIN listing : j < first}} \cup ToSet(list)
    <2>1. ASSUME NEW j \in DOMAIN listing, j < first + n, ~ j < first
          PROVE  listing[j] \in ToSet(list)
        <3>1. j \in first .. first + n - 1
            BY <1>14, <2>1, <1>2, <1>6, <1>12
        <3> QED
            BY <1>11, <2>1, <3>1
    <2> QED
        BY <2>1
<1>17. answer.last /\ whole_told => ToSet(listing) \subseteq {listing[i] : i \in {j \in DOMAIN listing : j < first}} \cup ToSet(list)
    BY <1>15, <1>16 DEF ToSet
<1> QED
    <2>1. /\ list \in Seq(Papers) /\ answer.papers = list /\ IsPlace(answer.place)
          /\ Ahead \in Seq(Papers)
        BY <1>3, <1>4, <1>8, <1>10, <1>13
    <2>2. Told(n, displayed, all, whole) => Behind(answer.place) \subseteq Behind(place) \cup ToSet(list)
        BY <1>13, <1>16
    <2>3. answer.last /\ Told(n, displayed, all, whole) =>
              ToSet(OldPapers) \cap ToSet(listing) \subseteq Behind(place) \cup ToSet(list)
        BY <1>13, <1>17
    <2> QED
        BY ONLY <2>1, <2>2, <2>3 DEF list, answer

\* A page by cursor: what the next cursor does not give, this one did not give or
\* the page holds.
LEMMA PageByCursor ==
    ASSUME Pages, Lists, asked = "semantic_scholar",
           NEW n \in 0 .. Len(Ahead), NEW displayed, NEW all, NEW whole \in BOOLEAN,
           ToSet(OldPapers) \subseteq ToSet(listing)
    PROVE  /\ Behind(AnswerOf(n, displayed, all, whole).place) \subseteq Behind(place) \cup ToSet(PapersOf(n))
           /\ AnswerOf(n, displayed, all, whole).last /\ Told(n, displayed, all, whole) =>
                 ToSet(OldPapers) \subseteq Behind(place) \cup ToSet(PapersOf(n))
<1> DEFINE list == PapersOf(n)
           rest == LeftBy(n)
           cursor == CursorOf(n, whole)
           answer == AnswerOf(n, displayed, all, whole)
<1>0. /\ list = SubSeq(Ahead, 1, n) /\ rest = SubSeq(Ahead, n + 1, Len(Ahead))
      /\ cursor = IF whole THEN rest ELSE <<>>
      /\ answer = PageOf(list, displayed, all, cursor)
      /\ Told(n, displayed, all, whole) <=> rest = <<>> \/ Tells(n, displayed, all, whole)
    BY DEF PapersOf, LeftBy, CursorOf, AnswerOf, Told
<1> HIDE DEF list, rest, cursor, answer
<1> USE <1>0
<1>1. listing \in Seq(Papers) /\ place \in Seq(Papers)
    BY DEF Lists, IsPlace
<1>2. Ahead = IF place = <<>> THEN listing ELSE Among(place, ToSet(listing))
    BY DEF Ahead
<1>3. Ahead \in Seq(Papers) /\ ToSet(OldPapers) \subseteq Behind(place) \cup ToSet(Ahead)
    <2>1. CASE place = <<>>
        BY <1>1, <1>2, <2>1
    <2>2. CASE place # <<>>
        <3>1. Among(place, ToSet(listing)) \in Seq(Papers) /\ ToSet(Among(place, ToSet(listing))) = ToSet(place) \cap ToSet(listing)
            BY <1>1, AmongKeeps
        <3> QED
            BY <1>2, <2>2, <3>1 DEF Behind
    <2> QED
        BY <2>1, <2>2
<1>4. ToSet(Ahead) = ToSet(list) \cup ToSet(rest)
    BY <1>3, Cutting
<1> DEFINE ends == list = <<>> \/ cursor = <<>>
<1>5. answer = [papers |-> list, place |-> cursor, last |-> ends]
    BY DEF PageOf, ScholarPage
<1> HIDE DEF ends
<1>6. answer.place = cursor /\ answer.last = ends
    <2>1. answer.place = cursor
        BY ONLY <1>5
    <2>2. answer.last = ends
        BY ONLY <1>5
    <2> QED
        BY <2>1, <2>2
<1>7. rest = <<>> => ToSet(rest) = {}
    BY DEF ToSet
<1>8. Behind(cursor) \subseteq ToSet(OldPapers) \ ToSet(rest)
    <2>1. Behind(cursor) = IF cursor = <<>> THEN {} ELSE ToSet(OldPapers) \ ToSet(cursor)
        BY DEF Behind
    <2> QED
        BY <2>1
<1>9. Tells(n, displayed, all, whole) /\ ends => rest = <<>>
    <2>1. Len(list) = n
        BY <1>3, Cutting
    <2>2. ASSUME Tells(n, displayed, all, whole)
          PROVE  list # <<>> /\ cursor = rest
        <3>1. n > 0 /\ whole
            BY <2>2 DEF Tells
        <3> QED
            BY <2>1, <3>1
    <2> QED
        BY <2>2 DEF ends
<1>10. ToSet(OldPapers) \subseteq Behind(place) \cup ToSet(list) \cup ToSet(rest)
    BY <1>3, <1>4
<1>11. /\ Behind(answer.place) \subseteq Behind(place) \cup ToSet(list)
       /\ answer.last /\ Told(n, displayed, all, whole) => ToSet(OldPapers) \subseteq Behind(place) \cup ToSet(list)
    BY <1>6, <1>7, <1>8, <1>9, <1>10
<1> QED
    BY ONLY <1>11 DEF list, answer

\* Of the pages: the type invariant's part, and what is not passed over.
PageTypes ==
    /\ Lists
    /\ phase = "next" => ~ Pages
    /\ phase = "page" => response.papers \in Seq(Papers) /\ IsPlace(response.place)

Kept == PageTypes /\ NothingIsPassedOver

\* What is passed over depends on the place and the listing alone.
LEMMA SamePlaces ==
    ASSUME asked' = asked, listing' = listing
    PROVE  /\ Pages' = Pages
           /\ \A p : IsPlace(p)' = IsPlace(p) /\ Behind(p)' = Behind(p)
BY DEF Pages, IsPlace, Behind

\* Who hands nothing on and moves no place keeps what has been delivered.
LEMMA QuietKeep ==
    ASSUME Kept, asked' = asked,
           Start \/ Send \/ Complete \/ NextWork \/ Interrupt \/ UNCHANGED requestVars
    PROVE  Kept'
<1>1. listing' = listing /\ lost' = lost /\ delivered' = delivered
    BY DEF Start, Send, Complete, NextWork, Interrupt, requestVars
<1>2. /\ Pages' = Pages
      /\ \A p : IsPlace(p)' = IsPlace(p) /\ Behind(p)' = Behind(p)
    BY <1>1, SamePlaces
<1>3. place' = place \/ (~ Pages /\ place' = 0)
    BY DEF Start, Send, Complete, NextWork, Interrupt, requestVars
<1>4. /\ phase' = "next" => phase = "next"
      /\ phase' = "page" => phase = "page" /\ response' = response
      /\ Pages /\ phase' \in {"last", "completed"} => phase \in {"last", "completed"}
    BY DEF Start, Send, Complete, NextWork, Interrupt, requestVars, Kept, PageTypes
<1>5. PageTypes'
    <2>1. CASE place' = place
        BY <1>1, <1>2, <1>4, <2>1 DEF Kept, PageTypes, Lists, IsPlace
    <2>2. CASE ~ Pages /\ place' = 0
        <3>1. asked \notin {"semantic_scholar", "springer"}
            BY <2>2 DEF Pages, Connectors
        <3>2. IsPlace(place)'
            BY <2>2, <3>1 DEF IsPlace
        <3> QED
            BY <1>1, <1>2, <1>4, <3>2 DEF Kept, PageTypes, Lists, IsPlace
    <2> QED
        BY <1>3, <2>1, <2>2
<1>6. NothingIsPassedOver'
    BY <1>1, <1>2, <1>3, <1>4 DEF Kept, NothingIsPassedOver, Behind
<1> QED
    BY <1>5, <1>6 DEF Kept

\* A new paper at the head moves the others down: no index has more of them behind it.
LEMMA ListNewKeeps ==
    ASSUME Kept, asked' = asked, ListNew
    PROVE  Kept'
<1>1. PICK p \in Papers \ (ToSet(listing) \cup ToSet(OldPapers)) : listing' = <<p>> \o listing
    BY DEF ListNew
<1>2. /\ place' = place /\ phase' = phase /\ response' = response /\ lost' = lost /\ delivered' = delivered
    BY DEF ListNew
<1>3. listing \in Seq(Papers)
    BY DEF Kept, PageTypes, Lists
<1>4. /\ listing' \in Seq(Papers)
      /\ DOMAIN listing' = 1 .. Len(listing) + 1
      /\ DOMAIN listing = 1 .. Len(listing) /\ Len(listing) \in Nat
      /\ listing'[1] = p
      /\ \A i \in 2 .. Len(listing) + 1 : listing'[i] = listing[i - 1]
    BY <1>1, <1>3
<1>5. ToSet(listing) \subseteq ToSet(listing')
    <2>1. ASSUME NEW i \in DOMAIN listing
          PROVE  listing[i] \in ToSet(listing')
        <3> DEFINE j == i + 1
        <3>1. j \in 2 .. Len(listing) + 1 /\ j \in DOMAIN listing' /\ j - 1 = i
            BY <1>4
        <3> HIDE DEF j
        <3>2. listing'[j] = listing[i]
            BY <1>4, <3>1
        <3> QED
            BY <3>1, <3>2 DEF ToSet
    <2> QED
        BY <2>1 DEF ToSet
<1>6. \A x \in Nat : {listing'[i] : i \in {j \in DOMAIN listing' : j < x}} \cap ToSet(OldPapers)
                        \subseteq {listing[i] : i \in {j \in DOMAIN listing : j < x}}
    <2>1. ASSUME NEW x \in Nat, NEW i \in DOMAIN listing', i < x, listing'[i] \in ToSet(OldPapers)
          PROVE  \E k \in DOMAIN listing : k < x /\ listing'[i] = listing[k]
        <3>1. i # 1
            BY <1>1, <1>4, <2>1
        <3>2. i \in 2 .. Len(listing) + 1 /\ i - 1 \in DOMAIN listing /\ i - 1 < x
            BY <1>4, <2>1, <3>1
        <3> QED
            BY <1>4, <3>2
    <2> QED
        BY <2>1
<1>7. Pages' = Pages /\ \A x : IsPlace(x)' = IsPlace(x)
    BY DEF Pages, IsPlace
<1>8. ASSUME NEW x, IsPlace(x)
      PROVE  Behind(x)' \subseteq Behind(x)
    <2>1. CASE asked = "semantic_scholar"
        BY <2>1 DEF Behind
    <2>2. CASE asked = "springer"
        <3>1. x \in Nat
            BY <1>8, <2>2 DEF IsPlace
        <3> QED
            BY <1>6, <2>2, <3>1 DEF Behind
    <2>3. CASE asked \notin {"semantic_scholar", "springer"}
        <3> DEFINE y == x + 1
        <3>1. y \in Nat
            BY <1>8, <2>3 DEF IsPlace
        <3>2. Behind(x) = {listing[i] : i \in {j \in DOMAIN listing : j < y}} \cap ToSet(OldPapers)
            BY <2>3 DEF Behind
        <3>3. Behind(x)' = {listing'[i] : i \in {j \in DOMAIN listing' : j < y}} \cap ToSet(OldPapers)
            BY <2>3 DEF Behind
        <3> HIDE DEF y
        <3> QED
            BY <1>6, <3>1, <3>2, <3>3
    <2> QED
        BY <2>1, <2>2, <2>3
<1>9. PageTypes'
    BY <1>2, <1>4, <1>7 DEF Kept, PageTypes, Lists, IsPlace
<1>10. IsPlace(place) /\ (phase = "page" => IsPlace(response.place))
    BY DEF Kept, PageTypes, Lists
<1>11. Behind(place)' \subseteq Behind(place) /\ (phase = "page" => Behind(response.place)' \subseteq Behind(response.place))
    BY <1>2, <1>8, <1>10
<1>12. NothingIsPassedOver'
    BY <1>2, <1>5, <1>7, <1>11 DEF Kept, NothingIsPassedOver
<1> QED
    BY <1>9, <1>12 DEF Kept

\* When a paper is withdrawn, no more is said.
LEMMA LossKeeps ==
    ASSUME Kept, asked' = asked, Withdraw
    PROVE  Kept'
<1>1. PICK i \in DOMAIN listing : listing' = RemoveAt(listing, i)
    BY DEF Withdraw
<1>2. listing \in Seq(Papers)
    BY DEF Kept, PageTypes, Lists
<1>3. listing' \in Seq(Papers)
    <2>1. i \in 1 .. Len(listing) /\ Len(listing) \in Nat /\ \A j \in 1 .. Len(listing) : listing[j] \in Papers
        BY <1>2
    <2> DEFINE a == i - 1
               b == i + 1
    <2>2. a \in Int /\ b \in Int /\ \A j \in 1 .. a : listing[j] \in Papers
        BY <2>1
    <2>3. \A j \in b .. Len(listing) : listing[j] \in Papers
        BY <2>1
    <2>4. listing' = SubSeq(listing, 1, a) \o SubSeq(listing, b, Len(listing))
        BY <1>1 DEF RemoveAt
    <2> HIDE DEF a, b
    <2>5. SubSeq(listing, 1, a) \in Seq(Papers)
        BY <2>2, SubSeqProperties
    <2>6. SubSeq(listing, b, Len(listing)) \in Seq(Papers)
        BY <2>1, <2>2, <2>3, SubSeqProperties
    <2> QED
        BY <2>4, <2>5, <2>6
<1>4. NothingIsPassedOver'
    BY DEF NothingIsPassedOver, Withdraw
<1> QED
    BY <1>3, <1>4 DEF Kept, PageTypes, Lists, IsPlace, Pages, Withdraw

\* An answer that is a page.
LEMMA AnswerPageKeeps ==
    ASSUME Kept, asked' = asked, NEW delay, AnswerPage(delay)
    PROVE  Kept'
<1>0. PICK n \in 0 .. Least(FullPage, Len(Ahead)) :
         \E displayed \in 0 .. FullPage, all \in {Total, 0}, whole \in BOOLEAN :
            /\ response' = AnswerOf(n, displayed, all, whole)
            /\ phase' \in {"raised", "page"}
            /\ lost' = (lost \/ ~ Told(n, displayed, all, whole))
    BY DEF AnswerPage, AnswerOf, PapersOf, LeftBy, CursorOf, Told
<1>1. PICK displayed \in 0 .. FullPage, all \in {Total, 0}, whole \in BOOLEAN :
            /\ response' = AnswerOf(n, displayed, all, whole)
            /\ phase' \in {"raised", "page"}
            /\ lost' = (lost \/ ~ Told(n, displayed, all, whole))
    BY <1>0
<1> DEFINE list == PapersOf(n)
           answer == AnswerOf(n, displayed, all, whole)
           told == Told(n, displayed, all, whole)
<1>2. /\ response' = answer /\ phase' \in {"raised", "page"}
      /\ lost' = (lost \/ ~ told)
    BY <1>1
<1>3. /\ Pages /\ listing' = listing /\ place' = place /\ delivered' = delivered
    BY DEF AnswerPage
<1>4. Lists
    BY DEF Kept, PageTypes
<1>5. listing \in Seq(Papers) /\ (asked = "semantic_scholar" => place \in Seq(Papers)) /\ (asked # "semantic_scholar" => place \in Nat)
    BY <1>4 DEF Lists, IsPlace
<1>6. Len(Ahead) \in Nat /\ (asked = "semantic_scholar" => Ahead \in Seq(Papers))
    <2>1. CASE asked = "semantic_scholar"
        <3>1. place \in Seq(Papers)
            BY <1>5, <2>1
        <3>2. Among(place, ToSet(listing)) \in Seq(Papers)
            BY <3>1, AmongKeeps
        <3>3. Ahead \in Seq(Papers)
            BY <1>5, <2>1, <3>2 DEF Ahead
        <3> QED
            BY <3>3
    <2>2. CASE asked # "semantic_scholar"
        <3> DEFINE from == IF asked = "springer" THEN place ELSE place + 1
        <3>0. Ahead = SubSeq(listing, from, Len(listing))
            BY ONLY <2>2 DEF Ahead
        <3>1. from \in Int /\ Len(listing) \in Int /\ Ahead = SubSeq(listing, from, Len(listing))
            BY ONLY <1>5, <2>2, <3>0
        <3>2. from >= 1
            BY <1>4, <2>2 DEF Lists, IsPlace
        <3> HIDE DEF from
        <3>3. \A i \in from .. Len(listing) : listing[i] \in Papers
            BY <1>5, <3>1, <3>2
        <3>4. Ahead \in Seq(Papers)
            BY <3>1, <3>3, SubSeqProperties
        <3> QED
            BY <2>2, <3>4
    <2> QED
        BY <2>1, <2>2
<1>7. n \in 0 .. Len(Ahead)
    BY <1>6, PapersAssumption DEF Least
<1>9. answer.papers = list /\ list \in Seq(Papers) /\ IsPlace(answer.place)
    <2>1. CASE asked # "semantic_scholar"
        BY <1>3, <1>4, <1>7, <2>1, PageByIndex
    <2>2. CASE asked = "semantic_scholar"
        <3> DEFINE cursor == CursorOf(n, whole)
        <3>1. answer = [papers |-> list, place |-> cursor, last |-> list = <<>> \/ cursor = <<>>]
            BY <2>2 DEF AnswerOf, PageOf, ScholarPage
        <3>2. list \in Seq(Papers) /\ cursor \in Seq(Papers)
            <4>1. list \in Seq(Papers) /\ LeftBy(n) \in Seq(Papers)
                BY <1>6, <1>7, <2>2, Cutting DEF PapersOf, LeftBy
            <4> QED
                BY <4>1 DEF CursorOf
        <3> HIDE DEF cursor, list, answer
        <3>3. answer.papers = list /\ answer.place = cursor
            BY <3>1
        <3> QED
            BY <2>2, <3>2, <3>3 DEF IsPlace
    <2> QED
        BY <2>1, <2>2
<1>10. ASSUME ToSet(OldPapers) \subseteq ToSet(listing)
       PROVE  /\ told => Behind(answer.place) \subseteq Behind(place) \cup ToSet(list)
              /\ answer.last /\ told => ToSet(OldPapers) \subseteq Behind(place) \cup ToSet(list)
    <2>1. CASE asked # "semantic_scholar"
        <3>1. /\ told => Behind(answer.place) \subseteq Behind(place) \cup ToSet(list)
              /\ answer.last /\ told => ToSet(OldPapers) \cap ToSet(listing) \subseteq Behind(place) \cup ToSet(list)
            BY <1>3, <1>4, <1>7, <2>1, PageByIndex
        <3> QED
            BY <1>10, <3>1
    <2>2. CASE asked = "semantic_scholar"
        BY <1>3, <1>4, <1>7, <1>10, <2>2, PageByCursor
    <2> QED
        BY <2>1, <2>2
<1> HIDE DEF list, answer, told
<1>11. /\ Pages' = Pages
       /\ \A p : IsPlace(p)' = IsPlace(p) /\ Behind(p)' = Behind(p)
    BY <1>3, SamePlaces
<1>12. PageTypes'
    BY <1>2, <1>3, <1>4, <1>9, <1>11 DEF PageTypes, Lists, IsPlace
<1>13. NothingIsPassedOver'
    <2> SUFFICES ASSUME ~ lost, told
                 PROVE  /\ ToSet(OldPapers) \subseteq ToSet(listing)
                        /\ Behind(place) \subseteq delivered
                        /\ Behind(answer.place) \subseteq delivered \cup ToSet(answer.papers)
                        /\ answer.last => ToSet(OldPapers) \subseteq delivered \cup ToSet(answer.papers)
        BY <1>2, <1>3, <1>11 DEF NothingIsPassedOver
    <2>1. ToSet(OldPapers) \subseteq ToSet(listing) /\ Behind(place) \subseteq delivered
        BY <1>3 DEF Kept, NothingIsPassedOver
    <2> QED
        BY <1>9, <1>10, <2>1
<1> QED
    BY <1>12, <1>13 DEF Kept

\* The page is taken with its place, or a work; an attempt is made again or not.
LEMMA OtherAnswersKeep ==
    ASSUME Kept, asked' = asked, NEW delay,
           Retry(delay) \/ GiveUp(delay) \/ TakePage(delay) \/ AnswerWork(delay)
    PROVE  Kept'
<1>1. listing' = listing /\ lost' = lost
    BY DEF Retry, GiveUp, TakePage, AnswerWork
<1>2. /\ Pages' = Pages
      /\ \A p : IsPlace(p)' = IsPlace(p) /\ Behind(p)' = Behind(p)
    BY <1>1, SamePlaces
<1>3. ~ Pages => asked \notin {"semantic_scholar", "springer"}
    BY DEF Pages, Connectors
<1>4. CASE Retry(delay)
    BY <1>1, <1>2, <1>4 DEF Retry, Kept, PageTypes, Lists, IsPlace, NothingIsPassedOver
<1>5. CASE GiveUp(delay) /\ Pages
    BY <1>1, <1>2, <1>5 DEF GiveUp, Kept, PageTypes, Lists, IsPlace, NothingIsPassedOver
<1>6. CASE (GiveUp(delay) \/ AnswerWork(delay)) /\ ~ Pages
    <2>1. place' = place + 1 /\ phase' = "next"
        BY <1>6 DEF GiveUp, AnswerWork
    <2>2. place \in Nat
        BY <1>3, <1>6 DEF Kept, PageTypes, Lists, IsPlace
    <2>3. IsPlace(place)'
        BY <1>3, <1>6, <2>1, <2>2 DEF IsPlace
    <2> QED
        BY <1>1, <1>2, <1>6, <2>1, <2>3 DEF Kept, PageTypes, Lists, NothingIsPassedOver
<1>7. CASE TakePage(delay)
    <2>1. /\ phase = "page" /\ place' = response.place /\ delivered' = delivered \cup ToSet(response.papers)
          /\ phase' = IF response.last THEN "last" ELSE "throttle"
        BY <1>7 DEF TakePage
    <2>2. PageTypes'
        BY <1>1, <1>2, <2>1 DEF Kept, PageTypes, Lists, IsPlace
    <2>3. NothingIsPassedOver'
        BY <1>1, <1>2, <2>1 DEF Kept, NothingIsPassedOver
    <2> QED
        BY <2>2, <2>3 DEF Kept
<1>8. AnswerWork(delay) => ~ Pages
    BY DEF AnswerWork
<1> QED
    BY <1>4, <1>5, <1>6, <1>7, <1>8

\* Every request, answer and change of the listing keeps the types and places.
LEMMA KeptStep == Kept /\ Times /\ [RequestsNext]_requestVars => Kept'
<1> SUFFICES ASSUME Kept, Times, [RequestsNext]_requestVars
             PROVE  Kept'
    OBVIOUS
<1>1. asked' = asked
    BY TimesStep
<1>2. CASE Start \/ Send \/ Complete \/ NextWork \/ Interrupt \/ UNCHANGED requestVars
    BY <1>1, <1>2, QuietKeep
<1>3. CASE ListNew
    BY <1>1, <1>3, ListNewKeeps
<1>4. CASE Withdraw
    BY <1>1, <1>4, LossKeeps
<1>5. ASSUME NEW delay \in 0 .. MaxDelay,
             Retry(delay) \/ GiveUp(delay) \/ AnswerPage(delay) \/ TakePage(delay) \/ AnswerWork(delay)
      PROVE  Kept'
    <2>1. CASE AnswerPage(delay)
        BY <1>1, <2>1, AnswerPageKeeps
    <2> QED
        BY <1>1, <1>5, <2>1, OtherAnswersKeep
<1> QED
    BY <1>2, <1>3, <1>4, <1>5 DEF RequestsNext

\* They hold before the first request.
LEMMA KeptInit == RequestsInit => Kept
<1> SUFFICES ASSUME RequestsInit
             PROVE  Kept
    OBVIOUS
<1>1. listing = OldPapers /\ place = FirstPlace(asked) /\ phase = "off" /\ asked \in DOMAIN Budget
    BY DEF RequestsInit
<1>2. <<>> \in Seq(Papers)
    OBVIOUS
<1>3. IsPlace(place)
    BY <1>1, <1>2 DEF FirstPlace, IsPlace
<1>4. PageTypes
    BY <1>1, <1>3, PapersAssumption DEF PageTypes, Lists
<1>5. Behind(place) = {}
    <2>1. \A j \in DOMAIN listing : j >= 1
        BY <1>1, PapersAssumption
    <2> QED
        BY <1>1, <2>1 DEF Behind, FirstPlace
<1>6. NothingIsPassedOver
    BY <1>1, <1>5 DEF NothingIsPassedOver
<1> QED
    BY <1>4, <1>6 DEF Kept

\* RequestsInv, for any papers, size of pages, delays and lists that grow or shrink.
THEOREM RequestsInvariant == RequestsSpec => []RequestsInv
<1>1. Times /\ Kept => RequestsInv
    BY DEF RequestsInv, RequestTypes, Times, Kept, PageTypes, Lists
<1> QED
    BY <1>1, KeptInit, KeptStep, TimesInvariant, PTL DEF RequestsSpec

\* A run that completes has been handed all that was listed when it began, unless
\* an answer did not tell what its connector goes by, or a paper was withdrawn
\* (CompletedMeansDelivered).
THEOREM CompletedRunsHaveAll == RequestsSpec => []CompletedMeansDelivered
<1>1. RequestsInv => CompletedMeansDelivered
    BY DEF RequestsInv, NothingIsPassedOver, CompletedMeansDelivered
<1> QED
    BY <1>1, RequestsInvariant, PTL

-----------------------------------------------------------------------------
(* The selection of claims.                                                *)

\* The places of a text's sentences are numbers, each sentence has one.
LEMMA TextPlaces ==
    ASSUME NEW origin \in {"abstract"} \cup DOMAIN SectionTexts
    PROVE  /\ DOMAIN TextOf(origin) \subseteq Nat \ {0}
           /\ \A i, j \in DOMAIN TextOf(origin) :
                  TextOf(origin)[i] = TextOf(origin)[j] => i = j
<1>1. TextOf(origin) \in {AbstractText} \cup {SectionTexts[s] : s \in DOMAIN SectionTexts}
    BY DEF TextOf
<1>2. TextOf(origin) \in Seq({TextOf(origin)[i] : i \in DOMAIN TextOf(origin)})
    BY <1>1, SentencesInOrder
<1>3. Distinct(TextOf(origin))
    BY <1>1, TextsAssumption
<1> QED
    BY <1>2, <1>3 DEF Distinct

\* Among suitors, there is a first of the closest.
LEMMA ClosestIsASuitor ==
    ASSUME NEW suitors \in SUBSET (Nat \ {0}), suitors # {},
           NEW places, suitors \subseteq places, NEW score \in [places -> Similarities]
    PROVE  Closest(suitors, score) \in suitors
<1> DEFINE gaps == {2 - score[i] : i \in suitors}
<1>1. \A i \in suitors : score[i] \in 0 .. 2
    BY DEF Similarities
<1>2. gaps \in SUBSET Nat /\ gaps # {}
    <2>1. \A n \in 0 .. 2 : 2 - n \in Nat
        OBVIOUS
    <2> QED
        BY <1>1, <2>1
<1>3. PICK g \in gaps : \A h \in gaps : g <= h
    BY <1>2, LeastNatural
<1> DEFINE ties == {i \in suitors : 2 - score[i] = g}
<1>4. ties \in SUBSET Nat /\ ties # {}
    BY <1>3
<1>5. PICK i \in ties : \A j \in ties : i <= j
    <2> HIDE DEF ties
    <2> QED
        BY <1>4, LeastNatural
<1>6. \A j \in suitors : score[i] > score[j] \/ (score[i] = score[j] /\ i <= j)
    <2>1. ASSUME NEW j \in suitors
          PROVE  score[i] > score[j] \/ (score[i] = score[j] /\ i <= j)
        <3>1. 2 - score[j] \in gaps /\ g <= 2 - score[j]
            BY <1>3
        <3> QED
            BY <1>1, <1>5, <3>1
    <2> QED
        BY <2>1
<1> QED
    BY <1>5, <1>6 DEF Closest

-----------------------------------------------------------------------------

\* Until the extractors are through, the hybrid has chosen nothing.
LEMMA NothingChosenYet ==
    ASSUME SelectionInv, extractor # "done", UNCHANGED chosen
    PROVE  chosen = <<>> /\ ChosenFromTheTwo'
BY DEF SelectionInv, ChosenFromTheTwo

\* A cue phrase claims what it takes from the abstract.
LEMMA CueMatchInvariant ==
    ASSUME SelectionInv, CueMatch
    PROVE  SelectionInv'
<1> DEFINE f == CueFields[tried + 1]
<1>1. /\ extractor = "heuristic" /\ UNCHANGED <<present, semantic, matched, extractor>>
      /\ "problem" \notin DOMAIN heuristic
    BY DEF CueMatch, SelectionInv, ClaimedByCue
<1>2. ClaimedByCue' /\ "problem" \notin DOMAIN heuristic'
    <2>1. CASE UNCHANGED <<heuristic, claimed>>
        BY <1>1, <2>1 DEF CueMatch, SelectionInv, ClaimedByCue
    <2>2. ASSUME NEW c, f # "problem", heuristic' = With(heuristic, f, c),
                 claimed \subseteq claimed', c.section = "abstract" => c.quote \in claimed'
          PROVE  ClaimedByCue' /\ "problem" \notin DOMAIN heuristic'
        <3>1. tried' \in Nat
            BY DEF CueMatch, SelectionInv, ClaimedByCue
        <3>2. /\ DOMAIN heuristic' = DOMAIN heuristic \cup {f} /\ heuristic'[f] = c
              /\ \A g \in DOMAIN heuristic : g # f => heuristic'[g] = heuristic[g]
            BY <2>2 DEF With
        <3> HIDE DEF f
        <3> QED
            BY <1>1, <2>2, <3>1, <3>2 DEF SelectionInv, ClaimedByCue
    <2>3. f # "problem"
        <3>1. tried + 1 \in 1 .. Len(CueFields)
            BY CueFieldsAssumption DEF CueMatch, SelectionInv, ClaimedByCue
        <3> QED
            BY <3>1, CueFieldsAssumption
    <2>4. CASE /\ PlaceOf(f) # "abstract"
               /\ \E s \in SentencesOf(PlaceOf(f)) :
                    /\ heuristic' = With(heuristic, f, Candidate(s, "high", PlaceOf(f)))
                    /\ UNCHANGED claimed
        <3>1. PICK s \in SentencesOf(PlaceOf(f)) :
                    /\ heuristic' = With(heuristic, f, Candidate(s, "high", PlaceOf(f)))
                    /\ UNCHANGED claimed
            BY <2>4
        <3>2. Candidate(s, "high", PlaceOf(f)).section # "abstract"
            BY <2>4 DEF Candidate
        <3> QED
            BY <2>2, <2>3, <3>1, <3>2
    <2>5. CASE \E s \in SentencesOf("abstract") :
                    /\ heuristic' = With(heuristic, f, Candidate(s, "medium", "abstract"))
                    /\ claimed' = claimed \cup {s}
        <3>1. PICK s \in SentencesOf("abstract") :
                    /\ heuristic' = With(heuristic, f, Candidate(s, "medium", "abstract"))
                    /\ claimed' = claimed \cup {s}
            BY <2>5
        <3>2. Candidate(s, "medium", "abstract").quote = s
            BY DEF Candidate
        <3> QED
            BY <2>2, <2>3, <3>1, <3>2
    <2> QED
        BY <2>1, <2>4, <2>5 DEF CueMatch
<1>3. PoolsAreWhole'
    <2>1. \A g : PlaceOf(g)' = PlaceOf(g)
        BY <1>1 DEF PlaceOf
    <2> QED
        BY <1>1, <2>1 DEF SelectionInv, PoolsAreWhole
<1>4. ChosenFromTheTwo'
    BY <1>1, NothingChosenYet DEF CueMatch
<1> QED
    BY <1>2, <1>3, <1>4 DEF SelectionInv

\* The problem takes a sentence that no cue phrase has.
LEMMA ProblemFallbackInvariant ==
    ASSUME SelectionInv, ProblemFallback
    PROVE  SelectionInv'
<1>1. /\ extractor = "heuristic" /\ extractor' = "semantic"
      /\ UNCHANGED <<present, claimed, semantic, matched>>
      /\ "problem" \notin DOMAIN heuristic
    BY DEF ProblemFallback, SelectionInv, ClaimedByCue
<1>2. ClaimedByCue'
    <2>1. CASE heuristic' = heuristic
        BY <1>1, <2>1 DEF ProblemFallback, SelectionInv, ClaimedByCue
    <2>2. CASE Unclaimed # {} /\ heuristic' # heuristic
        <3> DEFINE first == CHOOSE i \in Unclaimed : \A j \in Unclaimed : i <= j
                   c == Candidate(AbstractText[first], "low", "abstract")
        <3>1. heuristic' = With(heuristic, "problem", c)
            BY <2>2 DEF ProblemFallback
        <3>2. Unclaimed \in SUBSET Nat
            BY TextPlaces DEF Unclaimed, TextOf
        <3>3. first \in Unclaimed
            BY <2>2, <3>2, LeastNatural
        <3>4. c.quote \notin claimed /\ c.section = "abstract"
            BY <3>3 DEF Candidate, Unclaimed
        <3> HIDE DEF c
        <3>5. /\ DOMAIN heuristic' = DOMAIN heuristic \cup {"problem"}
              /\ heuristic'["problem"] = c
              /\ \A g \in DOMAIN heuristic : g # "problem" => heuristic'[g] = heuristic[g]
            BY <3>1 DEF With
        <3>6. tried' \in Nat
            BY DEF ProblemFallback, SelectionInv, ClaimedByCue
        <3> QED
            BY <1>1, <3>4, <3>5, <3>6 DEF SelectionInv, ClaimedByCue
    <2> QED
        BY <2>1, <2>2 DEF ProblemFallback
<1>3. PoolsAreWhole'
    <2>1. \A g : PlaceOf(g)' = PlaceOf(g)
        BY <1>1 DEF PlaceOf
    <2> QED
        BY <1>1, <2>1 DEF SelectionInv, PoolsAreWhole
<1>4. ChosenFromTheTwo'
    BY <1>1, NothingChosenYet DEF ProblemFallback
<1> QED
    BY <1>2, <1>3, <1>4 DEF SelectionInv

\* A pool is matched as a whole, and gives no sentence away twice.
LEMMA MatchPoolInvariant ==
    ASSUME SelectionInv, MatchPool
    PROVE  SelectionInv'
<1>1. /\ extractor = "semantic" /\ UNCHANGED <<present, tried, claimed, heuristic, extractor>>
    BY DEF MatchPool
<1>2. ClaimedByCue'
    BY <1>1 DEF SelectionInv, ClaimedByCue
<1>3. PICK f \in AllFields \ matched :
        LET origin == PlaceOf(f)
            fields == {g \in AllFields : PlaceOf(g) = origin}
        IN  /\ matched' = matched \cup fields
            /\ IF origin \in present
               THEN \E favourite \in [DOMAIN TextOf(origin) -> fields],
                       score \in [DOMAIN TextOf(origin) -> Similarities] :
                       LET suitors(g) == Suitors(g, origin, favourite)
                           best(g) == Closest(suitors(g), score)
                           served == {g \in fields : suitors(g) # {} /\ score[best(g)] > 0}
                       IN  semantic' =
                             [g \in DOMAIN semantic \cup served |->
                                IF g \in served
                                THEN Candidate(TextOf(origin)[best(g)],
                                               IF score[best(g)] = 2 THEN "medium" ELSE "low",
                                               origin)
                                ELSE semantic[g]]
               ELSE UNCHANGED semantic
    BY DEF MatchPool
<1> DEFINE origin == PlaceOf(f)
           fields == {g \in AllFields : PlaceOf(g) = origin}
<1>4. matched' = matched \cup fields
    BY <1>3
<1>5. \A g : PlaceOf(g)' = PlaceOf(g)
    BY <1>1 DEF PlaceOf
<1>6. \A g \in DOMAIN semantic : g \notin fields /\ semantic[g].section # origin
    BY <1>3 DEF SelectionInv, PoolsAreWhole
<1>9. ChosenFromTheTwo'
    BY <1>1, NothingChosenYet DEF MatchPool
<1>7. CASE UNCHANGED semantic
    <2>1. PoolsAreWhole'
        BY <1>1, <1>4, <1>5, <1>7 DEF SelectionInv, PoolsAreWhole
    <2> QED
        BY <1>2, <1>9, <2>1 DEF SelectionInv
<1>8. CASE ~ UNCHANGED semantic
    <2>1. origin \in present
        BY <1>3, <1>8
    <2>2. PICK favourite \in [DOMAIN TextOf(origin) -> fields],
               score \in [DOMAIN TextOf(origin) -> Similarities] :
            LET suitors(g) == Suitors(g, origin, favourite)
                best(g) == Closest(suitors(g), score)
                served == {g \in fields : suitors(g) # {} /\ score[best(g)] > 0}
            IN  semantic' =
                  [g \in DOMAIN semantic \cup served |->
                     IF g \in served
                     THEN Candidate(TextOf(origin)[best(g)],
                                    IF score[best(g)] = 2 THEN "medium" ELSE "low",
                                    origin)
                     ELSE semantic[g]]
        BY <1>3, <2>1
    <2> DEFINE suitors(g) == Suitors(g, origin, favourite)
               best(g) == Closest(suitors(g), score)
               served == {g \in fields : suitors(g) # {} /\ score[best(g)] > 0}
    <2>3. origin \in {"abstract"} \cup DOMAIN SectionTexts
        BY <2>1 DEF SelectionInv, PoolsAreWhole
    <2>4. \A g \in served : best(g) \in suitors(g)
        <3>1. SUFFICES ASSUME NEW g \in served
                       PROVE  best(g) \in suitors(g)
            OBVIOUS
        <3>2. suitors(g) \in SUBSET (Nat \ {0}) /\ suitors(g) \subseteq DOMAIN TextOf(origin)
            BY <2>3, TextPlaces DEF Suitors
        <3> QED
            BY <3>2, ClosestIsASuitor
    <2>5. \A g \in served : favourite[best(g)] = g /\ best(g) \in DOMAIN TextOf(origin)
        BY <2>4 DEF Suitors
    <2>6. \A g \in served : /\ semantic'[g].quote = TextOf(origin)[best(g)]
                           /\ semantic'[g].section = origin
        BY <2>2 DEF Candidate
    <2>7. /\ DOMAIN semantic' = DOMAIN semantic \cup served
          /\ served \subseteq fields
          /\ \A g \in DOMAIN semantic : semantic'[g] = semantic[g]
        BY <1>6, <2>2
    <2> HIDE DEF best, served
    <2>8. \A g, h \in served : g # h => semantic'[g].quote # semantic'[h].quote
        <3>1. SUFFICES ASSUME NEW g \in served, NEW h \in served, g # h
                       PROVE  TextOf(origin)[best(g)] # TextOf(origin)[best(h)]
            BY <2>6
        <3>2. best(g) # best(h)
            BY <2>5, <3>1
        <3> DEFINE i == best(g)  j == best(h)
        <3>3. i \in DOMAIN TextOf(origin) /\ j \in DOMAIN TextOf(origin) /\ i # j
            BY <2>5, <3>2
        <3> HIDE DEF i, j, origin
        <3>4. TextOf(origin)[i] # TextOf(origin)[j]
            BY <2>3, <3>3, TextPlaces
        <3> QED
            BY <3>4 DEF i, j
    <2>9. \A g, h \in DOMAIN semantic' :
              (g # h /\ semantic'[g].section = semantic'[h].section)
                  => semantic'[g].quote # semantic'[h].quote
        BY <1>6, <2>6, <2>7, <2>8 DEF SelectionInv, PoolsAreWhole
    <2>10. PoolsAreWhole'
        BY <1>1, <1>4, <1>5, <2>6, <2>7, <2>9 DEF SelectionInv, PoolsAreWhole
    <2> QED
        BY <1>2, <1>9, <2>10 DEF SelectionInv
<1> QED
    BY <1>7, <1>8

\* The choice takes each claim from one of the two extractors.
LEMMA ChooseInvariant ==
    ASSUME SelectionInv, Choose
    PROVE  SelectionInv'
<1>1. UNCHANGED <<present, tried, claimed, heuristic, semantic, matched>> /\ extractor' = "done"
    BY DEF Choose
<1>2. \A g : PlaceOf(g)' = PlaceOf(g)
    BY <1>1 DEF PlaceOf
<1>3. ClaimedByCue' /\ PoolsAreWhole'
    BY <1>1, <1>2 DEF SelectionInv, ClaimedByCue, PoolsAreWhole
<1>4. ChosenFromTheTwo'
    BY <1>1 DEF Choose, ChosenFromTheTwo
<1> QED
    BY <1>3, <1>4 DEF SelectionInv

\* Every step of the selection keeps its invariant.
LEMMA SelectionNextInvariant ==
    ASSUME SelectionInv, [SelectionNext]_selectionVars
    PROVE  SelectionInv'
<1>1. CASE UNCHANGED selectionVars
    <2>1. \A g : PlaceOf(g)' = PlaceOf(g)
        BY <1>1 DEF PlaceOf, selectionVars
    <2> QED
        BY <1>1, <2>1 DEF SelectionInv, ClaimedByCue, PoolsAreWhole, ChosenFromTheTwo, selectionVars
<1> QED
    BY <1>1, CueMatchInvariant, ProblemFallbackInvariant, MatchPoolInvariant, ChooseInvariant
       DEF SelectionNext

\* For any fields, sections and sentences, two claims of a paper quote the same
\* sentence only if a candidate of the heuristic extractor is among them, and the
\* problem of its fallback quotes none that its cue phrases have filed.
THEOREM SharingIsExcused == SelectionSpec => []SharedSentencesAreExcused
<1>1. SelectionInit => SelectionInv
    BY DEF SelectionInit, SelectionInv, ClaimedByCue, PoolsAreWhole, ChosenFromTheTwo
<1>2. SelectionInv => SharedSentencesAreExcused
    <2> SUFFICES ASSUME SelectionInv,
                        NEW f \in DOMAIN chosen, NEW g \in DOMAIN chosen, f # g,
                        chosen[f].section = chosen[g].section, chosen[f].quote = chosen[g].quote
                 PROVE  /\ OfTheHeuristic({f, g}) # {}
                        /\ "problem" \in OfTheHeuristic({f, g}) => OfTheHeuristic({f, g}) = {"problem"}
        BY DEF SharedSentencesAreExcused
    <2>1. OfTheHeuristic({f, g}) # {}
        <3>1. SUFFICES ASSUME OfTheHeuristic({f, g}) = {}
                       PROVE  FALSE
            OBVIOUS
        <3>2. /\ f \in DOMAIN semantic /\ chosen[f] = semantic[f]
              /\ g \in DOMAIN semantic /\ chosen[g] = semantic[g]
            BY <3>1 DEF OfTheHeuristic, SelectionInv, ChosenFromTheTwo
        <3> QED
            BY <3>2 DEF SelectionInv, PoolsAreWhole
    <2>2. ASSUME NEW h \in {f, g}, NEW p \in {f, g}, h # p, p = "problem",
                 p \in OfTheHeuristic({f, g}), h \in OfTheHeuristic({f, g})
          PROVE  FALSE
        <3>1. heuristic[h].section = heuristic[p].section /\ heuristic[h].quote = heuristic[p].quote
            BY <2>2 DEF OfTheHeuristic
        <3> QED
            BY <2>2, <3>1 DEF OfTheHeuristic, SelectionInv, ClaimedByCue
    <2>3. OfTheHeuristic({f, g}) \subseteq {f, g}
        BY DEF OfTheHeuristic
    <2> QED
        BY <2>1, <2>2, <2>3
<1> QED
    BY <1>1, <1>2, SelectionNextInvariant, PTL DEF SelectionSpec

-----------------------------------------------------------------------------
(* The gates of claims.                                                    *)

\* The clause of a place ends at its boundary: nothing ends it before.
LEMMA BoundaryEndsTheClause ==
    ASSUME NEW text \in Seq(Words), NEW i \in DOMAIN text
    PROVE  /\ Boundary(text, i) \in i + 1 .. Len(text) + 1
           /\ Boundary(text, i) <= Len(text) => text[Boundary(text, i)] = "break"
           /\ \A j \in i + 1 .. Boundary(text, i) - 1 : text[j] # "break"
<1> DEFINE breaks == {j \in i + 1 .. Len(text) : text[j] = "break"}
<1>0. i \in 1 .. Len(text) /\ Len(text) \in Nat
    OBVIOUS
<1>1. CASE breaks = {}
    <2>1. Boundary(text, i) = Len(text) + 1
        BY <1>1 DEF Boundary
    <2>2. \A j \in i + 1 .. Len(text) : text[j] # "break"
        BY <1>1
    <2> QED
        BY <1>0, <2>1, <2>2
<1>2. CASE breaks # {}
    <2>1. breaks \in SUBSET Nat
        OBVIOUS
    <2>2. Boundary(text, i) = CHOOSE j \in breaks : \A k \in breaks : j <= k
        BY <1>2 DEF Boundary
    <2>3. \E j \in breaks : \A k \in breaks : j <= k
        <3> HIDE DEF breaks
        <3> QED
            BY <1>2, <2>1, LeastNatural
    <2>4. Boundary(text, i) \in breaks /\ \A k \in breaks : Boundary(text, i) <= k
        <3> HIDE DEF breaks
        <3> QED
            BY <2>2, <2>3
    <2> DEFINE b == Boundary(text, i)
    <2>5. b \in i + 1 .. Len(text) /\ text[b] = "break"
        BY <2>4
    <2>6. ASSUME NEW j \in i + 1 .. b - 1
          PROVE  text[j] # "break"
        <3>1. j \notin breaks
            <4>1. ~(b <= j)
                BY <1>0, <2>5, <2>6
            <4> HIDE DEF breaks
            <4> QED
                BY <2>4, <4>1
        <3>2. j \in i + 1 .. Len(text)
            BY <1>0, <2>5, <2>6
        <3> QED
            BY <3>1, <3>2
    <2> HIDE DEF b
    <2> QED
        BY <1>0, <2>5, <2>6 DEF b
<1> QED
    BY <1>1, <1>2

\* Only one place ends the clause.
LEMMA OneBoundary ==
    ASSUME NEW text \in Seq(Words), NEW i \in DOMAIN text,
           NEW b \in i + 1 .. Len(text) + 1,
           b <= Len(text) => text[b] = "break",
           \A j \in i + 1 .. b - 1 : text[j] # "break"
    PROVE  Boundary(text, i) = b
<1> DEFINE c == Boundary(text, i)
<1>1. /\ c \in i + 1 .. Len(text) + 1
      /\ c <= Len(text) => text[c] = "break"
      /\ \A j \in i + 1 .. c - 1 : text[j] # "break"
    BY BoundaryEndsTheClause
<1> HIDE DEF c
<1>2. i \in Nat /\ Len(text) \in Nat
    OBVIOUS
<1>3. CASE c < b
    <2>1. c \in i + 1 .. b - 1 /\ c <= Len(text)
        BY <1>1, <1>2, <1>3
    <2> QED
        BY <1>1, <2>1
<1>4. CASE b < c
    <2>1. b \in i + 1 .. c - 1 /\ b <= Len(text)
        BY <1>1, <1>2, <1>4
    <2> QED
        BY <1>1, <2>1
<1>5. c = b
    BY <1>1, <1>2, <1>3, <1>4
<1> QED
    BY <1>5 DEF c

\* What the complement of a deployment verb contains.
InClause(text, i, marks) ==
    \E j \in i + 1 .. Boundary(text, i) - 1 : text[j] \in marks

\* The complement of a verb has what its clause has after the verb.
LEMMA ComplementHas ==
    ASSUME NEW text \in Seq(Words), NEW i \in DOMAIN text, NEW marks
    PROVE  Has(Complement(text, i), marks) <=> InClause(text, i, marks)
<1> DEFINE b == Boundary(text, i)
           c == SubSeq(text, i + 1, b - 1)
<1>1. b \in i + 1 .. Len(text) + 1 /\ i \in Nat /\ i >= 1 /\ Len(text) \in Nat
    BY BoundaryEndsTheClause
<1> HIDE DEF b
<1>2. /\ DOMAIN c = 1 .. b - 1 - i
      /\ \A j \in 1 .. b - 1 - i : c[j] = text[i + j]
    BY <1>1
<1>3. Complement(text, i) = c
    BY DEF Complement, b
<1> HIDE DEF c
<1>4. ASSUME NEW j \in 1 .. b - 1 - i, c[j] \in marks
      PROVE  InClause(text, i, marks)
    <2>1. i + j \in i + 1 .. b - 1 /\ text[i + j] \in marks
        BY <1>1, <1>2, <1>4
    <2> QED
        BY <2>1 DEF InClause, b
<1>5. ASSUME NEW j \in i + 1 .. b - 1, text[j] \in marks
      PROVE  \E k \in 1 .. b - 1 - i : c[k] \in marks
    <2>1. j - i \in 1 .. b - 1 - i /\ i + (j - i) = j
        BY <1>1
    <2>2. c[j - i] = text[i + (j - i)]
        BY <1>2, <2>1
    <2> QED
        BY <1>5, <2>1, <2>2
<1>6. Has(c, marks) <=> \E k \in 1 .. b - 1 - i : c[k] \in marks
    BY <1>2 DEF Has
<1> QED
    BY <1>3, <1>4, <1>5, <1>6 DEF InClause, b

\* A deployment verb decides by its own clause.
DecidedBy(text, i) ==
    \/ InClause(text, i, {"actor", "action", "such as"})
    \/ InClause(text, i, {"context", "useful"}) /\ ~InClause(text, i, {"vague"})

\* The verbs that decide are those whose own clause does.
LEMMA DecisiveVerbs ==
    ASSUME NEW text \in Seq(Words)
    PROVE  Decisive(text) = {i \in DOMAIN text : text[i] \in Deployments /\ DecidedBy(text, i)}
<1>1. ASSUME NEW i \in DOMAIN text
      PROVE  (Concrete(text, i) \/ Qualified(text, i)) <=> DecidedBy(text, i)
    BY ComplementHas DEF Concrete, Qualified, Vague, DecidedBy
<1> QED
    BY <1>1 DEF Decisive

\* The same clause in another text decides in the same way.
LEMMA SameClause ==
    ASSUME NEW u \in Seq(Words), NEW i \in DOMAIN u, NEW t \in Seq(Words), NEW d \in Nat,
           i + d \in DOMAIN t,
           Boundary(t, i + d) = Boundary(u, i) + d,
           \A j \in i .. Boundary(u, i) - 1 : t[j + d] = u[j]
    PROVE  DecidedBy(u, i) <=> DecidedBy(t, i + d)
<1> DEFINE b == Boundary(u, i)
<1>1. b \in i + 1 .. Len(u) + 1 /\ i \in Nat /\ Len(u) \in Nat
    BY BoundaryEndsTheClause
<1>2. Boundary(t, i + d) = b + d /\ \A j \in i .. b - 1 : t[j + d] = u[j]
    OBVIOUS
<1> HIDE DEF b
<1>3. ASSUME NEW marks
      PROVE  InClause(u, i, marks) <=> InClause(t, i + d, marks)
    <2>1. InClause(u, i, marks) <=> \E j \in i + 1 .. b - 1 : u[j] \in marks
        BY DEF InClause, b
    <2> DEFINE k == i + d
    <2>0. Boundary(t, k) = b + d
        BY <1>2
    <2>2. InClause(t, k, marks) <=> \E j \in k + 1 .. (b + d) - 1 : t[j] \in marks
        <3> HIDE DEF k
        <3>1. InClause(t, k, marks) <=> \E j \in k + 1 .. Boundary(t, k) - 1 : t[j] \in marks
            BY DEF InClause
        <3> QED
            BY <2>0, <3>1
    <2>3. ASSUME NEW j \in i + 1 .. b - 1
          PROVE  j + d \in i + d + 1 .. b + d - 1 /\ t[j + d] = u[j]
        BY <1>1, <1>2
    <2>4. ASSUME NEW j \in i + d + 1 .. b + d - 1
          PROVE  j - d \in i + 1 .. b - 1 /\ t[j] = u[j - d]
        <3>1. j - d \in i + 1 .. b - 1 /\ (j - d) + d = j
            BY <1>1
        <3>2. j - d \in i .. b - 1
            BY <1>1, <3>1
        <3>3. t[(j - d) + d] = u[j - d]
            BY <1>2, <3>2
        <3> QED
            BY <3>1, <3>3
    <2>5. ASSUME NEW j \in i + 1 .. b - 1, u[j] \in marks
          PROVE  InClause(t, k, marks)
        <3>1. j + d \in k + 1 .. (b + d) - 1 /\ t[j + d] \in marks
            BY <1>1, <2>3, <2>5
        <3> HIDE DEF k
        <3> QED
            BY <2>2, <3>1
    <2>6. ASSUME NEW j \in k + 1 .. (b + d) - 1, t[j] \in marks
          PROVE  InClause(u, i, marks)
        <3>1. j - d \in i + 1 .. b - 1 /\ u[j - d] \in marks
            BY <1>1, <2>4, <2>6
        <3> QED
            BY <2>1, <3>1
    <2>7. InClause(u, i, marks) <=> InClause(t, k, marks)
        <3> HIDE DEF k
        <3> QED
            BY <2>1, <2>2, <2>5, <2>6
    <2> QED
        BY <2>7
<1> QED
    BY <1>3 DEF DecidedBy

\* A clause that is decisive in a part of a sentence is so in the whole of it.
LEMMA PartsAreJudged ==
    ASSUME NEW u \in Seq(Words), NEW v \in Seq(Words), NEW t \in Seq(Words),
           t = (u \o <<"break">>) \o v, Decisive(t) = {}
    PROVE  Decisive(u) = {} /\ Decisive(v) = {}
<1> DEFINE n == Len(u)
<1>1. /\ n \in Nat /\ Len(v) \in Nat /\ Len(t) = n + 1 + Len(v)
      /\ \A i \in 1 .. n : t[i] = u[i]
      /\ t[n + 1] = "break"
      /\ \A i \in 1 .. Len(v) : t[i + (n + 1)] = v[i]
      /\ DOMAIN u = 1 .. n /\ DOMAIN v = 1 .. Len(v) /\ DOMAIN t = 1 .. Len(t)
    OBVIOUS
<1> HIDE DEF n
<1>2. ASSUME NEW i \in DOMAIN u
      PROVE  DecidedBy(u, i) <=> DecidedBy(t, i)
    <2> DEFINE b == Boundary(u, i)
    <2>1. /\ b \in i + 1 .. n + 1
          /\ b <= n => u[b] = "break"
          /\ \A j \in i + 1 .. b - 1 : u[j] # "break"
        BY BoundaryEndsTheClause DEF n
    <2>2. i \in 1 .. n
        BY <1>1
    <2> HIDE DEF b
    <2>3. b \in i + 1 .. Len(t) + 1 /\ i \in DOMAIN t /\ b <= Len(t)
        BY <1>1, <2>1, <2>2
    <2>4. t[b] = "break"
        <3>1. CASE b <= n
            <4>1. b \in 1 .. n
                BY <1>1, <2>1, <2>2, <3>1
            <4> QED
                BY <1>1, <2>1, <3>1, <4>1
        <3>2. CASE b = n + 1
            BY <1>1, <3>2
        <3> QED
            BY <1>1, <2>1, <2>2, <3>1, <3>2
    <2>5. \A j \in i .. b - 1 : j \in 1 .. n /\ t[j] = u[j]
        BY <1>1, <2>1, <2>2
    <2>6. \A j \in i + 1 .. b - 1 : t[j] # "break"
        BY <1>1, <2>1, <2>2, <2>5
    <2>7. Boundary(t, i) = b
        BY <2>3, <2>4, <2>6, OneBoundary
    <2>8. i + 0 = i /\ b + 0 = b /\ \A j \in i .. b - 1 : j + 0 = j
        BY <1>1, <2>1, <2>2
    <2>9. i + 0 \in DOMAIN t /\ Boundary(t, i + 0) = b + 0 /\ \A j \in i .. b - 1 : t[j + 0] = u[j]
        BY <2>3, <2>5, <2>7, <2>8
    <2>10. DecidedBy(u, i) <=> DecidedBy(t, i + 0)
        <3>1. 0 \in Nat
            OBVIOUS
        <3> QED
            BY <2>9, <3>1, SameClause, ZenonT(60) DEF b
    <2> QED
        BY <2>8, <2>10
<1>3. ASSUME NEW i \in DOMAIN v
      PROVE  DecidedBy(v, i) <=> DecidedBy(t, i + (n + 1))
    <2> DEFINE b == Boundary(v, i)
               d == n + 1
    <2>1. /\ b \in i + 1 .. Len(v) + 1
          /\ b <= Len(v) => v[b] = "break"
          /\ \A j \in i + 1 .. b - 1 : v[j] # "break"
        BY BoundaryEndsTheClause
    <2>2. i \in 1 .. Len(v) /\ d \in Nat /\ Len(t) = d + Len(v)
        BY <1>1
    <2>0. \A j \in 1 .. Len(v) : t[j + d] = v[j]
        BY <1>1
    <2> HIDE DEF b, d
    <2>3. /\ b + d \in (i + d) + 1 .. Len(t) + 1 /\ i + d \in DOMAIN t
          /\ b + d <= Len(t) => b <= Len(v) /\ b \in 1 .. Len(v)
        BY <1>1, <2>1, <2>2
    <2>4. b + d <= Len(t) => t[b + d] = "break"
        BY <2>0, <2>1, <2>3
    <2>5. \A j \in i .. b - 1 : j \in 1 .. Len(v) /\ t[j + d] = v[j]
        <3>1. \A j \in i .. b - 1 : j \in 1 .. Len(v)
            BY <1>1, <2>1, <2>2
        <3> QED
            BY <2>0, <3>1
    <2>6. ASSUME NEW j \in (i + d) + 1 .. (b + d) - 1
          PROVE  t[j] # "break"
        <3>1. j - d \in i + 1 .. b - 1 /\ j - d \in i .. b - 1 /\ (j - d) + d = j
            BY <1>1, <2>1, <2>2
        <3>2. t[(j - d) + d] = v[j - d]
            BY <2>5, <3>1
        <3> QED
            BY <2>1, <3>1, <3>2
    <2>7. Boundary(t, i + d) = b + d
        BY <2>3, <2>4, <2>6, OneBoundary
    <2>8. DecidedBy(v, i) <=> DecidedBy(t, i + d)
        <3>1. i + d \in DOMAIN t /\ \A j \in i .. b - 1 : t[j + d] = v[j]
            BY <2>3, <2>5
        <3>2. d \in Nat
            BY <2>2
        <3> QED
            BY <2>7, <3>1, <3>2, SameClause DEF b
    <2> QED
        BY <2>8 DEF d
<1>4. \A i \in DOMAIN t : ~(t[i] \in Deployments /\ DecidedBy(t, i))
    BY DecisiveVerbs
<1>5. ASSUME NEW i \in DOMAIN u
      PROVE  ~(u[i] \in Deployments /\ DecidedBy(u, i))
    <2>1. i \in DOMAIN t /\ t[i] = u[i]
        BY <1>1
    <2> QED
        BY <1>2, <1>4, <2>1
<1>6. ASSUME NEW i \in DOMAIN v
      PROVE  ~(v[i] \in Deployments /\ DecidedBy(v, i))
    <2>1. i + (n + 1) \in DOMAIN t /\ t[i + (n + 1)] = v[i]
        BY <1>1
    <2> QED
        BY <1>3, <1>4, <2>1
<1> QED
    BY <1>5, <1>6, DecisiveVerbs

\* A text without a deciding verb has none on either side of a break.
LEMMA NormalizedParts ==
    ASSUME NEW text \in Seq(Words), NEW i \in DOMAIN text, text[i] = "break",
           Decisive(Normalized(text)) = {}
    PROVE  /\ Decisive(Normalized(SubSeq(text, 1, i - 1))) = {}
           /\ Decisive(Normalized(SubSeq(text, i + 1, Len(text)))) = {}
<1> DEFINE u == SubSeq(text, 1, i - 1)
           v == SubSeq(text, i + 1, Len(text))
           mid == <<"break">>
           set == Words \ {"e.g.", "software application"}
<1>1. u \in Seq(Words) /\ v \in Seq(Words) /\ mid \in Seq(Words) /\ "break" \in set
    <2>1. "break" \in Words
        BY DEF Words
    <2>2. \A k \in DOMAIN text : text[k] \in Words
        OBVIOUS
    <2>3. i \in Nat /\ i >= 1 /\ i <= Len(text) /\ Len(text) \in Nat
        OBVIOUS
    <2>4. u \in Seq(Words)
        BY <2>3
    <2>5. v \in Seq(Words)
        BY <2>3
    <2>6. mid \in Seq(Words)
        BY <2>1
    <2>7. "break" \in set
        BY <2>1
    <2> QED
        BY <2>4, <2>5, <2>6, <2>7
<1>2. text = (u \o mid) \o v
    <2> DEFINE um == u \o mid
               w == um \o v
    <2>1. i \in 1 .. Len(text) /\ Len(text) \in Nat /\ DOMAIN text = 1 .. Len(text)
        OBVIOUS
    <2>2. /\ Len(u) = i - 1 /\ \A k \in 1 .. i - 1 : u[k] = text[k]
          /\ Len(v) = Len(text) - i /\ \A k \in 1 .. Len(text) - i : v[k] = text[i + k]
          /\ Len(mid) = 1 /\ mid[1] = text[i]
        BY <2>1
    <2> HIDE DEF u, v, mid
    <2>3. /\ um \in Seq(Words) /\ Len(um) = i
          /\ \A k \in 1 .. i : um[k] = text[k]
        <3>1. /\ um \in Seq(Words) /\ Len(um) = Len(u) + Len(mid)
              /\ \A k \in 1 .. Len(u) + Len(mid) :
                     um[k] = IF k <= Len(u) THEN u[k] ELSE mid[k - Len(u)]
            BY <1>1, ConcatProperties
        <3> HIDE DEF um
        <3>2. ASSUME NEW k \in 1 .. i
              PROVE  um[k] = text[k]
            <4>1. CASE k = i
                <5>1. ~(k <= Len(u)) /\ k - Len(u) = 1 /\ k \in 1 .. Len(u) + Len(mid)
                    BY <2>1, <2>2, <4>1
                <5> QED
                    BY <2>2, <3>1, <4>1, <5>1
            <4>2. CASE k \in 1 .. i - 1
                <5>1. k <= Len(u) /\ k \in 1 .. Len(u) + Len(mid)
                    BY <2>1, <2>2, <4>2
                <5> QED
                    BY <2>2, <3>1, <4>2, <5>1
            <4> QED
                BY <2>1, <4>1, <4>2
        <3>3. Len(um) = i
            BY <2>1, <2>2, <3>1
        <3> QED
            BY <3>1, <3>2, <3>3
    <2> HIDE DEF um
    <2>4. /\ w \in Seq(Words) /\ Len(w) = Len(text)
          /\ \A k \in 1 .. Len(text) : w[k] = IF k <= i THEN um[k] ELSE v[k - i]
        <3>0. um \in Seq(Words) /\ v \in Seq(Words)
            BY <1>1, <2>3
        <3>1. /\ w \in Seq(Words) /\ Len(w) = Len(um) + Len(v)
              /\ \A k \in 1 .. Len(um) + Len(v) :
                     w[k] = IF k <= Len(um) THEN um[k] ELSE v[k - Len(um)]
            BY <3>0, ConcatProperties
        <3> HIDE DEF w
        <3>2. Len(um) + Len(v) = Len(text) /\ Len(um) = i
            BY <2>1, <2>2, <2>3
        <3> QED
            BY <3>1, <3>2
    <2> HIDE DEF w
    <2>5. ASSUME NEW k \in 1 .. Len(text)
          PROVE  w[k] = text[k]
        <3>1. CASE k <= i
            <4>1. k \in 1 .. i
                BY <2>1, <3>1
            <4> QED
                BY <2>3, <2>4, <3>1, <4>1
        <3>2. CASE ~(k <= i)
            <4>1. k - i \in 1 .. Len(text) - i /\ i + (k - i) = k
                BY <2>1, <3>2
            <4>2. w[k] = v[k - i] /\ v[k - i] = text[i + (k - i)]
                BY <2>2, <2>4, <3>2, <4>1
            <4> QED
                BY <4>1, <4>2
        <3> QED
            BY <3>1, <3>2
    <2>6. w = text
        BY <2>4, <2>5, SeqEqual
    <2> QED
        BY <2>6 DEF w, um
<1> HIDE DEF u, v, set
<1>3. u \o mid \in Seq(Words)
    BY <1>1
<1>4. Among(mid, set) = mid
    <2> DEFINE places == {k \in DOMAIN mid : mid[k] \in set}
    <2>1. places = {1} /\ Len(mid) = 1 /\ mid[1] = "break"
        BY <1>1
    <2> HIDE DEF mid, places
    <2>2. /\ KeptOf(mid, places)[0] = <<>>
          /\ \A k \in 0 .. Len(mid) - 1 :
                  KeptOf(mid, places)[k + 1] =
                      IF k + 1 \in places THEN Append(KeptOf(mid, places)[k], mid[k + 1])
                      ELSE KeptOf(mid, places)[k]
        BY <1>1, PrefixesStep
    <2>3. Among(mid, set) = KeptOf(mid, places)[Len(mid)]
        BY DEF Among, At, places
    <2>4. 0 \in 0 .. Len(mid) - 1 /\ 0 + 1 = 1 /\ 1 \in places
        BY <2>1
    <2>5. KeptOf(mid, places)[0 + 1] = Append(<<>>, mid[0 + 1])
        BY <2>2, <2>4
    <2>6. Append(<<>>, "break") = <<"break">>
        OBVIOUS
    <2>7. Among(mid, set) = KeptOf(mid, places)[0 + 1]
        BY <2>1, <2>3, <2>4
    <2>8. Among(mid, set) = <<"break">>
        BY <2>1, <2>4, <2>5, <2>6, <2>7
    <2> QED
        BY <2>8 DEF mid
<1> HIDE DEF mid
<1>5. Among(text, set) = (Among(u, set) \o mid) \o Among(v, set)
    <2>1. Among((u \o mid) \o v, set) = Among(u \o mid, set) \o Among(v, set)
        <3> DEFINE um == u \o mid
        <3>1. um \in Seq(Words) /\ v \in Seq(Words)
            BY <1>1, <1>3
        <3> HIDE DEF um, mid
        <3>2. Among(um \o v, set) = Among(um, set) \o Among(v, set)
            BY <3>1, AmongConcat
        <3> QED
            BY <3>2 DEF um
    <2>2. Among(u \o mid, set) = Among(u, set) \o Among(mid, set)
        BY <1>1, AmongConcat
    <2> QED
        BY <1>2, <1>4, <2>1, <2>2
<1>6. /\ Among(u, set) \in Seq(Words) /\ Among(v, set) \in Seq(Words)
      /\ Among(text, set) \in Seq(Words)
    BY <1>1, AmongKeeps
<1>7. /\ Normalized(text) = Among(text, set) /\ Normalized(u) = Among(u, set)
      /\ Normalized(v) = Among(v, set)
    BY DEF Normalized, set
<1>8. Decisive(Among(u, set)) = {} /\ Decisive(Among(v, set)) = {}
    BY <1>5, <1>6, <1>7, PartsAreJudged DEF mid
<1> QED
    BY <1>7, <1>8 DEF u, v

\* Only the verdict on applications has their type.
LEMMA OnlyApplications ==
    ASSUME NEW type, NEW text, ValidateClaimType(type, text).type = "applications"
    PROVE  ValidateClaimType(type, text) = ApplicationVerdict(text)
<1>1. GapVerdict(text).type = "research_gap"
    BY DEF GapVerdict, Result
<1>2. CASE type = "research_gap"
    BY <1>1, <1>2 DEF ValidateClaimType, Required
<1>3. CASE type = "applications"
    BY <1>3 DEF ValidateClaimType, Required
<1>4. CASE type \in DOMAIN Required
    <2>1. type # "research_gap" /\ type # "applications"
        BY <1>4 DEF Required
    <2>2. ValidateClaimType(type, text).type = type
        BY <1>4, <2>1 DEF ValidateClaimType, Result, Required
    <2> QED
        BY <2>1, <2>2
<1>5. CASE type \notin DOMAIN Required /\ type # "research_gap" /\ type # "applications"
    <2>1. ValidateClaimType(type, text).type = type
        BY <1>5 DEF ValidateClaimType, Result
    <2> QED
        BY <1>5, <2>1
<1> QED
    BY <1>2, <1>3, <1>4, <1>5

\* The verdict is always about the sentence as it stands.
LEMMA GatesInvariant == GatesSpec => []GatesInv
<1>1. GatesInit => GatesInv
    BY DEF GatesInit, GatesInv, Unjudged, Result
<1>2. GatesInv /\ [GatesNext]_gateVars => GatesInv'
    <2> SUFFICES ASSUME GatesInv, [GatesNext]_gateVars
                 PROVE  GatesInv'
        OBVIOUS
    <2>1. ASSUME NEW word \in Vocabulary, Read(word)
          PROVE  GatesInv'
        <3>1. word \in Words
            BY VocabularyAssumption
        <3>2. words' \in Seq(Words) /\ verdict' = Unjudged
            BY <2>1, <3>1 DEF Read, GatesInv
        <3> QED
            BY <3>2 DEF GatesInv, Unjudged, Result
    <2>2. ASSUME NEW type, Judge(type)
          PROVE  GatesInv'
        <3>1. words' = words /\ verdict' = ValidateClaimType(type, words)
            BY <2>2 DEF Judge
        <3>2. verdict'.type = "applications" => verdict' = ApplicationVerdict(words)
            BY <3>1, OnlyApplications
        <3>3. ApplicationVerdict(words)' = ApplicationVerdict(words)
            BY <3>1 DEF ApplicationVerdict, HasApplicationSignal, HasSectorDeploymentSignal, Has,
                        Normalized
        <3> QED
            BY <3>1, <3>2, <3>3 DEF GatesInv
    <2>3. CASE UNCHANGED gateVars
        BY <2>3 DEF gateVars, GatesInv, ApplicationVerdict, HasApplicationSignal, HasSectorDeploymentSignal, Has,
                        Normalized
    <2> QED
        BY <2>1, <2>2, <2>3 DEF GatesNext
<1> QED
    BY <1>1, <1>2, PTL DEF GatesSpec

\* A sentence is rejected as an application only when no clause of it would have
\* been accepted alone (_has_application_signal).
THEOREM ClausesAreAllConsidered == GatesSpec => []EveryClauseGetsItsChance
<1>1. GatesInv => EveryClauseGetsItsChance
    <2> SUFFICES ASSUME GatesInv, verdict.type = "applications", ~verdict.valid,
                        NEW i \in DOMAIN words, words[i] = "break"
                 PROVE  /\ Decisive(Normalized(SubSeq(words, 1, i - 1))) = {}
                        /\ Decisive(Normalized(SubSeq(words, i + 1, Len(words)))) = {}
        BY DEF EveryClauseGetsItsChance
    <2>1. ~HasApplicationSignal(words)[1]
        BY DEF GatesInv, ApplicationVerdict, Result
    <2>2. Decisive(Normalized(words)) = {}
        BY <2>1 DEF HasApplicationSignal
    <2> QED
        BY <2>2, NormalizedParts DEF GatesInv
<1> QED
    BY <1>1, GatesInvariant, PTL

-----------------------------------------------------------------------------
(* Candidates and their scores                                             *)

WindowsOf(text) == UNION {Windows(run) : run \in WordRuns(text)}

\* A window is a stretch of the text.
LEMMA WindowsLie ==
    ASSUME NEW text \in Seq(Tokens), NEW v \in WindowsOf(text)
    PROVE  v \in (DOMAIN text) \X (DOMAIN text) /\ v[1] <= v[2]
<1>1. PICK run \in WordRuns(text) : v \in Windows(run)
    BY DEF WindowsOf
<1>2. Len(text) \in Nat /\ DOMAIN text = 1 .. Len(text) /\ MaxPhraseWords \in Nat \ {0}
    BY PhraseAssumption
<1>3. run[1] \in DOMAIN text /\ run[2] \in DOMAIN text /\ run[1] <= run[2]
    BY DEF WordRuns
<1>4. PICK i \in run[1] .. run[2] :
          v = <<i, IF run[2] < i + MaxPhraseWords THEN run[2] ELSE i + MaxPhraseWords - 1>>
    BY <1>1 DEF Windows
<1> DEFINE end == IF run[2] < i + MaxPhraseWords THEN run[2] ELSE i + MaxPhraseWords - 1
<1>5. i \in DOMAIN text /\ end \in DOMAIN text /\ i <= end
    BY <1>2, <1>3
<1> HIDE DEF end
<1>6. v = <<i, end>>
    BY <1>4 DEF end
<1> QED
    BY <1>5, <1>6

\* There are finitely many candidates, each of a word at least.
LEMMA CandidatesAreFew ==
    ASSUME NEW text \in Seq(Tokens)
    PROVE  /\ IsFiniteSet(Candidates(text))
           /\ \A p \in Candidates(text) : p \in Seq(Tokens) /\ DOMAIN p \subseteq DOMAIN text
           /\ \A p \in Candidates(text) : StandsFirst(text, p) \in Nat
<1> DEFINE D == DOMAIN text
           stretch == [w \in D \X D |-> SubSeq(text, w[1], w[2])]
           Cuts == {stretch[w] : w \in D \X D}
<1>1. Len(text) \in Nat /\ D = 1 .. Len(text)
    OBVIOUS
<1>2. IsFiniteSet(D \X D)
    <2>1. IsFiniteSet(D)
        BY <1>1, FS_Interval
    <2> QED
        BY <2>1, FS_Product
<1>3. IsFiniteSet(Cuts)
    <2>1. stretch \in Surjection(D \X D, Cuts)
        BY DEF Surjection
    <2> QED
        BY <1>2, <2>1, FS_Surjection
<1>4. Candidates(text) = {SubSeq(text, v[1], v[2]) : v \in WindowsOf(text)}
    BY DEF Candidates, WindowsOf
<1>5. Candidates(text) \subseteq Cuts
    <2>1. SUFFICES ASSUME NEW p \in Candidates(text)
                   PROVE  p \in Cuts
        OBVIOUS
    <2>2. PICK v \in WindowsOf(text) : p = SubSeq(text, v[1], v[2])
        BY <1>4
    <2>3. v \in D \X D
        BY <2>2, WindowsLie
    <2>4. p = stretch[v]
        BY <2>2, <2>3
    <2> QED
        BY <2>3, <2>4
<1>6. IsFiniteSet(Candidates(text))
    BY <1>3, <1>5, FS_Subset
<1>7. ASSUME NEW p \in Candidates(text)
      PROVE  p \in Seq(Tokens) /\ DOMAIN p \subseteq D
    <2>1. PICK v \in WindowsOf(text) : p = SubSeq(text, v[1], v[2])
        BY <1>4
    <2>2. v[1] \in D /\ v[2] \in D /\ v[1] <= v[2]
        BY <2>1, WindowsLie
    <2>3. p \in Seq(Tokens) /\ Len(p) = v[2] - v[1] + 1
        BY <1>1, <2>1, <2>2
    <2> QED
        BY <1>1, <2>2, <2>3
<1>8. ASSUME NEW p \in Candidates(text)
      PROVE  StandsFirst(text, p) \in Nat
    <2> DEFINE places == {v[1] : v \in {w \in WindowsOf(text) : SubSeq(text, w[1], w[2]) = p}}
    <2>1. StandsFirst(text, p) = CHOOSE x \in places : \A y \in places : x <= y
        BY DEF StandsFirst, Min, WindowsOf
    <2>2. \A v \in WindowsOf(text) : v[1] \in Nat
        BY <1>1, WindowsLie
    <2>3. places \in SUBSET Nat
        BY <2>2
    <2>4. places # {}
        BY <1>4
    <2> HIDE DEF places
    <2>5. \E x \in places : \A y \in places : x <= y
        BY <2>3, <2>4, LeastNatural
    <2>6. (CHOOSE x \in places : \A y \in places : x <= y) \in places
        BY <2>5
    <2> QED
        BY <2>1, <2>3, <2>6
<1> QED
    BY <1>6, <1>7, <1>8

\* The product of the first numbers is one.
LEMMA MultipleIsNatural ==
    ASSUME NEW text \in Seq(Tokens)
    PROVE  Multiple(text) \in Nat
<1> DEFINE Is(f) == f = [n \in 0 .. Len(text) |-> IF n = 0 THEN 1 ELSE n * f[n - 1]]
           goes == [a \in Nat \X (1 .. Len(text)) |-> a[2] * a[1]]
           product == CHOOSE f : Is(f)
<1>1. Len(text) \in Nat
    OBVIOUS
<1>3. \A m \in Nat, n \in 1 .. Len(text) : goes[<<m, n>>] = n * m /\ goes[<<m, n>>] \in Nat
    <2>1. ASSUME NEW m \in Nat, NEW n \in 1 .. Len(text)
          PROVE  goes[<<m, n>>] = n * m /\ n * m \in Nat
        <3>1. n \in Nat
            BY <1>1
        <3> QED
            BY <3>1
    <2> QED
        BY <2>1
<1> HIDE DEF goes, Is, product
<1>4. StaysIn(goes, Nat, Len(text)) /\ 1 \in Nat
    BY <1>3 DEF StaysIn
<1>5. PICK f : GoesOn(f, 1, goes, Len(text), Nat)
    BY <1>1, <1>4, Recursion
<1>6. \A n \in 0 .. Len(text) : n # 0 => n \in 1 .. Len(text) /\ n - 1 \in 0 .. Len(text)
    BY <1>1
<1>7. \A n \in 0 .. Len(text) : f[n] = IF n = 0 THEN 1 ELSE n * f[n - 1]
    BY <1>3, <1>5, <1>6 DEF GoesOn
<1>8. Is(f)
    BY <1>5, <1>7 DEF Is, GoesOn
<1>9. Is(product)
    BY <1>8 DEF product
<1>10. \A n \in 0 .. Len(text) : product[n] = IF n = 0 THEN 1 ELSE n * product[n - 1]
    BY <1>9 DEF Is
<1> DEFINE T == {n \in 0 .. Len(text) : product[n] \in Nat}
<1>11. 0 \in T
    BY <1>1, <1>10
<1>12. ASSUME NEW n \in 0 .. Len(text) - 1, n \in T
       PROVE  n + 1 \in T
    <2>1. n + 1 \in 0 .. Len(text) /\ n + 1 # 0 /\ (n + 1) - 1 = n /\ n + 1 \in Nat
        BY <1>1
    <2>2. product[n + 1] = (n + 1) * product[n] /\ product[n] \in Nat
        BY <1>10, <1>12, <2>1
    <2>3. (n + 1) * product[n] \in Nat
        BY <2>1, <2>2
    <2> QED
        BY <2>1, <2>2, <2>3
<1> HIDE DEF T
<1>13. Len(text) \in T
    <2>1. \A n \in 0 .. Len(text) : n \in T
        BY <1>1, <1>11, <1>12, UpTo
    <2> QED
        BY <1>1, <2>1
<1>14. Multiple(text) = product[Len(text)]
    BY DEF Multiple, product, Is
<1> QED
    BY <1>13, <1>14 DEF T

\* A word of a candidate stands somewhere, and finitely often.
LEMMA WordsScore ==
    ASSUME NEW text \in Seq(Tokens), NEW p \in Candidates(text), NEW i \in DOMAIN p
    PROVE  WordScore(text, p[i]) \in Nat
<1> DEFINE w == p[i]  D == DOMAIN text
           often == Stands(text, w) \X D
           long == {o \in often : o[2] \in DOMAIN o[1][1]}
<1>1. Len(text) \in Nat /\ D = 1 .. Len(text) /\ IsFiniteSet(D)
    <2>1. Len(text) \in Nat /\ D = 1 .. Len(text)
        OBVIOUS
    <2> QED
        BY <2>1, FS_Interval
<1>2. IsFiniteSet(Candidates(text) \X D)
    BY <1>1, CandidatesAreFew, FS_Product
<1>3. IsFiniteSet(Stands(text, w))
    <2>1. Stands(text, w) \subseteq Candidates(text) \X D
        BY DEF Stands
    <2> QED
        BY <1>2, <2>1, FS_Subset
<1>4. IsFiniteSet(often)
    BY <1>1, <1>3, FS_Product
<1>5. IsFiniteSet(long)
    <2>1. long \subseteq often
        OBVIOUS
    <2> HIDE DEF often, long
    <2> QED
        BY <1>4, <2>1, FS_Subset
<1>6. Degree(text, w) \in Nat
    <2>1. Degree(text, w) = Cardinality(long)
        BY DEF Degree
    <2> HIDE DEF long
    <2> QED
        BY <1>5, <2>1, FS_CardinalityType
<1>7. Frequency(text, w) \in Nat \ {0}
    <2>1. i \in D
        BY CandidatesAreFew
    <2>2. <<p, i>> \in Stands(text, w)
        BY <2>1 DEF Stands
    <2>3. Cardinality(Stands(text, w)) \in Nat /\ Cardinality(Stands(text, w)) # 0
        BY <1>3, <2>2, FS_CardinalityType, FS_EmptySet
    <2> QED
        BY <2>3 DEF Frequency
<1>8. Multiple(text) \in Nat
    BY <1>1, MultipleIsNatural
<1> HIDE DEF w
<1>9. Multiple(text) \div Frequency(text, w) \in Nat
    BY <1>7, <1>8
<1>10. WordScore(text, w) \in Nat
    BY <1>6, <1>9 DEF WordScore
<1> QED
    BY <1>10 DEF w

\* Every candidate has a score.
LEMMA PhrasesScore ==
    ASSUME NEW text \in Seq(Tokens)
    PROVE  Scores(text) \in [Candidates(text) -> Nat]
<1> SUFFICES ASSUME NEW p \in Candidates(text)
             PROVE  PhraseScore(text, p) \in Nat
    BY DEF Scores
<1> DEFINE Is(f) == f = [n \in 0 .. Len(p) |-> IF n = 0 THEN 0 ELSE f[n - 1] + WordScore(text, p[n])]
           goes == [a \in Nat \X (1 .. Len(p)) |-> a[1] + WordScore(text, p[a[2]])]
           total == CHOOSE f : Is(f)
<1>1. Len(p) \in Nat /\ \A n \in 1 .. Len(p) : n \in DOMAIN p
    <2>1. p \in Seq(Tokens)
        BY CandidatesAreFew
    <2> QED
        BY <2>1
<1>2. \A n \in 1 .. Len(p) : WordScore(text, p[n]) \in Nat
    BY <1>1, WordsScore
<1>3. \A m \in Nat, n \in 1 .. Len(p) : goes[<<m, n>>] = m + WordScore(text, p[n]) /\ goes[<<m, n>>] \in Nat
    BY <1>2
<1> HIDE DEF goes, Is, total
<1>4. StaysIn(goes, Nat, Len(p)) /\ 0 \in Nat
    BY <1>3 DEF StaysIn
<1>5. PICK f : GoesOn(f, 0, goes, Len(p), Nat)
    BY <1>1, <1>4, Recursion
<1>6. \A n \in 0 .. Len(p) : n # 0 => n \in 1 .. Len(p) /\ n - 1 \in 0 .. Len(p)
    BY <1>1
<1>7. \A n \in 0 .. Len(p) : f[n] = IF n = 0 THEN 0 ELSE f[n - 1] + WordScore(text, p[n])
    BY <1>3, <1>5, <1>6 DEF GoesOn
<1>8. Is(f)
    BY <1>5, <1>7 DEF Is, GoesOn
<1>9. Is(total)
    BY <1>8 DEF total
<1>10. \A n \in 0 .. Len(p) : total[n] = IF n = 0 THEN 0 ELSE total[n - 1] + WordScore(text, p[n])
    BY <1>9 DEF Is
<1> DEFINE T == {n \in 0 .. Len(p) : total[n] \in Nat}
<1>11. 0 \in T
    BY <1>1, <1>10
<1>12. ASSUME NEW n \in 0 .. Len(p) - 1, n \in T
       PROVE  n + 1 \in T
    <2>1. n + 1 \in 0 .. Len(p) /\ n + 1 # 0 /\ (n + 1) - 1 = n /\ n + 1 \in 1 .. Len(p)
        BY <1>1
    <2>2. total[n + 1] = total[n] + WordScore(text, p[n + 1])
        BY <1>10, <2>1
    <2> QED
        BY <1>2, <1>12, <2>1, <2>2
<1> HIDE DEF T
<1>13. Len(p) \in T
    <2>1. \A n \in 0 .. Len(p) : n \in T
        BY <1>1, <1>11, <1>12, UpTo
    <2> QED
        BY <1>1, <2>1
<1>14. PhraseScore(text, p) = total[Len(p)]
    BY DEF PhraseScore, total, Is
<1> QED
    BY <1>13, <1>14 DEF T

-----------------------------------------------------------------------------
(* Keywords                                                                *)

\* Of candidates that are left there is a best: none that is left scores more.
LEMMA TheBestIsLeft ==
    ASSUME NEW text \in Seq(Tokens), NEW left \in SUBSET Candidates(text), left # {}
    PROVE  /\ Best(text, Scores(text), left) \in left
           /\ \A q \in left : Scores(text)[Best(text, Scores(text), left)] >= Scores(text)[q]
<1> DEFINE all == Candidates(text)  score == Scores(text)
           First(p) == StandsFirst(text, p)
           before == {o \in all \X all : RanksBefore(text, score, o[1], o[2])}
<1>1. \A p \in all : score[p] \in Nat /\ First(p) \in Nat
    BY PhrasesScore, CandidatesAreFew
<1>2. \A p, q \in all : <<p, q>> \in before <=>
          score[p] > score[q] \/ (score[p] = score[q] /\ First(p) < First(q))
    BY DEF RanksBefore
<1>3. IsFiniteSet(all)
    BY CandidatesAreFew
<1> HIDE DEF before, all, score, First
<1>4. \A x \in all : <<x, x>> \notin before
    BY <1>1, <1>2
<1>5. \A x, y, z \in all : <<x, y>> \in before /\ <<y, z>> \in before => <<x, z>> \in before
    <2>1. SUFFICES ASSUME NEW x \in all, NEW y \in all, NEW z \in all, <<x, y>> \in before, <<y, z>> \in before
                   PROVE  <<x, z>> \in before
        OBVIOUS
    <2>2. /\ score[x] > score[y] \/ (score[x] = score[y] /\ First(x) < First(y))
          /\ score[y] > score[z] \/ (score[y] = score[z] /\ First(y) < First(z))
        BY <1>2, <2>1
    <2>3. score[x] > score[z] \/ (score[x] = score[z] /\ First(x) < First(z))
        BY <1>1, <2>2
    <2> QED
        BY <1>2, <2>3
<1>6. \E x \in left : \A y \in left : <<y, x>> \notin before
    BY <1>3, <1>4, <1>5, SomeFirst DEF all
<1>7. \A x, y \in left : x \in all /\ y \in all
    BY DEF all
<1>8. \E x \in left : \A y \in left : ~RanksBefore(text, score, y, x)
    BY <1>2, <1>6, <1>7 DEF RanksBefore, First
<1> DEFINE best == Best(text, score, left)
<1>9. best \in left /\ \A y \in left : ~RanksBefore(text, score, y, best)
    BY <1>8 DEF Best
<1> HIDE DEF best
<1>10. \A y \in left : score[best] >= score[y]
    BY <1>1, <1>7, <1>9 DEF RanksBefore
<1> QED
    BY <1>9, <1>10 DEF best, score

\* What has been kept and what is left, after n candidates.
KeptSoFar(text, acc, n) ==
    /\ acc.left \subseteq Candidates(text) /\ acc.kept \subseteq Candidates(text) \ acc.left
    /\ Cardinality(acc.left) = Cardinality(Candidates(text)) - n
    /\ Cardinality(acc.kept) <= MaxDimensions
    /\ \A p, q \in acc.kept : Related(p, q) => p = q
    /\ \A q \in acc.kept, p \in acc.left : Scores(text)[q] >= Scores(text)[p]
    /\ \A p \in Candidates(text) \ (acc.left \cup acc.kept) :
           \/ Cardinality(acc.kept) = MaxDimensions
           \/ \E q \in acc.kept : Related(p, q) /\ Scores(text)[q] >= Scores(text)[p]

\* The best of what is left keeps that, whether it is kept or not.
LEMMA KeptSoFarGrows ==
    ASSUME NEW text \in Seq(Tokens), NEW n \in 0 .. Cardinality(Candidates(text)) - 1,
           NEW acc, KeptSoFar(text, acc, n)
    PROVE  KeptSoFar(text, Consider(acc, Best(text, Scores(text), acc.left)), n + 1)
<1> DEFINE all == Candidates(text)  score == Scores(text)  L == acc.left  K == acc.kept
           b == Best(text, score, L)
           Full == Cardinality(K) >= MaxDimensions \/ \E q \in K : Related(b, q)
           K2 == IF Full THEN K ELSE K \cup {b}
           L2 == L \ {b}
           Missed(these, p) == \/ Cardinality(these) = MaxDimensions
                              \/ \E q \in these : Related(p, q) /\ score[q] >= score[p]
<1>1. /\ L \subseteq all /\ K \subseteq all \ L
      /\ Cardinality(L) = Cardinality(all) - n
      /\ Cardinality(K) <= MaxDimensions
      /\ \A p, q \in K : Related(p, q) => p = q
      /\ \A q \in K, p \in L : score[q] >= score[p]
      /\ \A p \in all \ (L \cup K) : Missed(K, p)
    BY DEF KeptSoFar
<1>2. IsFiniteSet(all) /\ Cardinality(all) \in Nat /\ MaxDimensions \in Nat \ {0} /\ n \in Nat
    BY CandidatesAreFew, FS_CardinalityType, PhraseAssumption
<1>3. IsFiniteSet(L) /\ IsFiniteSet(K) /\ Cardinality(L) \in Nat /\ Cardinality(K) \in Nat
    <2>1. IsFiniteSet(L) /\ IsFiniteSet(K)
        BY <1>1, <1>2, FS_Subset
    <2> QED
        BY <2>1, FS_CardinalityType
<1>4. L # {}
    <2>1. Cardinality(all) - n # 0
        BY <1>2
    <2>2. Cardinality({}) = 0
        BY FS_EmptySet
    <2> QED
        BY <1>1, <2>1, <2>2
<1>5. b \in L /\ \A q \in L : score[b] >= score[q]
    BY <1>1, <1>4, TheBestIsLeft
<1>6. \A p \in all : score[p] \in Nat
    BY PhrasesScore
<1>7. Consider(acc, b) = [left |-> L2, kept |-> K2]
    BY DEF Consider
<1> HIDE DEF all, score, b, L, K
<1>8. Cardinality(L2) = Cardinality(all) - (n + 1)
    <2>1. Cardinality(L2) = Cardinality(L) - 1
        BY <1>3, <1>5, FS_RemoveElement
    <2> QED
        BY <1>1, <1>2, <2>1
<1>9. L2 \subseteq all /\ K2 \subseteq all \ L2
    BY <1>1, <1>5
<1>10. CASE Full
    <2>1. K2 = K
        BY <1>10
    <2>2. Missed(K, b)
        <3>1. CASE Cardinality(K) >= MaxDimensions
            BY <1>1, <1>2, <1>3, <3>1
        <3>2. CASE \E q \in K : Related(b, q)
            BY <1>1, <1>5, <3>2
        <3> QED
            BY <1>10, <3>1, <3>2
    <2>3. \A p \in all \ (L2 \cup K) : p = b \/ p \in all \ (L \cup K)
        OBVIOUS
    <2> HIDE DEF Missed
    <2>4. \A p \in all \ (L2 \cup K) : Missed(K, p)
        BY <1>1, <2>2, <2>3
    <2>5. KeptSoFar(text, [left |-> L2, kept |-> K], n + 1)
        BY <1>1, <1>8, <1>9, <2>1, <2>4 DEF KeptSoFar, Missed, all, score
    <2> QED
        BY <1>7, <2>1, <2>5 DEF b, score, L
<1>11. CASE ~Full
    <2>1. K2 = K \cup {b} /\ Cardinality(K) < MaxDimensions /\ \A q \in K : ~Related(b, q)
        BY <1>2, <1>3, <1>11
    <2>2. Cardinality(K2) = Cardinality(K) + 1
        <3>1. b \notin K
            BY <1>1, <1>5
        <3> QED
            BY <1>3, <2>1, <3>1, FS_AddElement
    <2>3. Cardinality(K2) <= MaxDimensions
        BY <1>2, <1>3, <2>1, <2>2
    <2>4. \A p, q \in K2 : Related(p, q) => p = q
        <3>1. \A q \in K : ~Related(b, q) /\ ~Related(q, b)
            BY <2>1 DEF Related
        <3> QED
            BY <1>1, <2>1, <3>1
    <2>5. \A q \in K2, p \in L2 : score[q] >= score[p]
        BY <1>1, <1>5, <2>1
    <2>6. ASSUME NEW p \in all \ (L2 \cup K2)
          PROVE  Missed(K2, p)
        <3>1. p \in all \ (L \cup K)
            BY <2>1, <2>6
        <3>2. Cardinality(K) # MaxDimensions
            BY <1>2, <1>3, <2>1
        <3>3. \E q \in K : Related(p, q) /\ score[q] >= score[p]
            BY <1>1, <3>1, <3>2
        <3> QED
            BY <2>1, <3>3
    <2> HIDE DEF L2, K2
    <2>7. KeptSoFar(text, [left |-> L2, kept |-> K2], n + 1)
        BY <1>8, <1>9, <2>3, <2>4, <2>5, <2>6 DEF KeptSoFar, all, score
    <2> QED
        BY <1>7, <2>7 DEF b, score, L
<1> QED
    BY <1>10, <1>11

\* The keywords of a text: none is part of another, and a candidate is missing
\* only for one like it that scores no less, or because there are enough.
LEMMA KeywordsCountOnce ==
    ASSUME NEW text \in Seq(Tokens)
    PROVE  /\ \A p, q \in Keywords(text) : PartOf(p, q) => p = q
           /\ \A p \in Candidates(text) \ Keywords(text) :
                  \/ Cardinality(Keywords(text)) = MaxDimensions
                  \/ \E q \in Keywords(text) : Related(p, q) /\ Scores(text)[q] >= Scores(text)[p]
<1> DEFINE all == Candidates(text)  score == Scores(text)  N == Cardinality(all)
           start == [left |-> all, kept |-> {}]
           Step(acc) == Consider(acc, Best(text, score, acc.left))
           Is(f) == f = [n \in 0 .. N |-> IF n = 0 THEN start
                                          ELSE Consider(f[n - 1], Best(text, score, f[n - 1].left))]
           after == CHOOSE f : Is(f)
           States == [left : SUBSET all, kept : SUBSET (all \cup {Best(text, score, {})})]
           goes == [a \in States \X (1 .. N) |-> Step(a[1])]
<1>1. IsFiniteSet(all) /\ N \in Nat
    BY CandidatesAreFew, FS_CardinalityType
<1>2. \A acc \in States, n \in 1 .. N : goes[<<acc, n>>] = Step(acc)
    OBVIOUS
<1>3. start \in States
    OBVIOUS
<1>4. ASSUME NEW acc \in States
      PROVE  Step(acc) \in States
    <2> DEFINE b == Best(text, score, acc.left)
    <2>1. acc.left \subseteq all /\ acc.kept \subseteq all \cup {Best(text, score, {})}
        OBVIOUS
    <2>2. b \in all \cup {Best(text, score, {})}
        BY <2>1, TheBestIsLeft
    <2> HIDE DEF b
    <2>3. Consider(acc, b) \in States
        BY <2>1, <2>2 DEF Consider
    <2> QED
        BY <2>3 DEF b
<1> HIDE DEF start, Step, Is, after, States, goes
<1>5. StaysIn(goes, States, N)
    BY <1>2, <1>4 DEF StaysIn
<1>6. PICK f : GoesOn(f, start, goes, N, States)
    BY <1>1, <1>3, <1>5, Recursion
<1>7. \A n \in 0 .. N : n # 0 => n \in 1 .. N /\ n - 1 \in 0 .. N
    BY <1>1
<1>8. \A n \in 0 .. N : f[n] = IF n = 0 THEN start ELSE Step(f[n - 1])
    BY <1>2, <1>6, <1>7 DEF GoesOn
<1>9. Is(f)
    BY <1>6, <1>8 DEF Is, GoesOn, Step
<1>10. Is(after)
    BY <1>9 DEF after
<1>11. \A n \in 0 .. N : after[n] = IF n = 0 THEN start ELSE Step(after[n - 1])
    BY <1>10 DEF Is, Step
<1> DEFINE T == {n \in 0 .. N : KeptSoFar(text, after[n], n)}
<1>12. 0 \in T
    <2>1. 0 \in 0 .. N /\ after[0] = start
        BY <1>1, <1>11
    <2>2. start.left = all /\ start.kept = {}
        BY DEF start
    <2>3. Cardinality({}) = 0 /\ MaxDimensions \in Nat
        BY FS_EmptySet, PhraseAssumption
    <2>4. KeptSoFar(text, start, 0)
        BY <1>1, <2>2, <2>3 DEF KeptSoFar
    <2> QED
        BY <2>1, <2>4
<1>13. ASSUME NEW n \in 0 .. N - 1, n \in T
       PROVE  n + 1 \in T
    <2>1. n + 1 \in 0 .. N /\ n + 1 # 0 /\ (n + 1) - 1 = n
        BY <1>1
    <2>2. after[n + 1] = Step(after[n])
        BY <1>11, <2>1
    <2>3. KeptSoFar(text, after[n], n)
        BY <1>13
    <2>4. KeptSoFar(text, Step(after[n]), n + 1)
        BY <2>3, KeptSoFarGrows DEF Step
    <2> QED
        BY <2>1, <2>2, <2>4
<1> HIDE DEF T
<1>14. N \in T
    <2>1. \A n \in 0 .. N : n \in T
        BY <1>1, <1>12, <1>13, UpTo
    <2> QED
        BY <1>1, <2>1
<1>15. KeptSoFar(text, after[N], N)
    BY <1>14 DEF T
<1>16. Keywords(text) = after[N].kept
    BY DEF Keywords, after, Is, start
<1>17. after[N].left = {}
    <2>1. IsFiniteSet(after[N].left) /\ Cardinality(after[N].left) = 0
        BY <1>1, <1>15, FS_Subset DEF KeptSoFar
    <2> QED
        BY <2>1, FS_EmptySet
<1> DEFINE K == Keywords(text)
<1>18. \A p, q \in K : PartOf(p, q) => p = q
    BY <1>15, <1>16 DEF KeptSoFar, Related
<1>19. \A p \in all \ K : Cardinality(K) = MaxDimensions \/ \E q \in K : Related(p, q) /\ score[q] >= score[p]
    BY <1>15, <1>16, <1>17 DEF KeptSoFar
<1> QED
    BY <1>18, <1>19

-----------------------------------------------------------------------------
(* The answers of the local model.                                         *)

\* The labels read of an answer differ, and there are no more than may be.
LEMMA LabelsReadDiffer ==
    ASSUME NEW answer \in Seq(LabelLines), ReadDimensions(answer) # <<>>
    PROVE  /\ Len(ReadDimensions(answer)) \in 1 .. MaxDimensions
           /\ IsInjective(ReadDimensions(answer))
<1> DEFINE usable == {i \in DOMAIN answer : answer[i] # NoLine /\ answer[i].usable}
           first == {i \in usable : \A j \in usable : j < i => answer[j].label # answer[i].label}
           lines == At(answer, first)
           labels == [k \in {p \in DOMAIN lines : p <= MaxDimensions} |-> lines[k].label]
<1>1. ReadDimensions(answer) = labels
    BY DEF ReadDimensions
<1>2. first \subseteq DOMAIN answer /\ DOMAIN answer \subseteq Nat
    OBVIOUS
<1>3. \A i, j \in first : i # j => answer[i].label # answer[j].label
    <2>1. ASSUME NEW i \in first, NEW j \in first, i # j
          PROVE  answer[i].label # answer[j].label
        <3>1. i \in usable /\ j \in usable /\ i \in Nat /\ j \in Nat
            BY <1>2, <2>1
        <3>2. i < j \/ j < i
            BY <2>1, <3>1
        <3> QED
            BY <2>1, <3>1, <3>2
    <2> QED
        BY <2>1
<1> HIDE DEF first
<1>4. /\ lines \in Seq(LabelLines)
      /\ \A m, n \in DOMAIN lines : m # n =>
             \E i, j \in first : i # j /\ lines[m] = answer[i] /\ lines[n] = answer[j]
    BY <1>2, AtPlaces
<1> HIDE DEF lines
<1>5. \A m, n \in DOMAIN lines : lines[m].label = lines[n].label => m = n
    BY <1>3, <1>4
<1>6. Len(lines) \in Nat /\ DOMAIN lines = 1 .. Len(lines) /\ MaxDimensions \in Nat \ {0}
    BY <1>4, PhraseAssumption
<1> DEFINE size == IF Len(lines) <= MaxDimensions THEN Len(lines) ELSE MaxDimensions
<1>7. size \in 0 .. MaxDimensions /\ DOMAIN labels = 1 .. size /\ 1 .. size \subseteq DOMAIN lines
    BY <1>6
<1>8. \A m, n \in DOMAIN labels : labels[m] = labels[n] => m = n
    BY <1>5, <1>7
<1>9. labels \in Seq({lines[k].label : k \in DOMAIN lines})
    <2>1. \A k \in 1 .. size : labels[k] \in {lines[m].label : m \in DOMAIN lines}
        BY <1>7
    <2>2. labels = [k \in 1 .. size |-> labels[k]]
        BY <1>7
    <2> HIDE DEF labels, size
    <2> QED
        BY <1>7, <2>1, <2>2
<1>10. Len(labels) = size
    <2> HIDE DEF labels, size
    <2> QED
        BY <1>7, <1>9
<1>11. size # 0
    <2> HIDE DEF labels, size
    <2>1. labels # <<>>
        BY <1>1
    <2> QED
        BY <1>9, <1>10, <2>1
<1> HIDE DEF labels, size
<1> QED
    BY <1>1, <1>6, <1>7, <1>8, <1>10, <1>11 DEF IsInjective

\* Each tier cites what its one line cites.
LEMMA OffersAreInRange ==
    ASSUME NEW n \in Nat, NEW answer, WellFormed(answer, n)
    PROVE  /\ DOMAIN Offers(answer) = OfferTiers
           /\ \A t \in OfferTiers : Offers(answer)[t] # {} /\ Offers(answer)[t] \subseteq 1 .. n
<1>1. ASSUME NEW t \in OfferTiers
      PROVE  Offers(answer)[t] # {} /\ Offers(answer)[t] \subseteq 1 .. n
    <2> DEFINE lines == ToSet(answer) \ {NoLine}
               line == CHOOSE l \in lines : l.tier = t
    <2>1. \A l \in lines : \E i \in Recognised(answer) : l = answer[i]
        BY DEF Recognised, ToSet
    <2>2. \E l \in lines : l.tier = t
        <3>1. PICK i \in Recognised(answer) : answer[i].tier = t
            BY DEF WellFormed
        <3>2. answer[i] \in lines
            BY DEF Recognised, ToSet
        <3> QED
            BY <3>1, <3>2
    <2>3. line \in lines
        BY <2>2
    <2>4. Offers(answer)[t] = line.cites
        BY DEF Offers
    <2> HIDE DEF line, lines
    <2> QED
        BY <2>1, <2>3, <2>4 DEF WellFormed
<1> QED
    BY <1>1 DEF Offers

\* Nothing has been asked at first.
LEMMA AnswersInit == ModelInit => AnswersInv
<1> SUFFICES ASSUME ModelInit
             PROVE  AnswersInv
    OBVIOUS
<1>1. found \in Nat /\ asks = "dimensions" /\ heard = FALSE /\ offers = <<>> /\ remaining = [i \in 1..found |-> i]
    BY FoundAssumption DEF ModelInit
<1>2. remaining \in Seq(1..found)
    BY <1>1
<1>3. idea \in Seq(Tokens)
    <2>1. PICK n \in 0..MaxIdea : idea \in [1..n -> Tokens]
        BY DEF ModelInit, Ideas
    <2> QED
        BY <2>1
<1> QED
    BY <1>1, <1>2, <1>3 DEF AnswersInv, DimensionsComeFrom, OpportunitiesCiteWhatIsKept

\* No answer, no silence and no fallback breaks it.
LEMMA AnswersStep == AnswersInv /\ [ModelNext]_modelVars => AnswersInv'
<1> SUFFICES ASSUME AnswersInv, [ModelNext]_modelVars
             PROVE  AnswersInv'
    OBVIOUS
<1>0. /\ found \in Nat /\ remaining \in Seq(1..found) /\ Len(remaining) \in Nat
      /\ offers # <<>> => asks = "reported"
      /\ DimensionsComeFrom /\ (asks = "dimensions" => ~heard) /\ OpportunitiesCiteWhatIsKept
      /\ idea \in Seq(Tokens)
    BY DEF AnswersInv
<1> DEFINE Same == asks' = asks /\ dimensions' = dimensions /\ heard' = heard /\ found' = found
                   /\ remaining' = remaining /\ offers' = offers /\ idea' = idea
<1>1. ASSUME Same
      PROVE  AnswersInv'
    <2>1. DimensionsComeFrom'
        BY <1>0, <1>1 DEF DimensionsComeFrom, LabelsDiffer
    <2> QED
        BY <1>1, <2>1 DEF AnswersInv, OpportunitiesCiteWhatIsKept
<1>2. ASSUME HearDimensions
      PROVE  AnswersInv'
    <2>1. PICK answer \in AnswersOf(LabelLines) :
              IF ReadDimensions(answer) = <<>> THEN Fails
              ELSE /\ dimensions' = ReadDimensions(answer)
                   /\ heard' = TRUE
                   /\ Goes(IF remaining = <<>> THEN "reported" ELSE "relevance")
                   /\ UNCHANGED <<remaining, offers>>
        BY <1>2 DEF HearDimensions
    <2>2. CASE ReadDimensions(answer) = <<>>
        BY <1>1, <2>1, <2>2 DEF Fails
    <2>3. CASE ReadDimensions(answer) # <<>>
        <3>1. answer \in Seq(LabelLines)
            <4>1. PICK n \in 0 .. MaxAnswer : answer \in [1 .. n -> LabelLines]
                BY DEF AnswersOf
            <4>2. n \in Nat
                BY FoundAssumption
            <4> QED
                BY <4>1, <4>2
        <3>2. /\ asks' \in {"reported", "relevance"} /\ dimensions' = ReadDimensions(answer) /\ heard'
              /\ found' = found /\ remaining' = remaining /\ offers' = offers /\ idea' = idea
            BY <2>1, <2>3 DEF Goes
        <3>3. LabelsDiffer'
            BY <2>3, <3>1, <3>2, LabelsReadDiffer DEF LabelsDiffer
        <3>4. asks = "dimensions" /\ offers = <<>>
            BY <1>0, <1>2 DEF HearDimensions, Asks
        <3> QED
            BY <1>0, <3>2, <3>3, <3>4 DEF AnswersInv, DimensionsComeFrom, OpportunitiesCiteWhatIsKept
    <2> QED
        BY <2>2, <2>3
<1>3. ASSUME DoWithoutDimensions
      PROVE  AnswersInv'
    <2>1. /\ asks' \in {"relevance", "reported"} /\ asks = "dimensions" /\ dimensions' = Keywords(idea)
          /\ heard' = heard /\ found' = found /\ remaining' = remaining /\ offers' = offers /\ idea' = idea
        BY <1>3 DEF DoWithoutDimensions, Goes
    <2>2. ~heard
        BY <1>0, <2>1
    <2>3. DimensionsComeFrom'
        BY <2>1, <2>2 DEF DimensionsComeFrom
    <2> QED
        BY <1>0, <2>1, <2>2, <2>3 DEF AnswersInv, OpportunitiesCiteWhatIsKept
<1>4. ASSUME DoWithoutRelevance \/ DoWithoutOpportunities
      PROVE  AnswersInv'
    <2>1. /\ asks' \in {"opportunities", "reported"} /\ dimensions' = dimensions
          /\ heard' = heard /\ found' = found /\ remaining' = remaining /\ offers' = offers /\ idea' = idea
          /\ asks \in {"relevance", "opportunities"}
        BY <1>4 DEF DoWithoutRelevance, DoWithoutOpportunities, Goes
    <2>2. DimensionsComeFrom'
        BY <1>0, <2>1 DEF DimensionsComeFrom, LabelsDiffer
    <2> QED
        BY <1>0, <2>1, <2>2 DEF AnswersInv, OpportunitiesCiteWhatIsKept
<1>5. ASSUME HearRelevance
      PROVE  AnswersInv'
    <2>1. PICK answer : IF ~JudgesAll(answer, Len(remaining)) THEN Fails
                        ELSE /\ remaining' = Among(remaining, Relevant(answer))
                             /\ Goes(IF Relevant(answer) = {} THEN "reported" ELSE "opportunities")
                             /\ UNCHANGED <<dimensions, heard, offers>>
        BY <1>5 DEF HearRelevance
    <2>2. CASE ~JudgesAll(answer, Len(remaining))
        BY <1>1, <2>1, <2>2 DEF Fails
    <2>3. CASE JudgesAll(answer, Len(remaining))
        <3>1. /\ asks' \in {"reported", "opportunities"} /\ dimensions' = dimensions /\ heard' = heard
              /\ found' = found /\ remaining' = Among(remaining, Relevant(answer)) /\ offers' = offers
              /\ idea' = idea
            BY <2>1, <2>3 DEF Goes
        <3>2. asks = "relevance" /\ offers = <<>>
            BY <1>0, <1>5 DEF HearRelevance, Asks
        <3>3. remaining' \in Seq(1..found)
            BY <1>0, <3>1, AmongKeeps
        <3>4. DimensionsComeFrom'
            BY <1>0, <3>1, <3>2 DEF DimensionsComeFrom, LabelsDiffer
        <3> QED
            BY <1>0, <3>1, <3>2, <3>3, <3>4 DEF AnswersInv, OpportunitiesCiteWhatIsKept
    <2> QED
        BY <2>2, <2>3
<1>6. ASSUME HearOpportunities
      PROVE  AnswersInv'
    <2>1. PICK answer : IF ~WellFormed(answer, Len(remaining)) THEN Fails
                        ELSE /\ offers' = Offers(answer)
                             /\ Goes("reported")
                             /\ UNCHANGED <<dimensions, heard, remaining>>
        BY <1>6 DEF HearOpportunities
    <2>2. CASE ~WellFormed(answer, Len(remaining))
        BY <1>1, <2>1, <2>2 DEF Fails
    <2>3. CASE WellFormed(answer, Len(remaining))
        <3>1. /\ asks' = "reported" /\ dimensions' = dimensions /\ heard' = heard
              /\ found' = found /\ remaining' = remaining /\ offers' = Offers(answer) /\ idea' = idea
            BY <2>1, <2>3 DEF Goes
        <3>2. asks = "opportunities"
            BY <1>6 DEF HearOpportunities, Asks
        <3>3. DimensionsComeFrom'
            BY <1>0, <3>1, <3>2 DEF DimensionsComeFrom, LabelsDiffer
        <3>4. /\ DOMAIN offers' = OfferTiers
              /\ \A t \in OfferTiers : offers'[t] # {} /\ offers'[t] \subseteq 1 .. Len(remaining)
            BY <1>0, <2>3, <3>1, OffersAreInRange
        <3>5. DOMAIN remaining' = 1 .. Len(remaining) /\ ToSet(remaining') \subseteq 1..found'
            BY <1>0, <3>1 DEF ToSet
        <3>6. OpportunitiesCiteWhatIsKept'
            BY <3>4, <3>5 DEF OpportunitiesCiteWhatIsKept
        <3> QED
            BY <1>0, <3>1, <3>3, <3>6 DEF AnswersInv
    <2> QED
        BY <2>2, <2>3
<1>7. Silence \/ UNCHANGED modelVars => Same
    BY DEF Silence, Fails, modelVars
<1> QED
    BY <1>1, <1>2, <1>4, <1>5, <1>6, <1>7, <1>3 DEF ModelNext

\* Whatever a local model writes and however often it is silent, its labels
\* differ and opportunities cite what has passed the filter; without it no
\* keyword is part of another, and a phrase is missing only for one like it that
\* scores no less (assessment/dimensions.py, opportunity_synthesis.py).
THEOREM TheModelIsHeldToTheText == ModelSpec => []ModelIsHeldToTheText
<1>1. AnswersInv => ModelIsHeldToTheText
    <2> SUFFICES ASSUME AnswersInv, asks # "dimensions"
                 PROVE  IF heard THEN LabelsDiffer
                        ELSE /\ \A p, q \in dimensions : PartOf(p, q) => p = q
                             /\ \A p \in Candidates(idea) \ dimensions :
                                  \/ Cardinality(dimensions) = MaxDimensions
                                  \/ \E q \in dimensions : Related(p, q) /\ Scores(idea)[q] >= Scores(idea)[p]
        BY DEF AnswersInv, ModelIsHeldToTheText, DimensionsCountOnce
    <2>1. idea \in Seq(Tokens) /\ IF heard THEN LabelsDiffer ELSE dimensions = Keywords(idea)
        BY DEF AnswersInv, DimensionsComeFrom
    <2> QED
        BY <2>1, KeywordsCountOnce
<1> QED
    BY <1>1, AnswersInit, AnswersStep, PTL DEF ModelSpec

-----------------------------------------------------------------------------
(* Lines, counted                                                          *)

\* A line more is counted if it is the one that is looked for.
LEMMA CountAppend ==
    ASSUME NEW s \in Seq(Lines), NEW line, NEW x \in Lines
    PROVE  /\ Count(line, <<>>) = 0
           /\ Count(line, s) \in Nat
           /\ Count(line, Append(s, x)) = Count(line, s) + (IF x = line THEN 1 ELSE 0)
<1> DEFINE here == {i \in DOMAIN s : s[i] = line}
           new == {i \in DOMAIN Append(s, x) : Append(s, x)[i] = line}
<1>0. DOMAIN s = 1 .. Len(s) /\ Len(s) \in Nat /\ DOMAIN Append(s, x) = 1 .. Len(s) + 1
      /\ Append(s, x)[Len(s) + 1] = x /\ \A i \in 1 .. Len(s) : Append(s, x)[i] = s[i]
    OBVIOUS
<1>1. IsFiniteSet(here) /\ Cardinality(here) \in Nat
    <2>1. IsFiniteSet(1 .. Len(s)) /\ here \subseteq 1 .. Len(s)
        BY <1>0, FS_Interval
    <2> QED
        BY <2>1, FS_Subset, FS_CardinalityType
<1>2. new = IF x = line THEN here \cup {Len(s) + 1} ELSE here
    BY <1>0
<1>3. Len(s) + 1 \notin here
    BY <1>0
<1>4. {i \in DOMAIN <<>> : <<>>[i] = line} = {}
    OBVIOUS
<1> HIDE DEF here, new
<1>5. Cardinality(here \cup {Len(s) + 1}) = Cardinality(here) + 1
    BY <1>1, <1>3, FS_AddElement
<1>6. Cardinality(new) = Cardinality(here) + (IF x = line THEN 1 ELSE 0)
    BY <1>1, <1>2, <1>5
<1> QED
    BY <1>1, <1>4, <1>6, FS_EmptySet DEF Count, here, new

\* Two texts one after the other have the lines of both.
LEMMA CountConcat ==
    ASSUME NEW s \in Seq(Lines), NEW t \in Seq(Lines), NEW line
    PROVE  Count(line, s \o t) = Count(line, s) + Count(line, t)
<1> DEFINE T == {n \in 0 .. Len(t) : Count(line, s \o SubSeq(t, 1, n)) = Count(line, s) + Count(line, SubSeq(t, 1, n))}
<1>0. Len(t) \in Nat /\ Len(t) \in 0 .. Len(t) /\ Fence \in Lines
    BY DEF Lines
<1>1. 0 \in T
    <2> DEFINE none == SubSeq(t, 1, 0)
    <2>1. none = <<>> /\ s \o <<>> = s
        BY PrefixGrows
    <2> HIDE DEF none
    <2>2. Count(line, s) \in Nat /\ Count(line, <<>>) = 0
        BY <1>0, CountAppend
    <2>3. Count(line, s) = Count(line, s) + Count(line, <<>>)
        BY <2>2
    <2>4. Count(line, s \o none) = Count(line, s) + Count(line, none)
        BY <2>1, <2>3
    <2> QED
        BY <1>0, <2>4 DEF none
<1>2. ASSUME NEW n \in 0 .. Len(t) - 1, n \in T
      PROVE  n + 1 \in T
    <2> DEFINE p == SubSeq(t, 1, n)  x == t[n + 1]
    <2>1. p \in Seq(Lines) /\ x \in Lines /\ SubSeq(t, 1, n + 1) = Append(p, x)
        BY PrefixGrows
    <2>2. Count(line, s \o p) = Count(line, s) + Count(line, p) /\ n + 1 \in 0 .. Len(t)
        BY <1>2
    <2> HIDE DEF p, x
    <2>3. s \o Append(p, x) = Append(s \o p, x) /\ s \o p \in Seq(Lines)
        <3>1. s \o p \in Seq(Lines) /\ <<x>> \in Seq(Lines)
            BY <2>1
        <3>2. Append(p, x) = p \o <<x>> /\ Append(s \o p, x) = (s \o p) \o <<x>>
            BY <2>1, <3>1
        <3>3. s \o (p \o <<x>>) = (s \o p) \o <<x>>
            BY <2>1, <3>1, ConcatAssociative
        <3> QED
            BY <3>1, <3>2, <3>3
    <2>4. /\ Count(line, Append(s \o p, x)) = Count(line, s \o p) + (IF x = line THEN 1 ELSE 0)
          /\ Count(line, Append(p, x)) = Count(line, p) + (IF x = line THEN 1 ELSE 0)
          /\ Count(line, p) \in Nat /\ Count(line, s) \in Nat
        BY <2>1, <2>3, CountAppend
    <2>5. Count(line, Append(s \o p, x)) = Count(line, s) + Count(line, Append(p, x))
        BY <2>2, <2>4
    <2>6. Count(line, s \o SubSeq(t, 1, n + 1)) = Count(line, s) + Count(line, SubSeq(t, 1, n + 1))
        BY <2>1, <2>3, <2>5
    <2> QED
        BY <2>2, <2>6
<1> HIDE DEF T
<1>3. Len(t) \in T
    BY <1>0, <1>1, <1>2, UpTo
<1>4. SubSeq(t, 1, Len(t)) = t
    BY PrefixGrows
<1> QED
    BY <1>3, <1>4 DEF T

\* A line opens a table, closes one, or does neither.
LEMMA DepthAppend ==
    ASSUME NEW s \in Seq(Lines), NEW x \in Lines
    PROVE  Depth(<<>>) = 0 /\ Depth(s) \in Int /\ Depth(Append(s, x)) = Depth(s) + Turn(x)
<1>1. /\ Count(Opening, <<>>) = 0 /\ Count(Closing, <<>>) = 0
      /\ Count(Opening, s) \in Nat /\ Count(Closing, s) \in Nat
      /\ Count(Opening, Append(s, x)) = Count(Opening, s) + (IF x = Opening THEN 1 ELSE 0)
      /\ Count(Closing, Append(s, x)) = Count(Closing, s) + (IF x = Closing THEN 1 ELSE 0)
    BY CountAppend
<1>2. Opening # Closing
    BY DEF Opening, Closing
<1> QED
    BY <1>1, <1>2 DEF Depth, Turn

\* What the reader sees of a text grows with it.
LEMMA SaidAppend ==
    ASSUME NEW s \in Seq(Lines), NEW x \in Lines
    PROVE  /\ Said(<<>>) = <<>>
           /\ Said(s) \in Seq(Lines)
           /\ Said(Append(s, x)) = IF x \in {Prose, Math, Opening} THEN Append(Said(s), x) ELSE Said(s)
<1> DEFINE seen == {Prose, Math, Opening}
           one == <<x>>
<1>0. one \in Seq(Lines) /\ DOMAIN one = {1} /\ one[1] = x /\ Len(one) = 1 /\ Append(s, x) = s \o one
      /\ Append(<<>>, x) = one
    OBVIOUS
<1> HIDE DEF seen, one
<1>1. Among(s, seen) \in Seq(Lines)
    BY AmongKeeps
<1>2. Among(<<>>, seen) = <<>>
    <2>1. <<>> \in Seq(Lines) /\ ToSet(<<>>) = {}
        BY DEF ToSet
    <2>2. Among(<<>>, seen) \in Seq(Lines) /\ ToSet(Among(<<>>, seen)) = ToSet(<<>>) \cap seen
        BY <2>1, AmongKeeps
    <2> QED
        BY <2>1, <2>2, NoElements
<1>3. Among(s \o one, seen) = Among(s, seen) \o Among(one, seen)
    BY <1>0, AmongConcat
<1>4. Among(one, seen) = IF x \in seen THEN one ELSE <<>>
    <2> DEFINE places == {i \in DOMAIN one : one[i] \in seen}
               same == KeptOf(one, places)
    <2>1. 1 \in places <=> x \in seen
        BY <1>0
    <2>2. Among(one, seen) = same[1]
        BY <1>0 DEF Among, At
    <2> HIDE DEF places
    <2>3. /\ same[0] = <<>>
          /\ \A k \in 0 .. Len(one) - 1 :
                 same[k + 1] = IF k + 1 \in places THEN Append(same[k], one[k + 1]) ELSE same[k]
        BY <1>0, PrefixesStep
    <2> HIDE DEF same
    <2>4. 0 \in 0 .. Len(one) - 1 /\ 0 + 1 = 1
        BY <1>0
    <2>5. same[1] = IF 1 \in places THEN Append(<<>>, one[1]) ELSE <<>>
        BY <2>3, <2>4
    <2> QED
        BY <1>0, <2>1, <2>2, <2>5
<1>5. Among(s, seen) \o one = Append(Among(s, seen), x) /\ Among(s, seen) \o <<>> = Among(s, seen)
    BY <1>1 DEF one
<1>6. Among(Append(s, x), seen) = IF x \in seen THEN Append(Among(s, seen), x) ELSE Among(s, seen)
    BY <1>0, <1>3, <1>4, <1>5
<1> QED
    BY <1>1, <1>2, <1>6 DEF Said, seen

\* Of two texts one after the other the reader sees what each says.
LEMMA SaidConcat ==
    ASSUME NEW u \in Seq(Lines), NEW v \in Seq(Lines)
    PROVE  Said(u \o v) = Said(u) \o Said(v)
<1> DEFINE seen == {Prose, Math, Opening}
<1>1. \A w : Said(w) = Among(w, seen)
    BY DEF Said
<1> HIDE DEF seen
<1>2. Among(u \o v, seen) = Among(u, seen) \o Among(v, seen)
    BY AmongConcat
<1> QED
    BY <1>1, <1>2

\* As many ends of tables as are wanted, and nothing else.
LEMMA Ends ==
    ASSUME NEW k \in Nat
    PROVE  /\ [i \in 1 .. k |-> Closing] \in Seq(Lines)
           /\ Count(Fence, [i \in 1 .. k |-> Closing]) = 0
           /\ Count(Opening, [i \in 1 .. k |-> Closing]) = 0
           /\ Count(Closing, [i \in 1 .. k |-> Closing]) = k
           /\ Said([i \in 1 .. k |-> Closing]) = <<>>
<1> DEFINE c == [i \in 1 .. k |-> Closing]
<1>1. c \in Seq(Lines) /\ DOMAIN c = 1 .. k /\ Len(c) = k /\ \A i \in 1 .. k : c[i] = Closing
    BY DEF Lines
<1>2. Closing # Fence /\ Closing # Opening /\ Closing \notin {Prose, Math, Opening}
    BY DEF Closing, Fence, Opening, Prose, Math
<1> HIDE DEF c
<1>3. {i \in DOMAIN c : c[i] = Fence} = {} /\ {i \in DOMAIN c : c[i] = Opening} = {}
      /\ {i \in DOMAIN c : c[i] = Closing} = 1 .. k
    BY <1>1, <1>2
<1>4. Cardinality({}) = 0 /\ Cardinality(1 .. k) = k
    <2>1. Cardinality(1 .. k) = k
        BY FS_Interval
    <2> QED
        BY <2>1, FS_EmptySet
<1>5. Said(c) = <<>>
    <2> DEFINE seen == {Prose, Math, Opening}
    <2>1. Among(c, seen) \in Seq(Lines) /\ ToSet(Among(c, seen)) = ToSet(c) \cap seen
        BY <1>1, AmongKeeps
    <2>2. ToSet(c) \cap seen = {}
        BY <1>1, <1>2 DEF ToSet
    <2>3. Among(c, seen) = <<>>
        BY <2>1, <2>2, NoElements
    <2> QED
        BY <2>3 DEF Said
<1> QED
    BY <1>1, <1>3, <1>4, <1>5 DEF c, Count

-----------------------------------------------------------------------------
(* CloseTables                                                             *)

CloseStates == [out : Seq(Lines), depth : Int, lacks : Int]

\* What one line adds, and what an end that is put before it.
LEMMA CloseAtAdds ==
    ASSUME NEW acc \in CloseStates, NEW line \in Lines
    PROVE  /\ CloseAt(acc, line) \in CloseStates
           /\ \/ /\ CloseAt(acc, line).out = Append(acc.out, line)
                 /\ CloseAt(acc, line).depth = acc.depth + Turn(line)
                 /\ CloseAt(acc, line).lacks = acc.lacks
                 /\ ~(line = Empty /\ acc.depth > 0 /\ acc.lacks > 0)
              \/ /\ CloseAt(acc, line).out = Append(Append(acc.out, Closing), line)
                 /\ CloseAt(acc, line).depth = acc.depth - 1
                 /\ CloseAt(acc, line).lacks = acc.lacks - 1
                 /\ line = Empty /\ acc.depth > 0 /\ acc.lacks > 0
<1> DEFINE depth == acc.depth + Turn(line)
           ends == depth > 0 /\ acc.lacks > 0 /\ line = Empty
           o == acc.out
<1>1. o \in Seq(Lines) /\ acc.depth \in Int /\ acc.lacks \in Int /\ Turn(line) \in Int /\ Closing \in Lines
    BY DEF CloseStates, Turn, Lines
<1>2. line = Empty => Turn(line) = 0
    BY DEF Turn, Empty, Opening, Closing
<1>3. CloseAt(acc, line) = [out |-> o \o (IF ends THEN <<Closing, line>> ELSE <<line>>),
                            depth |-> IF ends THEN depth - 1 ELSE depth,
                            lacks |-> IF ends THEN acc.lacks - 1 ELSE acc.lacks]
    BY DEF CloseAt
<1>4. ends <=> (line = Empty /\ acc.depth > 0 /\ acc.lacks > 0)
    BY <1>1, <1>2
<1> HIDE DEF o
<1>5. o \o <<line>> = Append(o, line) /\ o \o <<Closing, line>> = Append(Append(o, Closing), line)
    <2>1. o \o <<line>> = Append(o, line) /\ <<Closing, line>> = <<Closing>> \o <<line>>
        BY <1>1
    <2>2. o \o (<<Closing>> \o <<line>>) = (o \o <<Closing>>) \o <<line>>
        BY <1>1
    <2>3. (o \o <<Closing>>) \o <<line>> = Append(Append(o, Closing), line)
        BY <1>1
    <2> QED
        BY <2>1, <2>2, <2>3
<1>6. CASE ends
    <2>1. CloseAt(acc, line) = [out |-> Append(Append(o, Closing), line), depth |-> depth - 1, lacks |-> acc.lacks - 1]
        BY <1>3, <1>5, <1>6
    <2>2. depth = acc.depth
        BY <1>1, <1>2, <1>6
    <2> QED
        BY <1>1, <1>4, <1>6, <2>1, <2>2 DEF CloseStates, o
<1>7. CASE ~ends
    <2>1. CloseAt(acc, line) = [out |-> Append(o, line), depth |-> depth, lacks |-> acc.lacks]
        BY <1>3, <1>5, <1>7
    <2> QED
        BY <1>1, <1>4, <1>7, <2>1 DEF CloseStates, o
<1> QED
    BY <1>6, <1>7

\* How CloseTables comes to its text, line by line.
LEMMA ClosedSteps ==
    ASSUME NEW s \in Seq(Lines)
    PROVE  \E closed \in [0 .. Len(s) -> CloseStates] :
             /\ closed[0] = [out |-> <<>>, depth |-> 0, lacks |-> Depth(s)]
             /\ \A n \in 0 .. Len(s) - 1 : closed[n + 1] = CloseAt(closed[n], s[n + 1])
             /\ CloseTables(s) = IF closed[Len(s)].lacks > 0
                                 THEN closed[Len(s)].out \o [i \in 1 .. closed[Len(s)].lacks |-> Closing] \o <<Empty>>
                                 ELSE closed[Len(s)].out
<1> DEFINE start == [out |-> <<>>, depth |-> 0, lacks |-> Depth(s)]
           Is(f) == f = [n \in 0 .. Len(s) |-> IF n = 0 THEN start ELSE CloseAt(f[n - 1], s[n])]
           goes == [p \in CloseStates \X (1 .. Len(s)) |-> CloseAt(p[1], s[p[2]])]
           closed == CHOOSE f : Is(f)
<1>1. Len(s) \in Nat /\ \A n \in 1 .. Len(s) : s[n] \in Lines
    OBVIOUS
<1>2. start \in CloseStates
    BY DepthAppend, Fence \in Lines DEF CloseStates, Lines
<1>3. \A acc \in CloseStates, n \in 1 .. Len(s) : CloseAt(acc, s[n]) \in CloseStates
    BY <1>1, CloseAtAdds
<1>4. \A acc \in CloseStates, n \in 1 .. Len(s) : goes[<<acc, n>>] = CloseAt(acc, s[n])
    OBVIOUS
<1> HIDE DEF goes, start, Is, closed
<1>5. StaysIn(goes, CloseStates, Len(s))
    BY <1>3, <1>4 DEF StaysIn
<1>6. PICK f : GoesOn(f, start, goes, Len(s), CloseStates)
    BY <1>1, <1>2, <1>5, Recursion
<1>7. \A n \in 0 .. Len(s) : n # 0 => n \in 1 .. Len(s) /\ n - 1 \in 0 .. Len(s)
    OBVIOUS
<1>8. \A n \in 0 .. Len(s) : f[n] = IF n = 0 THEN start ELSE CloseAt(f[n - 1], s[n])
    BY <1>4, <1>6, <1>7 DEF GoesOn
<1>9. Is(f)
    BY <1>6, <1>8 DEF Is, GoesOn
<1>10. CloseTables(s) = IF closed[Len(s)].lacks > 0
                        THEN closed[Len(s)].out \o [i \in 1 .. closed[Len(s)].lacks |-> Closing] \o <<Empty>>
                        ELSE closed[Len(s)].out
    BY DEF CloseTables, start, closed, Is
<1>11. Is(closed)
    BY <1>9 DEF closed
<1>12. \A n \in 0 .. Len(s) : closed[n] = IF n = 0 THEN start ELSE CloseAt(closed[n - 1], s[n])
    BY <1>11 DEF Is
<1>13. closed[0] = start
    BY <1>1, <1>12
<1>14. \A n \in 0 .. Len(s) - 1 : n + 1 \in 0 .. Len(s) /\ n + 1 # 0 /\ (n + 1) - 1 = n /\ n + 1 \in 1 .. Len(s)
    OBVIOUS
<1>15. \A n \in 0 .. Len(s) - 1 : closed[n + 1] = CloseAt(closed[n], s[n + 1])
    BY <1>12, <1>14
<1>16. \A n \in 0 .. Len(s) : closed[n] \in CloseStates
    <2> DEFINE T == {n \in 0 .. Len(s) : closed[n] \in CloseStates}
    <2>1. 0 \in T
        BY <1>1, <1>2, <1>13
    <2>2. \A n \in 0 .. Len(s) - 1 : n \in T => n + 1 \in T
        BY <1>3, <1>14, <1>15
    <2> HIDE DEF T
    <2>3. \A n \in 0 .. Len(s) : n \in T
        BY <1>1, <2>1, <2>2, UpTo
    <2> QED
        BY <2>3 DEF T
<1>17. closed \in [0 .. Len(s) -> CloseStates]
    BY <1>11, <1>16 DEF Is
<1> QED
    BY <1>10, <1>13, <1>15, <1>17 DEF start

\* A text with the fences of another, of which the reader sees the same.
Copies(o, p) == o \in Seq(Lines) /\ Count(Fence, o) = Count(Fence, p) /\ Said(o) = Said(p)

\* A line that both texts get, or an end that one gets, changes nothing of that.
LEMMA CopiesGrow ==
    ASSUME NEW o, NEW p \in Seq(Lines), Copies(o, p), NEW x \in Lines
    PROVE  Copies(Append(o, x), Append(p, x)) /\ Copies(Append(o, Closing), p) /\ Append(o, Closing) \in Seq(Lines)
<1>1. o \in Seq(Lines) /\ Closing \in Lines /\ Closing # Fence /\ Closing \notin {Prose, Math, Opening}
    BY DEF Copies, Lines, Closing, Fence, Prose, Math, Opening
<1>2. /\ Count(Fence, Append(o, x)) = Count(Fence, o) + (IF x = Fence THEN 1 ELSE 0)
      /\ Count(Fence, Append(p, x)) = Count(Fence, p) + (IF x = Fence THEN 1 ELSE 0)
      /\ Count(Fence, Append(o, Closing)) = Count(Fence, o) + (IF Closing = Fence THEN 1 ELSE 0)
      /\ Count(Fence, o) \in Nat
    BY <1>1, CountAppend
<1>3. /\ Said(Append(o, x)) = IF x \in {Prose, Math, Opening} THEN Append(Said(o), x) ELSE Said(o)
      /\ Said(Append(p, x)) = IF x \in {Prose, Math, Opening} THEN Append(Said(p), x) ELSE Said(p)
      /\ Said(Append(o, Closing)) = Said(o)
    BY <1>1, SaidAppend
<1>4. Append(o, x) \in Seq(Lines) /\ Append(o, Closing) \in Seq(Lines)
    BY <1>1
<1>5. Count(Fence, o) = Count(Fence, p) /\ Said(o) = Said(p)
    BY DEF Copies
<1>6. Count(Fence, Append(o, x)) = Count(Fence, Append(p, x)) /\ Count(Fence, Append(o, Closing)) = Count(Fence, p)
    BY <1>1, <1>2, <1>5
<1>7. Said(Append(o, x)) = Said(Append(p, x)) /\ Said(Append(o, Closing)) = Said(p)
    BY <1>3, <1>5
<1> QED
    BY <1>4, <1>6, <1>7 DEF Copies

\* What CloseTables has done before a line: the text before it, with an end for
\* each table that was lacking one and is not any more.
ClosedSoFar(acc, p, s) ==
    /\ Copies(acc.out, p)
    /\ Depth(acc.out) = acc.depth
    /\ acc.depth - acc.lacks = Depth(p) - Depth(s)
    /\ Depth(s) >= 0 => acc.lacks >= 0

\* A line more keeps that.
LEMMA ClosedSoFarGrows ==
    ASSUME NEW s \in Seq(Lines), NEW p \in Seq(Lines), NEW acc \in CloseStates, NEW x \in Lines, ClosedSoFar(acc, p, s)
    PROVE  ClosedSoFar(CloseAt(acc, x), Append(p, x), s)
<1> DEFINE o == acc.out
           new == CloseAt(acc, x)
<1>0. o \in Seq(Lines) /\ acc.depth \in Int /\ acc.lacks \in Int /\ Turn(x) \in Int /\ Closing \in Lines
      /\ Turn(Closing) = -1 /\ (x = Empty => Turn(x) = 0)
    BY DEF CloseStates, Turn, Lines, Opening, Closing, Empty
<1>1. Copies(o, p) /\ Depth(o) = acc.depth /\ acc.depth - acc.lacks = Depth(p) - Depth(s)
      /\ (Depth(s) >= 0 => acc.lacks >= 0)
    BY DEF ClosedSoFar
<1> HIDE DEF o
<1>2. /\ Copies(Append(o, x), Append(p, x)) /\ Copies(Append(o, Closing), p) /\ Append(o, Closing) \in Seq(Lines)
      /\ Depth(Append(p, x)) = Depth(p) + Turn(x) /\ Depth(Append(o, x)) = Depth(o) + Turn(x)
      /\ Depth(p) \in Int /\ Depth(s) \in Int
    BY <1>0, <1>1, CopiesGrow, DepthAppend
<1>3. Copies(Append(Append(o, Closing), x), Append(p, x))
    BY <1>2, CopiesGrow
<1>4. Depth(Append(Append(o, Closing), x)) = Depth(o) - 1 + Turn(x)
    BY <1>0, <1>2, DepthAppend
<1>5. \/ /\ new.out = Append(o, x) /\ new.depth = acc.depth + Turn(x) /\ new.lacks = acc.lacks
      \/ /\ new.out = Append(Append(o, Closing), x) /\ new.depth = acc.depth - 1 /\ new.lacks = acc.lacks - 1
         /\ x = Empty /\ acc.lacks > 0
    BY CloseAtAdds DEF o
<1> HIDE DEF new
<1>6. CASE new.out = Append(o, x) /\ new.depth = acc.depth + Turn(x) /\ new.lacks = acc.lacks
    <2>1. Copies(new.out, Append(p, x)) /\ Depth(new.out) = new.depth
        BY <1>1, <1>2, <1>6
    <2>2. new.depth - new.lacks = Depth(Append(p, x)) - Depth(s)
        <3>1. new.depth - new.lacks = acc.depth - acc.lacks + Turn(x)
            BY <1>0, <1>6
        <3>2. Depth(Append(p, x)) - Depth(s) = Depth(p) - Depth(s) + Turn(x)
            BY <1>0, <1>2
        <3> QED
            BY <1>1, <3>1, <3>2
    <2>3. Depth(s) >= 0 => new.lacks >= 0
        BY <1>1, <1>6
    <2> QED
        BY <2>1, <2>2, <2>3 DEF ClosedSoFar, new
<1>7. CASE /\ new.out = Append(Append(o, Closing), x) /\ new.depth = acc.depth - 1 /\ new.lacks = acc.lacks - 1
           /\ x = Empty /\ acc.lacks > 0
    <2>1. Copies(new.out, Append(p, x)) /\ Depth(new.out) = new.depth
        BY <1>0, <1>1, <1>3, <1>4, <1>7
    <2>2. Depth(Append(p, x)) = Depth(p)
        BY <1>0, <1>2, <1>7
    <2>3. new.depth - new.lacks = Depth(Append(p, x)) - Depth(s)
        <3>1. new.depth - new.lacks = acc.depth - acc.lacks
            BY <1>0, <1>7
        <3> QED
            BY <1>1, <2>2, <3>1
    <2>4. new.lacks >= 0
        BY <1>0, <1>7
    <2> QED
        BY <2>1, <2>3, <2>4 DEF ClosedSoFar, new
<1> QED
    BY <1>5, <1>6, <1>7

\* It adds as many ends as are lacking, and no more than that.
LEMMA ClosedTables ==
    ASSUME NEW s \in Seq(Lines)
    PROVE  /\ Copies(CloseTables(s), s)
           /\ Depth(CloseTables(s)) <= 0
           /\ Depth(s) >= 0 => Depth(CloseTables(s)) = 0
<1>1. PICK closed \in [0 .. Len(s) -> CloseStates] :
             /\ closed[0] = [out |-> <<>>, depth |-> 0, lacks |-> Depth(s)]
             /\ \A n \in 0 .. Len(s) - 1 : closed[n + 1] = CloseAt(closed[n], s[n + 1])
             /\ CloseTables(s) = IF closed[Len(s)].lacks > 0
                                 THEN closed[Len(s)].out \o [i \in 1 .. closed[Len(s)].lacks |-> Closing] \o <<Empty>>
                                 ELSE closed[Len(s)].out
    BY ClosedSteps
<1>2. Len(s) \in Nat /\ Len(s) \in 0 .. Len(s)
    OBVIOUS
<1> DEFINE T == {n \in 0 .. Len(s) : ClosedSoFar(closed[n], SubSeq(s, 1, n), s)}
<1>3. 0 \in T
    <2>1. SubSeq(s, 1, 0) = <<>> /\ Depth(<<>>) = 0 /\ Depth(s) \in Int /\ <<>> \in Seq(Lines)
        BY DepthAppend, PrefixGrows, Fence \in Lines DEF Lines
    <2>2. closed[0].out = <<>> /\ closed[0].depth = 0 /\ closed[0].lacks = Depth(s)
        BY <1>1
    <2>3. ClosedSoFar(closed[0], <<>>, s)
        BY <2>1, <2>2 DEF ClosedSoFar, Copies
    <2> QED
        BY <1>2, <2>1, <2>3
<1>4. ASSUME NEW n \in 0 .. Len(s) - 1, n \in T
      PROVE  n + 1 \in T
    <2> DEFINE p == SubSeq(s, 1, n)  x == s[n + 1]
    <2>1. p \in Seq(Lines) /\ x \in Lines /\ SubSeq(s, 1, n + 1) = Append(p, x)
        BY PrefixGrows
    <2>2. ClosedSoFar(closed[n], p, s) /\ closed[n] \in CloseStates /\ closed[n + 1] = CloseAt(closed[n], x)
        BY <1>1, <1>4
    <2>3. n + 1 \in 0 .. Len(s)
        BY <1>4
    <2> HIDE DEF p, x
    <2>4. ClosedSoFar(closed[n + 1], SubSeq(s, 1, n + 1), s)
        BY <2>1, <2>2, ClosedSoFarGrows
    <2> QED
        BY <2>3, <2>4
<1> HIDE DEF T
<1>5. Len(s) \in T
    BY <1>2, <1>3, <1>4, UpTo
<1> DEFINE all == closed[Len(s)]
           o == all.out
           k == all.lacks
<1>6. all \in CloseStates /\ SubSeq(s, 1, Len(s)) = s
    BY <1>1, <1>2, PrefixGrows
<1>7. o \in Seq(Lines) /\ all.depth \in Int /\ k \in Int /\ Depth(s) \in Int
    BY <1>6, DepthAppend, Fence \in Lines DEF CloseStates, Lines
<1>8. Copies(o, s) /\ Depth(o) = k /\ (Depth(s) >= 0 => k >= 0)
    BY <1>5, <1>6, <1>7 DEF T, ClosedSoFar
<1>9. CloseTables(s) = IF k > 0 THEN o \o [i \in 1 .. k |-> Closing] \o <<Empty>> ELSE o
    BY <1>1
<1> HIDE DEF o, k
<1>10. CASE k > 0
    <2> DEFINE c == [i \in 1 .. k |-> Closing]
    <2>0. k \in Nat
        BY <1>7, <1>10
    <2>1. c \in Seq(Lines) /\ Count(Fence, c) = 0 /\ Count(Opening, c) = 0 /\ Count(Closing, c) = k /\ Said(c) = <<>>
        BY <2>0, Ends
    <2> HIDE DEF c
    <2> DEFINE u == o \o c
    <2>2. CloseTables(s) = u \o <<Empty>> /\ u \in Seq(Lines) /\ Empty \in Lines
        BY <1>7, <1>9, <1>10, <2>1 DEF c, Lines
    <2>3. /\ Count(Fence, u) = Count(Fence, o) + Count(Fence, c)
          /\ Count(Opening, u) = Count(Opening, o) + Count(Opening, c)
          /\ Count(Closing, u) = Count(Closing, o) + Count(Closing, c)
        BY <1>7, <2>1, CountConcat
    <2>4. Said(u) = Said(o)
        <3>1. Said(u) = Said(o) \o Said(c)
            BY <1>7, <2>1, SaidConcat
        <3>2. Said(o) \in Seq(Lines)
            BY <1>7, AmongKeeps DEF Said
        <3> QED
            BY <2>1, <3>1, <3>2
    <2> HIDE DEF u
    <2>5. u \o <<Empty>> = Append(u, Empty)
        BY <2>2
    <2>6. /\ Count(Fence, o) \in Nat /\ Count(Opening, o) \in Nat /\ Count(Closing, o) \in Nat
        BY <1>7, CountAppend, Fence \in Lines DEF Lines
    <2>7. Count(Fence, u) = Count(Fence, o) /\ Depth(u) = Depth(o) - k
        BY <1>7, <2>1, <2>3, <2>6 DEF Depth
    <2>8. Empty # Fence /\ Turn(Empty) = 0 /\ Empty \notin {Prose, Math, Opening}
        BY DEF Empty, Fence, Turn, Opening, Closing, Prose, Math
    <2>9. /\ Count(Fence, Append(u, Empty)) = Count(Fence, u) + 0
          /\ Depth(Append(u, Empty)) = Depth(u) + 0
          /\ Said(Append(u, Empty)) = Said(u)
        BY <2>2, <2>8, CountAppend, DepthAppend, SaidAppend
    <2>10. Depth(Append(u, Empty)) = 0 /\ Count(Fence, Append(u, Empty)) = Count(Fence, o) /\ Said(Append(u, Empty)) = Said(o)
        BY <1>7, <1>8, <2>4, <2>6, <2>7, <2>9
    <2>11. Append(u, Empty) \in Seq(Lines)
        BY <2>2
    <2>12. Copies(CloseTables(s), s) /\ Depth(CloseTables(s)) = 0
        BY <1>8, <2>2, <2>5, <2>10, <2>11 DEF Copies
    <2> QED
        BY <2>12
<1>11. CASE ~(k > 0)
    <2>1. CloseTables(s) = o
        BY <1>9, <1>11
    <2> QED
        BY <1>7, <1>8, <1>11, <2>1
<1> QED
    BY <1>10, <1>11

\* Whether a table is open after one more line.
LEMMA InTableStep ==
    ASSUME NEW s \in Seq(Lines), NEW n \in 0 .. Len(s) - 1
    PROVE  /\ ~InTable(s, 1)
           /\ InTable(s, n + 2) <=> (s[n + 1] = Opening \/ (InTable(s, n + 1) /\ s[n + 1] \in {Prose, Math}))
<1>1. ~InTable(s, 1)
    BY DEF InTable
<1>2. n \in Nat /\ (n + 2) - 1 = n + 1 /\ (n + 1) - 1 = n
    OBVIOUS
<1>3. InTable(s, n + 2) <=> \E i \in 1 .. n + 1 : s[i] = Opening /\ \A j \in i + 1 .. n + 1 : s[j] \in {Prose, Math}
    BY <1>2 DEF InTable
<1>4. InTable(s, n + 1) <=> \E i \in 1 .. n : s[i] = Opening /\ \A j \in i + 1 .. n : s[j] \in {Prose, Math}
    BY <1>2 DEF InTable
<1>5. ASSUME InTable(s, n + 2), s[n + 1] # Opening
      PROVE  InTable(s, n + 1) /\ s[n + 1] \in {Prose, Math}
    <2>1. PICK i \in 1 .. n + 1 : s[i] = Opening /\ \A j \in i + 1 .. n + 1 : s[j] \in {Prose, Math}
        BY <1>3, <1>5
    <2>2. i # n + 1 /\ i \in 1 .. n /\ n + 1 \in i + 1 .. n + 1
        BY <1>2, <1>5, <2>1
    <2>3. \A j \in i + 1 .. n : j \in i + 1 .. n + 1
        BY <1>2, <2>2
    <2> QED
        BY <1>4, <2>1, <2>2, <2>3
<1>6. ASSUME s[n + 1] = Opening
      PROVE  InTable(s, n + 2)
    <2>1. n + 1 \in 1 .. n + 1 /\ \A j \in (n + 1) + 1 .. n + 1 : FALSE
        BY <1>2
    <2> QED
        BY <1>3, <1>6, <2>1
<1>7. ASSUME InTable(s, n + 1), s[n + 1] \in {Prose, Math}
      PROVE  InTable(s, n + 2)
    <2>1. PICK i \in 1 .. n : s[i] = Opening /\ \A j \in i + 1 .. n : s[j] \in {Prose, Math}
        BY <1>4, <1>7
    <2>2. i \in 1 .. n + 1 /\ \A j \in i + 1 .. n + 1 : j \in i + 1 .. n \/ j = n + 1
        BY <1>2
    <2>3. \A j \in i + 1 .. n + 1 : s[j] \in {Prose, Math}
        BY <1>7, <2>1, <2>2
    <2> QED
        BY <1>3, <2>1, <2>2, <2>3
<1> QED
    BY <1>1, <1>5, <1>6, <1>7

\* From where no table is open, a plain text has as many begins as ends.
LEMMA EndsComeLater ==
    ASSUME NEW s \in Seq(Lines), Plain(s), NEW n \in 0 .. Len(s), ~InTable(s, n + 1)
    PROVE  Depth(s) >= Depth(SubSeq(s, 1, n))
<1> DEFINE d(m) == Depth(SubSeq(s, 1, m))
           N == Len(s) - n
           T == {k \in 0 .. N : d(n + k) >= d(n) + (IF InTable(s, n + k + 1) THEN 1 ELSE 0)}
<1>0. Len(s) \in Nat /\ n \in Nat /\ N \in Nat
    OBVIOUS
<1>1. \A m \in 0 .. Len(s) : d(m) \in Int
    BY PrefixGrows, DepthAppend, Fence \in Lines DEF Lines
<1>2. \A m \in 0 .. Len(s) - 1 : s[m + 1] \in Lines /\ d(m + 1) = d(m) + Turn(s[m + 1])
    <2>1. TAKE m \in 0 .. Len(s) - 1
    <2> DEFINE p == SubSeq(s, 1, m)  x == s[m + 1]
    <2>2. p \in Seq(Lines) /\ x \in Lines /\ SubSeq(s, 1, m + 1) = Append(p, x)
        BY PrefixGrows
    <2>3. Depth(Append(p, x)) = Depth(p) + Turn(x)
        BY <2>2, DepthAppend
    <2> QED
        BY <2>2, <2>3
<1> HIDE DEF d
<1>3. 0 \in T
    <2>1. n + 0 = n /\ 0 \in 0 .. N
        BY <1>0
    <2>2. d(n) >= d(n) + 0
        BY <1>1
    <2> QED
        BY <2>1, <2>2
<1>4. ASSUME NEW k \in 0 .. N - 1, k \in T
      PROVE  k + 1 \in T
    <2> DEFINE m == n + k  x == s[m + 1]
    <2>1. m \in 0 .. Len(s) - 1 /\ m \in 0 .. Len(s) /\ m + 1 \in 0 .. Len(s) /\ k + 1 \in 0 .. N
          /\ m + 1 \in DOMAIN s /\ n + (k + 1) = m + 1 /\ n + (k + 1) + 1 = m + 2
        BY <1>0
    <2>2. d(m) >= d(n) + (IF InTable(s, m + 1) THEN 1 ELSE 0)
        BY <1>4
    <2> HIDE DEF m
    <2>3. d(m + 1) = d(m) + Turn(x) /\ d(m) \in Int /\ d(n) \in Int /\ d(m + 1) \in Int /\ x \in Lines
        BY <1>0, <1>1, <1>2, <2>1
    <2>4. InTable(s, m + 2) <=> (x = Opening \/ (InTable(s, m + 1) /\ x \in {Prose, Math}))
        BY <2>1, InTableStep
    <2>5. (x = Closing => InTable(s, m + 1)) /\ (x \in {Opening, Fence} => ~InTable(s, m + 1))
        BY <2>1 DEF Plain
    <2> HIDE DEF x
    <2>6. Turn(x) = (IF x = Opening THEN 1 ELSE IF x = Closing THEN -1 ELSE 0) /\ Opening # Closing
          /\ Closing \notin {Prose, Math} /\ Opening \notin {Prose, Math}
        BY DEF Turn, Opening, Closing, Prose, Math
    <2>7. d(m + 1) >= d(n) + (IF InTable(s, m + 2) THEN 1 ELSE 0)
        <3>1. CASE x = Opening
            BY <2>2, <2>3, <2>5, <2>6, <3>1
        <3>2. CASE x = Closing
            BY <2>2, <2>3, <2>4, <2>5, <2>6, <3>2
        <3>3. CASE x # Opening /\ x # Closing
            BY <2>2, <2>3, <2>4, <2>6, <3>3
        <3> QED
            BY <3>1, <3>2, <3>3
    <2> QED
        BY <2>1, <2>7
<1> HIDE DEF T
<1>5. N \in T
    <2> HIDE DEF N
    <2>1. \A k \in 0 .. N : k \in T
        BY <1>0, <1>3, <1>4, UpTo
    <2> QED
        BY <1>0, <2>1
<1>6. n + N = Len(s) /\ d(Len(s)) = Depth(s) /\ Len(s) \in 0 .. Len(s)
    <2>1. SubSeq(s, 1, Len(s)) = s
        BY PrefixGrows
    <2>2. d(Len(s)) = Depth(s)
        BY <2>1 DEF d
    <2> QED
        BY <1>0, <2>2
<1>7. d(Len(s)) >= d(n) + (IF InTable(s, Len(s) + 1) THEN 1 ELSE 0)
    BY <1>5, <1>6 DEF T
<1>8. d(Len(s)) >= d(n)
    BY <1>0, <1>1, <1>6, <1>7
<1> QED
    BY <1>6, <1>8 DEF d

\* What may come next inside a table, and outside.
MayFollow(depth, line) == IF depth = 0 THEN line # Closing ELSE line \in {Prose, Math, Closing}

\* Tables stand one after the other, with nothing but text in them.
Tidy(s) ==
    \A n \in 0 .. Len(s) :
        /\ Depth(SubSeq(s, 1, n)) \in {0, 1}
        /\ n < Len(s) => MayFollow(Depth(SubSeq(s, 1, n)), s[n + 1])

\* A line that may follow keeps a text tidy.
LEMMA TidyAppend ==
    ASSUME NEW s \in Seq(Lines), Tidy(s), NEW x \in Lines, MayFollow(Depth(s), x)
    PROVE  Tidy(Append(s, x)) /\ Depth(s) \in {0, 1} /\ Depth(Append(s, x)) \in {0, 1}
<1> DEFINE u == Append(s, x)  N == Len(s)
<1>1. u \in Seq(Lines) /\ Len(u) = N + 1 /\ N \in Nat /\ u[N + 1] = x /\ \A i \in 1 .. N : u[i] = s[i]
    OBVIOUS
<1>2. SubSeq(u, 1, N + 1) = u
    BY <1>1, PrefixGrows
<1>3. \A n \in 0 .. N : SubSeq(u, 1, n) = SubSeq(s, 1, n)
    <2>1. TAKE n \in 0 .. N
    <2> DEFINE v == SubSeq(u, 1, n)  w == SubSeq(s, 1, n)
    <2>2. v \in Seq(Lines) /\ Len(v) = n /\ \A i \in 1 .. n : v[i] = u[i]
        BY <1>1
    <2>3. w \in Seq(Lines) /\ Len(w) = n /\ \A i \in 1 .. n : w[i] = s[i]
        BY <1>1
    <2> HIDE DEF v, w
    <2>4. v = w
        BY <1>1, <2>2, <2>3, SeqEqual
    <2> QED
        BY <2>4 DEF v, w
<1>4. SubSeq(s, 1, N) = s
    BY PrefixGrows
<1>5. Depth(s) \in {0, 1}
    <2>1. N \in 0 .. Len(s)
        BY <1>1
    <2>2. Depth(SubSeq(s, 1, N)) \in {0, 1}
        BY <2>1 DEF Tidy
    <2> QED
        BY <1>4, <2>2
<1>6. Depth(u) = Depth(s) + Turn(x)
    BY DepthAppend
<1>7. Depth(u) \in {0, 1}
    BY <1>5, <1>6 DEF MayFollow, Turn, Opening, Closing, Prose, Math
<1> HIDE DEF u, N
<1>8. ASSUME NEW n \in 0 .. N + 1
      PROVE  Depth(SubSeq(u, 1, n)) \in {0, 1} /\ (n < N + 1 => MayFollow(Depth(SubSeq(u, 1, n)), u[n + 1]))
    <2>1. CASE n = N + 1
        <3>1. SubSeq(u, 1, n) = u /\ ~(n < N + 1)
            BY <1>1, <1>2, <2>1
        <3> QED
            BY <1>7, <3>1
    <2>2. CASE n = N
        <3>1. SubSeq(u, 1, n) = s /\ u[n + 1] = x
            BY <1>1, <1>3, <1>4, <2>2
        <3> QED
            BY <1>5, <3>1
    <2>3. CASE n < N
        <3>1. n \in 0 .. N /\ n + 1 \in 1 .. N
            BY <1>1, <2>3
        <3>2. SubSeq(u, 1, n) = SubSeq(s, 1, n) /\ u[n + 1] = s[n + 1]
            BY <1>1, <1>3, <3>1
        <3>3. Depth(SubSeq(s, 1, n)) \in {0, 1} /\ MayFollow(Depth(SubSeq(s, 1, n)), s[n + 1])
            BY <2>3, <3>1 DEF Tidy, N
        <3> QED
            BY <3>2, <3>3
    <2> QED
        BY <1>1, <2>1, <2>2, <2>3
<1>9. Tidy(u)
    BY <1>1, <1>8 DEF Tidy
<1> QED
    BY <1>5, <1>7, <1>9 DEF u

\* In a plain text whose floats are removed an end is put in exactly where the
\* text leaves a table.
LEMMA PlainCloses ==
    ASSUME NEW s \in Seq(Lines), Plain(s), \A i \in DOMAIN s : s[i] # Float,
           NEW n \in 0 .. Len(s) - 1, NEW acc \in CloseStates,
           ClosedSoFar(acc, SubSeq(s, 1, n), s), Tidy(acc.out),
           acc.depth = IF InTable(s, n + 1) THEN 1 ELSE 0
    PROVE  /\ Tidy(CloseAt(acc, s[n + 1]).out)
           /\ CloseAt(acc, s[n + 1]).depth = IF InTable(s, n + 2) THEN 1 ELSE 0
<1> DEFINE o == acc.out
           x == s[n + 1]
           p == SubSeq(s, 1, n)
           new == CloseAt(acc, x)
<1>0. n + 1 \in DOMAIN s /\ n + 1 \in 0 .. Len(s) /\ (n + 1) + 1 = n + 2
    OBVIOUS
<1>1. x \in Lines /\ x # Float /\ p \in Seq(Lines) /\ SubSeq(s, 1, n + 1) = Append(p, x)
    BY <1>0, PrefixGrows
<1>2. (x \in {Opening, Fence} => ~InTable(s, n + 1)) /\ (x = Closing => InTable(s, n + 1))
    BY <1>0 DEF Plain
<1>3. /\ InTable(s, n + 2) <=> (x = Opening \/ (InTable(s, n + 1) /\ x \in {Prose, Math}))
    BY InTableStep
<1>4. o \in Seq(Lines) /\ acc.depth \in Int /\ acc.lacks \in Int /\ Depth(o) = acc.depth
      /\ acc.depth - acc.lacks = Depth(p) - Depth(s) /\ Depth(s) \in Int /\ Depth(p) \in Int
    BY <1>1, DepthAppend DEF CloseStates, ClosedSoFar
<1>5. \/ /\ new.out = Append(o, x) /\ new.depth = acc.depth + Turn(x)
         /\ ~(x = Empty /\ acc.depth > 0 /\ acc.lacks > 0)
      \/ /\ new.out = Append(Append(o, Closing), x) /\ new.depth = acc.depth - 1
         /\ x = Empty /\ acc.depth > 0 /\ acc.lacks > 0
    BY <1>1, CloseAtAdds
<1>6. ASSUME x = Empty
      PROVE  acc.depth <= acc.lacks
    <2>1. ~InTable(s, n + 2)
        BY <1>3, <1>6 DEF Empty, Opening, Prose, Math
    <2>2. Depth(s) >= Depth(SubSeq(s, 1, n + 1))
        BY <1>0, <2>1, EndsComeLater
    <2>3. Depth(Append(p, x)) = Depth(p)
        <3>1. Turn(x) = 0
            BY <1>6 DEF Turn, Empty, Opening, Closing
        <3>2. Depth(Append(p, x)) = Depth(p) + Turn(x)
            BY <1>1, DepthAppend
        <3> QED
            BY <1>4, <3>1, <3>2
    <2>4. Depth(s) >= Depth(p)
        BY <1>1, <2>2, <2>3
    <2> QED
        BY <1>4, <2>4
<1> HIDE DEF o, x, p, new
<1>7. acc.depth = (IF InTable(s, n + 1) THEN 1 ELSE 0)
    OBVIOUS
<1>8. /\ Fence # Opening /\ Fence # Closing /\ Fence # Empty /\ Opening # Closing /\ Opening # Empty /\ Closing # Empty
      /\ Fence \notin {Prose, Math} /\ Opening \notin {Prose, Math} /\ Closing \notin {Prose, Math}
      /\ Empty \notin {Prose, Math}
    BY DEF Fence, Opening, Closing, Empty, Prose, Math
<1>9. x \in {Fence, Opening, Closing, Empty, Prose, Math}
    BY <1>1 DEF Lines
<1>10. Turn(x) = IF x = Opening THEN 1 ELSE IF x = Closing THEN -1 ELSE 0
    BY DEF Turn
<1>11. CASE InTable(s, n + 1) /\ x = Empty
    <2>1. acc.depth = 1 /\ acc.lacks > 0
        BY <1>4, <1>6, <1>7, <1>11
    <2>2. new.out = Append(Append(o, Closing), x) /\ new.depth = 0
        BY <1>5, <1>11, <2>1
    <2>3. MayFollow(Depth(o), Closing) /\ Closing \in Lines
        BY <1>4, <2>1 DEF MayFollow, Lines
    <2>4. Tidy(o)
        BY DEF o
    <2>5. Tidy(Append(o, Closing)) /\ Depth(Append(o, Closing)) = Depth(o) + Turn(Closing)
        BY <1>4, <2>3, <2>4, TidyAppend, DepthAppend
    <2>6. Depth(Append(o, Closing)) = 0
        BY <1>4, <2>1, <2>5 DEF Turn, Opening, Closing
    <2>7. MayFollow(Depth(Append(o, Closing)), x) /\ Append(o, Closing) \in Seq(Lines)
        BY <1>4, <1>8, <1>11, <2>3, <2>6 DEF MayFollow
    <2>8. Tidy(new.out)
        BY <1>1, <2>2, <2>5, <2>7, TidyAppend
    <2>9. ~InTable(s, n + 2)
        BY <1>3, <1>8, <1>11
    <2> QED
        BY <2>2, <2>8, <2>9 DEF new, x
<1>12. CASE ~(InTable(s, n + 1) /\ x = Empty)
    <2>1. new.out = Append(o, x) /\ new.depth = acc.depth + Turn(x)
        BY <1>5, <1>7, <1>12
    <2>2. MayFollow(Depth(o), x)
        BY <1>2, <1>4, <1>7, <1>8, <1>9, <1>12 DEF MayFollow
    <2>3. Tidy(o)
        BY DEF o
    <2>4. Tidy(new.out)
        BY <1>1, <1>4, <2>1, <2>2, <2>3, TidyAppend
    <2>5. new.depth = IF InTable(s, n + 2) THEN 1 ELSE 0
        BY <1>2, <1>3, <1>7, <1>8, <1>9, <1>10, <1>12, <2>1
    <2> QED
        BY <2>4, <2>5 DEF new, x
<1> QED
    BY <1>11, <1>12

\* In a plain text every table is closed where it belongs.
LEMMA PlainTablesClosed ==
    ASSUME NEW s \in Seq(Lines), Plain(s), \A i \in DOMAIN s : s[i] # Float
    PROVE  Tidy(CloseTables(s)) /\ Depth(CloseTables(s)) = 0
<1>1. PICK closed \in [0 .. Len(s) -> CloseStates] :
             /\ closed[0] = [out |-> <<>>, depth |-> 0, lacks |-> Depth(s)]
             /\ \A n \in 0 .. Len(s) - 1 : closed[n + 1] = CloseAt(closed[n], s[n + 1])
             /\ CloseTables(s) = IF closed[Len(s)].lacks > 0
                                 THEN closed[Len(s)].out \o [i \in 1 .. closed[Len(s)].lacks |-> Closing] \o <<Empty>>
                                 ELSE closed[Len(s)].out
    BY ClosedSteps
<1>2. Len(s) \in Nat /\ Len(s) \in 0 .. Len(s) /\ 0 \in 0 .. Len(s)
    OBVIOUS
<1> DEFINE Good(n) == /\ ClosedSoFar(closed[n], SubSeq(s, 1, n), s)
                      /\ Tidy(closed[n].out)
                      /\ closed[n].depth = IF InTable(s, n + 1) THEN 1 ELSE 0
           T == {n \in 0 .. Len(s) : Good(n)}
<1>3. 0 \in T
    <2>1. SubSeq(s, 1, 0) = <<>> /\ Depth(<<>>) = 0 /\ Depth(s) \in Int /\ <<>> \in Seq(Lines)
        BY DepthAppend, PrefixGrows, Fence \in Lines DEF Lines
    <2>2. closed[0].out = <<>> /\ closed[0].depth = 0 /\ closed[0].lacks = Depth(s)
        BY <1>1
    <2>3. ClosedSoFar(closed[0], SubSeq(s, 1, 0), s)
        BY <2>1, <2>2 DEF ClosedSoFar, Copies
    <2>4. Tidy(<<>>)
        <3>1. \A n \in 0 .. Len(<<>>) : n = 0 /\ ~(n < Len(<<>>)) /\ SubSeq(<<>>, 1, n) = <<>>
            OBVIOUS
        <3> QED
            BY <2>1, <3>1 DEF Tidy
    <2>5. ~InTable(s, 0 + 1)
        <3>1. \A i \in 1 .. (0 + 1) - 1 : FALSE
            OBVIOUS
        <3> QED
            BY <3>1 DEF InTable
    <2> QED
        BY <1>2, <2>2, <2>3, <2>4, <2>5
<1>4. ASSUME NEW n \in 0 .. Len(s) - 1, n \in T
      PROVE  n + 1 \in T
    <2> DEFINE p == SubSeq(s, 1, n)  x == s[n + 1]
    <2>1. p \in Seq(Lines) /\ x \in Lines /\ SubSeq(s, 1, n + 1) = Append(p, x)
        BY PrefixGrows
    <2>2. Good(n) /\ closed[n] \in CloseStates /\ closed[n + 1] = CloseAt(closed[n], x)
        BY <1>1, <1>4
    <2>3. n + 1 \in 0 .. Len(s) /\ (n + 1) + 1 = n + 2
        BY <1>4
    <2>4. ClosedSoFar(closed[n + 1], SubSeq(s, 1, n + 1), s)
        BY <2>1, <2>2, ClosedSoFarGrows
    <2>5. Tidy(closed[n + 1].out) /\ closed[n + 1].depth = IF InTable(s, n + 2) THEN 1 ELSE 0
        BY <2>2, PlainCloses
    <2> QED
        BY <2>3, <2>4, <2>5
<1>5. ~InTable(s, 0 + 1) /\ SubSeq(s, 1, 0) = <<>> /\ Depth(<<>>) = 0
    <2>1. \A i \in 1 .. (0 + 1) - 1 : FALSE
        OBVIOUS
    <2> QED
        BY <2>1, PrefixGrows, DepthAppend, Fence \in Lines DEF InTable, Lines
<1>6. Depth(s) >= 0
    BY <1>2, <1>5, EndsComeLater
<1>7. Depth(CloseTables(s)) = 0
    BY <1>6, ClosedTables
<1> DEFINE all == closed[Len(s)]
           o == all.out
           k == all.lacks
<1>8. Good(Len(s))
    <2> HIDE DEF T
    <2>1. Len(s) \in T
        BY <1>2, <1>3, <1>4, UpTo
    <2> QED
        BY <2>1 DEF T
<1>9. all \in CloseStates /\ SubSeq(s, 1, Len(s)) = s
    BY <1>1, <1>2, PrefixGrows
<1>10. o \in Seq(Lines) /\ all.depth \in Int /\ k \in Int /\ Depth(s) \in Int
    BY <1>9, DepthAppend, Fence \in Lines DEF CloseStates, Lines
<1>11. Tidy(o) /\ Depth(o) = k /\ k \in {0, 1}
    BY <1>8, <1>9, <1>10 DEF ClosedSoFar
<1>12. CloseTables(s) = IF k > 0 THEN o \o [i \in 1 .. k |-> Closing] \o <<Empty>> ELSE o
    BY <1>1
<1> HIDE DEF o, k
<1>13. CASE k = 1
    <2>1. CloseTables(s) = o \o [i \in 1 .. 1 |-> Closing] \o <<Empty>>
        BY <1>12, <1>13
    <2>2. [i \in 1 .. 1 |-> Closing] = <<Closing>>
        OBVIOUS
    <2>3. Closing \in Lines /\ Empty \in Lines /\ Empty # Closing
        BY DEF Lines, Closing, Empty
    <2>4. o \o <<Closing>> = Append(o, Closing) /\ Append(o, Closing) \in Seq(Lines)
        BY <1>10, <2>3
    <2>5. Append(o, Closing) \o <<Empty>> = Append(Append(o, Closing), Empty)
        BY <2>4
    <2>6. CloseTables(s) = Append(Append(o, Closing), Empty)
        BY <2>1, <2>2, <2>4, <2>5
    <2>7. MayFollow(Depth(o), Closing)
        BY <1>11, <1>13 DEF MayFollow
    <2>8. Tidy(Append(o, Closing)) /\ Depth(Append(o, Closing)) = Depth(o) + Turn(Closing)
        BY <1>10, <1>11, <2>3, <2>7, TidyAppend, DepthAppend
    <2>9. Depth(Append(o, Closing)) = 0
        BY <1>11, <1>13, <2>8 DEF Turn, Opening, Closing
    <2>10. MayFollow(Depth(Append(o, Closing)), Empty)
        BY <2>3, <2>9 DEF MayFollow
    <2>11. Tidy(CloseTables(s))
        BY <2>3, <2>4, <2>6, <2>8, <2>10, TidyAppend
    <2> QED
        BY <1>7, <2>11
<1>14. CASE k = 0
    BY <1>7, <1>11, <1>12, <1>14
<1> QED
    BY <1>11, <1>13, <1>14

-----------------------------------------------------------------------------
(* LiftTables                                                              *)

LiftStates == [out : Seq(Lines), fenced : BOOLEAN, depth : Nat]

\* What one line adds: itself, with a fence before a table and after it.
LEMMA LiftAtAdds ==
    ASSUME NEW acc \in LiftStates, NEW x \in Lines
    PROVE  /\ LiftAt(acc, x) \in LiftStates
           /\ \/ /\ acc.depth = 0 /\ ~(acc.fenced /\ x = Opening)
                 /\ LiftAt(acc, x).out = Append(acc.out, x) /\ LiftAt(acc, x).depth = 0
                 /\ LiftAt(acc, x).fenced <=> (IF x = Fence THEN ~acc.fenced ELSE acc.fenced)
              \/ /\ acc.depth = 0 /\ acc.fenced /\ x = Opening
                 /\ LiftAt(acc, x).out = Append(Append(acc.out, Fence), x) /\ LiftAt(acc, x).depth = 1
                 /\ LiftAt(acc, x).fenced
              \/ /\ acc.depth > 0 /\ acc.depth + Turn(x) > 0
                 /\ LiftAt(acc, x).out = Append(acc.out, x) /\ LiftAt(acc, x).depth = acc.depth + Turn(x)
                 /\ LiftAt(acc, x).fenced <=> acc.fenced
              \/ /\ acc.depth > 0 /\ acc.depth + Turn(x) = 0
                 /\ LiftAt(acc, x).out = Append(Append(acc.out, x), Fence) /\ LiftAt(acc, x).depth = 0
                 /\ LiftAt(acc, x).fenced <=> acc.fenced
<1> DEFINE table == IsTable(acc, x)
           depth == IF table THEN acc.depth + Turn(x) ELSE acc.depth
           fenced == IF Toggles(acc, x) THEN ~acc.fenced ELSE acc.fenced
           o == acc.out
           f == acc.fenced
           new == o \o (IF acc.depth = 0 /\ depth > 0 THEN <<Fence, x>>
                        ELSE IF acc.depth > 0 /\ depth = 0 THEN <<x, Fence>> ELSE <<x>>)
<1>1. o \in Seq(Lines) /\ acc.depth \in Nat /\ f \in BOOLEAN /\ Fence \in Lines
    BY DEF LiftStates, Lines
<1>2. LiftAt(acc, x) = [out |-> new, fenced |-> fenced, depth |-> depth]
    BY DEF LiftAt
<1>3. Turn(x) \in {-1, 0, 1} /\ Turn(Opening) = 1 /\ Fence # Opening
    BY DEF Turn, Opening, Closing, Fence
<1>4. (table <=> (acc.depth > 0 \/ (f /\ x = Opening))) /\ (Toggles(acc, x) <=> (acc.depth = 0 /\ x = Fence))
    BY DEF IsTable, Toggles
<1> HIDE DEF o, f, table
<1>5. depth \in Nat /\ (depth > 0 /\ acc.depth = 0 => f /\ x = Opening /\ depth = 1)
      /\ (acc.depth = 0 /\ ~(f /\ x = Opening) => depth = 0) /\ (acc.depth > 0 => depth = acc.depth + Turn(x))
      /\ (acc.depth = 0 /\ f /\ x = Opening => depth = 1)
    BY <1>1, <1>3, <1>4
<1>6. fenced \in BOOLEAN
    BY <1>1 DEF f
<1>7. fenced <=> (IF acc.depth = 0 /\ x = Fence THEN ~f ELSE f)
    BY <1>4 DEF f
<1>8. /\ o \o <<x>> = Append(o, x) /\ Append(o, x) \in Seq(Lines) /\ Append(o, Fence) \in Seq(Lines)
    BY <1>1
<1>9. o \o <<x, Fence>> = Append(Append(o, x), Fence) /\ o \o <<Fence, x>> = Append(Append(o, Fence), x)
    <2>1. <<x, Fence>> = <<x>> \o <<Fence>> /\ <<Fence, x>> = <<Fence>> \o <<x>>
        BY <1>1
    <2>2. /\ o \o (<<x>> \o <<Fence>>) = (o \o <<x>>) \o <<Fence>>
          /\ o \o (<<Fence>> \o <<x>>) = (o \o <<Fence>>) \o <<x>>
        BY <1>1
    <2>3. (o \o <<x>>) \o <<Fence>> = Append(Append(o, x), Fence) /\ (o \o <<Fence>>) \o <<x>> = Append(Append(o, Fence), x)
        BY <1>1
    <2> QED
        BY <2>1, <2>2, <2>3
<1>10. Append(Append(o, x), Fence) \in Seq(Lines) /\ Append(Append(o, Fence), x) \in Seq(Lines)
    BY <1>1, <1>8
<1>11. new \in {Append(o, x), Append(Append(o, Fence), x), Append(Append(o, x), Fence)}
    BY <1>8, <1>9
<1>12. /\ acc.depth = 0 /\ depth > 0 => new = Append(Append(o, Fence), x)
       /\ acc.depth > 0 /\ depth = 0 => new = Append(Append(o, x), Fence)
       /\ acc.depth = 0 /\ depth = 0 => new = Append(o, x)
       /\ acc.depth > 0 /\ depth > 0 => new = Append(o, x)
    BY <1>1, <1>5, <1>8, <1>9
<1> DEFINE after == LiftAt(acc, x)
<1> HIDE DEF new, depth, fenced
<1>13. new \in Seq(Lines)
    BY <1>8, <1>10, <1>11
<1>14. after \in LiftStates /\ after.out = new /\ after.depth = depth /\ (after.fenced <=> fenced)
    BY <1>2, <1>5, <1>6, <1>13 DEF LiftStates
<1> HIDE DEF after
<1>15. CASE acc.depth = 0 /\ ~(f /\ x = Opening)
    BY <1>5, <1>7, <1>12, <1>14, <1>15 DEF after, f, o
<1>16. CASE acc.depth = 0 /\ f /\ x = Opening
    BY <1>3, <1>5, <1>7, <1>12, <1>14, <1>16 DEF after, f, o
<1>17. CASE acc.depth > 0 /\ acc.depth + Turn(x) > 0
    BY <1>1, <1>5, <1>7, <1>12, <1>14, <1>17 DEF after, f, o
<1>18. CASE acc.depth > 0 /\ acc.depth + Turn(x) = 0
    BY <1>1, <1>5, <1>7, <1>12, <1>14, <1>18 DEF after, f, o
<1> QED
    BY <1>1, <1>3, <1>15, <1>16, <1>17, <1>18

\* How LiftTables comes to its text, line by line.
LEMMA LiftedSteps ==
    ASSUME NEW s \in Seq(Lines)
    PROVE  \E lifted \in [0 .. Len(s) -> LiftStates] :
             /\ lifted[0] = [out |-> <<>>, fenced |-> FALSE, depth |-> 0]
             /\ \A n \in 0 .. Len(s) - 1 : lifted[n + 1] = LiftAt(lifted[n], s[n + 1])
             /\ LiftTables(s) = IF lifted[Len(s)].depth > 0 THEN Append(lifted[Len(s)].out, Fence)
                                ELSE lifted[Len(s)].out
<1> DEFINE start == [out |-> <<>>, fenced |-> FALSE, depth |-> 0]
           Is(f) == f = [n \in 0 .. Len(s) |-> IF n = 0 THEN start ELSE LiftAt(f[n - 1], s[n])]
           goes == [p \in LiftStates \X (1 .. Len(s)) |-> LiftAt(p[1], s[p[2]])]
           lifted == CHOOSE f : Is(f)
<1>1. Len(s) \in Nat /\ \A n \in 1 .. Len(s) : s[n] \in Lines
    OBVIOUS
<1>2. start \in LiftStates
    BY DEF LiftStates
<1>3. \A acc \in LiftStates, n \in 1 .. Len(s) : LiftAt(acc, s[n]) \in LiftStates
    BY <1>1, LiftAtAdds
<1>4. \A acc \in LiftStates, n \in 1 .. Len(s) : goes[<<acc, n>>] = LiftAt(acc, s[n])
    OBVIOUS
<1> HIDE DEF goes, start, Is, lifted
<1>5. StaysIn(goes, LiftStates, Len(s))
    BY <1>3, <1>4 DEF StaysIn
<1>6. PICK f : GoesOn(f, start, goes, Len(s), LiftStates)
    BY <1>1, <1>2, <1>5, Recursion
<1>7. \A n \in 0 .. Len(s) : n # 0 => n \in 1 .. Len(s) /\ n - 1 \in 0 .. Len(s)
    OBVIOUS
<1>8. \A n \in 0 .. Len(s) : f[n] = IF n = 0 THEN start ELSE LiftAt(f[n - 1], s[n])
    BY <1>4, <1>6, <1>7 DEF GoesOn
<1>9. Is(f)
    BY <1>6, <1>8 DEF Is, GoesOn
<1>10. LiftTables(s) = IF lifted[Len(s)].depth > 0 THEN Append(lifted[Len(s)].out, Fence) ELSE lifted[Len(s)].out
    BY DEF LiftTables, start, lifted, Is
<1>11. Is(lifted)
    BY <1>9 DEF lifted
<1>12. \A n \in 0 .. Len(s) : lifted[n] = IF n = 0 THEN start ELSE LiftAt(lifted[n - 1], s[n])
    BY <1>11 DEF Is
<1>13. lifted[0] = start
    BY <1>1, <1>12
<1>14. \A n \in 0 .. Len(s) - 1 : n + 1 \in 0 .. Len(s) /\ n + 1 # 0 /\ (n + 1) - 1 = n /\ n + 1 \in 1 .. Len(s)
    OBVIOUS
<1>15. \A n \in 0 .. Len(s) - 1 : lifted[n + 1] = LiftAt(lifted[n], s[n + 1])
    BY <1>12, <1>14
<1>16. \A n \in 0 .. Len(s) : lifted[n] \in LiftStates
    <2> DEFINE T == {n \in 0 .. Len(s) : lifted[n] \in LiftStates}
    <2>1. 0 \in T
        BY <1>1, <1>2, <1>13
    <2>2. \A n \in 0 .. Len(s) - 1 : n \in T => n + 1 \in T
        BY <1>3, <1>14, <1>15
    <2> HIDE DEF T
    <2>3. \A n \in 0 .. Len(s) : n \in T
        BY <1>1, <2>1, <2>2, UpTo
    <2> QED
        BY <2>3 DEF T
<1>17. lifted \in [0 .. Len(s) -> LiftStates]
    BY <1>11, <1>16 DEF Is
<1> QED
    BY <1>10, <1>13, <1>15, <1>17 DEF start

\* An even number, and the next one.
LEMMA Parity == \A n \in Nat : n % 2 \in {0, 1} /\ (n + 1) % 2 = 1 - (n % 2) /\ (n + 0) % 2 = n % 2
    OBVIOUS

\* A line more changes what is counted by that line.
LEMMA LineAdds ==
    ASSUME NEW s \in Seq(Lines), NEW x \in Lines
    PROVE  /\ Append(s, x) \in Seq(Lines)
           /\ Count(Fence, s) % 2 \in {0, 1}
           /\ Count(Fence, Append(s, x)) % 2 = IF x = Fence THEN 1 - (Count(Fence, s) % 2) ELSE Count(Fence, s) % 2
           /\ Depth(Append(s, x)) = Depth(s) + Turn(x) /\ Depth(s) \in Int /\ Turn(x) \in Int
           /\ Said(Append(s, x)) = IF x \in {Prose, Math, Opening} THEN Append(Said(s), x) ELSE Said(s)
<1>1. Count(Fence, s) \in Nat /\ Count(Fence, Append(s, x)) = Count(Fence, s) + (IF x = Fence THEN 1 ELSE 0)
    BY CountAppend
<1>2. Count(Fence, s) % 2 \in {0, 1} /\ (Count(Fence, s) + 1) % 2 = 1 - (Count(Fence, s) % 2)
      /\ (Count(Fence, s) + 0) % 2 = Count(Fence, s) % 2
    BY <1>1, Parity
<1>3. Count(Fence, Append(s, x)) % 2 = IF x = Fence THEN 1 - (Count(Fence, s) % 2) ELSE Count(Fence, s) % 2
    BY <1>1, <1>2
<1>4. Turn(x) \in Int
    BY DEF Turn
<1> QED
    BY <1>2, <1>3, <1>4, DepthAppend, SaidAppend

\* The kinds of line differ, and which of them turn the depth.
LEMMA LineTypes ==
    /\ Lines = {Fence, Opening, Closing, Float, Empty, Prose, Math}
    /\ Turn(Opening) = 1 /\ Turn(Closing) = -1 /\ Turn(Fence) = 0 /\ Turn(Float) = 0 /\ Turn(Empty) = 0
    /\ Turn(Prose) = 0 /\ Turn(Math) = 0
    /\ Fence \notin {Opening, Closing, Float, Empty, Prose, Math}
    /\ Opening \notin {Closing, Float, Empty, Prose, Math}
    /\ Closing \notin {Float, Empty, Prose, Math}
    /\ Float \notin {Empty, Prose, Math}
    /\ Empty \notin {Prose, Math}
    BY DEF Lines, Turn, Fence, Opening, Closing, Float, Empty, Prose, Math

\* What LiftTables has done before a line: nothing is lost, and a fence is
\* without its partner, for the time of a table, for one that was lifted.
LiftedSoFar(acc, p) ==
    /\ Said(acc.out) = Said(p)
    /\ Depth(acc.out) = Depth(p)
    /\ Count(Fence, acc.out) % 2 = IF acc.depth > 0 THEN 1 - (Count(Fence, p) % 2) ELSE Count(Fence, p) % 2

\* A line more keeps that.
LEMMA LiftedSoFarGrows ==
    ASSUME NEW acc \in LiftStates, NEW p \in Seq(Lines), NEW x \in Lines, LiftedSoFar(acc, p)
    PROVE  LiftedSoFar(LiftAt(acc, x), Append(p, x))
<1> DEFINE o == acc.out  new == LiftAt(acc, x)
<1>1. o \in Seq(Lines) /\ acc.depth \in Nat /\ Fence \in Lines /\ Fence \notin {Prose, Math, Opening}
    BY LineTypes DEF LiftStates
<1>2. \A s \in Seq(Lines), y \in Lines :
        /\ Append(s, y) \in Seq(Lines)
        /\ Count(Fence, s) % 2 \in {0, 1}
        /\ Count(Fence, Append(s, y)) % 2 = IF y = Fence THEN 1 - (Count(Fence, s) % 2) ELSE Count(Fence, s) % 2
        /\ Depth(Append(s, y)) = Depth(s) + Turn(y) /\ Depth(s) \in Int /\ Turn(y) \in Int
        /\ Said(Append(s, y)) = IF y \in {Prose, Math, Opening} THEN Append(Said(s), y) ELSE Said(s)
    BY LineAdds
<1>3. \/ /\ acc.depth = 0 /\ ~(acc.fenced /\ x = Opening)
         /\ new.out = Append(o, x) /\ new.depth = 0
      \/ /\ acc.depth = 0 /\ x = Opening
         /\ new.out = Append(Append(o, Fence), x) /\ new.depth = 1
      \/ /\ acc.depth > 0 /\ acc.depth + Turn(x) > 0
         /\ new.out = Append(o, x) /\ new.depth = acc.depth + Turn(x)
      \/ /\ acc.depth > 0 /\ acc.depth + Turn(x) = 0
         /\ new.out = Append(Append(o, x), Fence) /\ new.depth = 0
    BY LiftAtAdds
<1> HIDE DEF o, new
<1> DEFINE a == Count(Fence, o) % 2
           b == Count(Fence, p) % 2
<1>4. Said(o) = Said(p) /\ Depth(o) = Depth(p) /\ a = (IF acc.depth > 0 THEN 1 - b ELSE b)
    BY DEF LiftedSoFar, o
<1> DEFINE px == Append(p, x)  ox == Append(o, x)  of == Append(o, Fence)
           oxf == Append(ox, Fence)  ofx == Append(of, x)
           After(t, u, y) ==
             /\ Count(Fence, u) % 2 = (IF y = Fence THEN 1 - (Count(Fence, t) % 2) ELSE Count(Fence, t) % 2)
             /\ Depth(u) = Depth(t) + Turn(y)
             /\ Said(u) = (IF y \in {Prose, Math, Opening} THEN Append(Said(t), y) ELSE Said(t))
<1>5. After(p, px, x) /\ After(o, ox, x) /\ After(o, of, Fence) /\ ox \in Seq(Lines) /\ of \in Seq(Lines)
    BY <1>1, <1>2
<1>6. After(ox, oxf, Fence) /\ After(of, ofx, x)
    BY <1>1, <1>2, <1>5
<1>7. Depth(o) \in Int /\ Turn(x) \in Int /\ Turn(Fence) = 0
    BY <1>1, <1>2, LineTypes
<1> HIDE DEF px, ox, of, oxf, ofx
<1>8. /\ Said(ox) = Said(px) /\ Said(oxf) = Said(px) /\ Said(ofx) = Said(px)
      /\ Depth(ox) = Depth(px) /\ Depth(oxf) = Depth(px) /\ Depth(ofx) = Depth(px)
    <2>1. Depth(ox) = Depth(px) /\ Depth(oxf) = Depth(px) /\ Depth(ofx) = Depth(px)
        BY <1>4, <1>5, <1>6, <1>7
    <2>2. Said(ox) = Said(px)
        BY <1>4, <1>5
    <2>3. Said(oxf) = Said(ox) /\ Said(of) = Said(o)
        BY <1>1, <1>5, <1>6
    <2>4. Said(ofx) = Said(px)
        BY <1>4, <1>5, <1>6, <2>3
    <2> QED
        BY <2>1, <2>2, <2>3, <2>4
<1>9. Said(new.out) = Said(Append(p, x)) /\ Depth(new.out) = Depth(Append(p, x))
    BY <1>3, <1>8 DEF px, ox, of, oxf, ofx
<1> DEFINE c == Count(Fence, new.out) % 2
           d == Count(Fence, px) % 2
<1>10. a \in {0, 1} /\ b \in {0, 1} /\ d = (IF x = Fence THEN 1 - b ELSE b)
    BY <1>1, <1>2, <1>5
<1>11. /\ Count(Fence, ox) % 2 = (IF x = Fence THEN 1 - a ELSE a)
       /\ Count(Fence, of) % 2 = 1 - a
       /\ Count(Fence, oxf) % 2 = 1 - (IF x = Fence THEN 1 - a ELSE a)
       /\ Count(Fence, ofx) % 2 = (IF x = Fence THEN 1 - (1 - a) ELSE 1 - a)
    <2>1. Count(Fence, ox) % 2 = (IF x = Fence THEN 1 - a ELSE a) /\ Count(Fence, of) % 2 = 1 - a
        BY <1>5
    <2>2. Count(Fence, oxf) % 2 = 1 - (Count(Fence, ox) % 2)
        BY <1>6
    <2>3. Count(Fence, ofx) % 2 = (IF x = Fence THEN 1 - (Count(Fence, of) % 2) ELSE Count(Fence, of) % 2)
        BY <1>6
    <2> QED
        BY <2>1, <2>2, <2>3
<1> HIDE DEF a, b, d
<1>12. c = IF new.depth > 0 THEN 1 - d ELSE d
    <2>1. CASE acc.depth = 0 /\ new.out = ox /\ new.depth = 0
        BY <1>4, <1>10, <1>11, <2>1
    <2>2. CASE acc.depth = 0 /\ x = Opening /\ new.out = ofx /\ new.depth = 1
        BY <1>1, <1>4, <1>10, <1>11, <2>2
    <2>3. CASE acc.depth > 0 /\ new.out = ox /\ new.depth > 0
        BY <1>4, <1>10, <1>11, <2>3
    <2>4. CASE acc.depth > 0 /\ new.out = oxf /\ new.depth = 0
        BY <1>4, <1>10, <1>11, <2>4
    <2> QED
        BY <1>3, <2>1, <2>2, <2>3, <2>4 DEF ox, oxf, of, ofx
<1> QED
    BY <1>9, <1>12 DEF LiftedSoFar, new, d, px

\* A well nested text stays so as long as no line takes its depth below 0.
LEMMA WellNestedAppend ==
    ASSUME NEW s \in Seq(Lines), NEW x \in Lines, WellNested(s), Depth(Append(s, x)) >= 0
    PROVE  WellNested(Append(s, x))
<1> DEFINE u == Append(s, x)  N == Len(s)
<1>1. u \in Seq(Lines) /\ Len(u) = N + 1 /\ N \in Nat /\ DOMAIN u = 1 .. N + 1 /\ DOMAIN s = 1 .. N
      /\ \A i \in 1 .. N : u[i] = s[i]
    OBVIOUS
<1>2. SubSeq(u, 1, N + 1) = u
    BY <1>1, PrefixGrows
<1>3. \A n \in 1 .. N : SubSeq(u, 1, n) = SubSeq(s, 1, n)
    <2>1. TAKE n \in 1 .. N
    <2> DEFINE v == SubSeq(u, 1, n)  w == SubSeq(s, 1, n)
    <2>2. v \in Seq(Lines) /\ Len(v) = n /\ \A i \in 1 .. n : v[i] = u[i]
        BY <1>1
    <2>3. w \in Seq(Lines) /\ Len(w) = n /\ \A i \in 1 .. n : w[i] = s[i]
        BY <1>1
    <2> HIDE DEF v, w
    <2>4. v = w
        BY <1>1, <2>2, <2>3, SeqEqual
    <2> QED
        BY <2>4 DEF v, w
<1> HIDE DEF u, N
<1>4. ASSUME NEW n \in 1 .. N + 1
      PROVE  Depth(SubSeq(u, 1, n)) >= 0
    <2>1. CASE n = N + 1
        BY <1>2, <2>1 DEF u
    <2>2. CASE n # N + 1
        <3>1. n \in 1 .. N
            BY <1>1, <2>2
        <3>2. SubSeq(u, 1, n) = SubSeq(s, 1, n) /\ n \in DOMAIN s
            BY <1>1, <1>3, <3>1
        <3> QED
            BY <3>2 DEF WellNested
    <2> QED
        BY <2>1, <2>2
<1> QED
    BY <1>1, <1>4 DEF WellNested, u

\* No part of a table is in a listing if none was and none is added where fences are odd.
LEMMA NoListingsAppend ==
    ASSUME NEW s \in Seq(Lines), NEW x \in Lines, InListings(s) = {},
           x \in {Opening, Closing} => Count(Fence, s) % 2 # 1
    PROVE  InListings(Append(s, x)) = {}
<1> DEFINE u == Append(s, x)  N == Len(s)
<1>1. u \in Seq(Lines) /\ Len(u) = N + 1 /\ N \in Nat /\ DOMAIN u = 1 .. N + 1 /\ DOMAIN s = 1 .. N
      /\ u[N + 1] = x /\ \A i \in 1 .. N : u[i] = s[i]
    OBVIOUS
<1>2. \A n \in 1 .. N + 1 : Before(u, n) = SubSeq(s, 1, n - 1)
    <2>1. TAKE n \in 1 .. N + 1
    <2> DEFINE v == SubSeq(u, 1, n - 1)  w == SubSeq(s, 1, n - 1)
    <2>2. v \in Seq(Lines) /\ Len(v) = n - 1 /\ \A i \in 1 .. n - 1 : v[i] = u[i]
        BY <1>1
    <2>3. w \in Seq(Lines) /\ Len(w) = n - 1 /\ \A i \in 1 .. n - 1 : w[i] = s[i]
        BY <1>1
    <2> HIDE DEF v, w
    <2>4. v = w
        BY <1>1, <2>2, <2>3, SeqEqual
    <2> QED
        BY <2>4 DEF v, w, Before
<1>3. Before(u, N + 1) = s
    <2>1. (N + 1) - 1 = N /\ N + 1 \in 1 .. N + 1
        BY <1>1
    <2> QED
        BY <1>2, <2>1, PrefixGrows
<1> HIDE DEF u, N
<1>4. ASSUME NEW n \in 1 .. N + 1, u[n] \in {Opening, Closing}
      PROVE  ~Fenced(u, n)
    <2>1. CASE n = N + 1
        BY <1>1, <1>3, <1>4, <2>1 DEF Fenced
    <2>2. CASE n # N + 1
        <3>1. n \in 1 .. N
            BY <1>1, <2>2
        <3>2. n \in DOMAIN s /\ s[n] = u[n] /\ Before(u, n) = Before(s, n)
            BY <1>1, <1>2, <3>1 DEF Before
        <3>3. ~Fenced(s, n)
            BY <1>4, <3>2 DEF InListings, Tables
        <3> QED
            BY <3>2, <3>3 DEF Fenced
    <2> QED
        BY <2>1, <2>2
<1> QED
    BY <1>1, <1>4 DEF InListings, Tables, u

\* What else holds in a tidy text: the fence that is open is one of the text,
\* only its tables are lifted, and none is left in a listing.
TidySoFar(acc, p) ==
    /\ acc.fenced <=> Count(Fence, p) % 2 = 1
    /\ acc.depth = IF acc.fenced THEN Depth(p) ELSE 0
    /\ InListings(acc.out) = {}
    /\ WellNested(acc.out)

\* A line more keeps that.
LEMMA TidySoFarGrows ==
    ASSUME NEW acc \in LiftStates, NEW p \in Seq(Lines), NEW x \in Lines, LiftedSoFar(acc, p), TidySoFar(acc, p),
           Depth(p) \in {0, 1}, MayFollow(Depth(p), x)
    PROVE  TidySoFar(LiftAt(acc, x), Append(p, x))
<1> DEFINE o == acc.out  new == LiftAt(acc, x)  f == acc.fenced  g == new.fenced
           d == Depth(p)  b == Count(Fence, p) % 2  a == Count(Fence, o) % 2
<1>1. o \in Seq(Lines) /\ acc.depth \in Nat /\ f \in BOOLEAN /\ Fence \in Lines
    BY LineTypes DEF LiftStates
<1>2. new \in LiftStates /\ new.depth \in Nat /\ g \in BOOLEAN
    BY LiftAtAdds DEF LiftStates
<1>3. \/ /\ acc.depth = 0 /\ ~(f /\ x = Opening)
         /\ new.out = Append(o, x) /\ new.depth = 0
         /\ g <=> (IF x = Fence THEN ~f ELSE f)
      \/ /\ acc.depth = 0 /\ f /\ x = Opening
         /\ new.out = Append(Append(o, Fence), x) /\ new.depth = 1 /\ g
      \/ /\ acc.depth > 0 /\ acc.depth + Turn(x) > 0
         /\ new.out = Append(o, x) /\ new.depth = acc.depth + Turn(x) /\ (g <=> f)
      \/ /\ acc.depth > 0 /\ acc.depth + Turn(x) = 0
         /\ new.out = Append(Append(o, x), Fence) /\ new.depth = 0 /\ (g <=> f)
    BY LiftAtAdds
<1>4. (f <=> b = 1) /\ acc.depth = (IF f THEN d ELSE 0) /\ InListings(o) = {} /\ WellNested(o) /\ Depth(o) = d
      /\ a = (IF acc.depth > 0 THEN 1 - b ELSE b)
    BY DEF TidySoFar, LiftedSoFar
<1>5. LiftedSoFar(new, Append(p, x))
    BY LiftedSoFarGrows
<1>6. b \in {0, 1} /\ Depth(Append(p, x)) = d + Turn(x)
      /\ Count(Fence, Append(p, x)) % 2 = (IF x = Fence THEN 1 - b ELSE b)
    BY LineAdds
<1> DEFINE ox == Append(o, x)  of == Append(o, Fence)  oxf == Append(ox, Fence)  ofx == Append(of, x)
<1>7. /\ ox \in Seq(Lines) /\ Depth(ox) = Depth(o) + Turn(x)
      /\ of \in Seq(Lines) /\ Depth(of) = Depth(o) + Turn(Fence)
      /\ Count(Fence, of) % 2 = 1 - a
    BY <1>1, LineAdds
<1>8. oxf \in Seq(Lines) /\ Depth(oxf) = Depth(ox) + Turn(Fence) /\ Depth(ofx) = Depth(of) + Turn(x)
    BY <1>1, <1>7, LineAdds
<1> HIDE DEF new, o, f, g, d, a, b, ox, of, oxf, ofx
<1>9. d \in {0, 1} /\ MayFollow(d, x)
    BY DEF d
<1>10. d + Turn(x) \in {0, 1}
    BY <1>9, LineTypes DEF MayFollow
<1>11. Depth(ox) >= 0 /\ Depth(of) >= 0 /\ Depth(oxf) >= 0 /\ Depth(ofx) >= 0
    BY <1>4, <1>7, <1>8, <1>9, <1>10, LineTypes
<1>12. WellNested(of) /\ WellNested(ox)
    BY <1>1, <1>4, <1>11, WellNestedAppend DEF of, ox
<1>13. WellNested(oxf) /\ WellNested(ofx)
    BY <1>1, <1>7, <1>11, <1>12, WellNestedAppend DEF oxf, ofx
<1>14. WellNested(new.out)
    BY <1>3, <1>12, <1>13 DEF of, ox, oxf, ofx
<1>15. InListings(of) = {}
    BY <1>1, <1>4, NoListingsAppend, LineTypes DEF of
<1>16. ASSUME x \in {Opening, Closing} => a # 1
       PROVE  InListings(ox) = {} /\ InListings(oxf) = {}
    <2>1. InListings(ox) = {}
        BY <1>1, <1>4, <1>16, NoListingsAppend DEF ox, a
    <2> QED
        BY <1>1, <1>7, <2>1, NoListingsAppend, LineTypes DEF oxf
<1>17. ASSUME a = 1
       PROVE  InListings(ofx) = {}
    <2>1. Count(Fence, of) % 2 # 1
        BY <1>7, <1>17
    <2> QED
        BY <1>1, <1>7, <1>15, <2>1, NoListingsAppend DEF ofx
<1>18. CASE /\ acc.depth = 0 /\ ~(f /\ x = Opening)
            /\ new.out = ox /\ new.depth = 0
            /\ g <=> (IF x = Fence THEN ~f ELSE f)
    <2>1. a = b /\ (f => d = 0)
        BY <1>4, <1>18
    <2>2. x \in {Opening, Closing} => ~f
        <3>1. f /\ x = Closing => FALSE
            BY <1>9, <2>1 DEF MayFollow
        <3> QED
            BY <1>18, <3>1
    <2>3. x \in {Opening, Closing} => a # 1
        BY <1>4, <2>1, <2>2
    <2>4. InListings(new.out) = {}
        BY <1>16, <1>18, <2>3
    <2>5. g <=> Count(Fence, Append(p, x)) % 2 = 1
        BY <1>4, <1>6, <1>18
    <2>6. x = Fence => d = 0
        BY <1>9, LineTypes DEF MayFollow
    <2>7. g => d + Turn(x) = 0
        <3>1. ASSUME g
              PROVE  d = 0 /\ Turn(x) = 0
            <4>1. x = Fence \/ f
                BY <1>18, <3>1
            <4>2. d = 0
                BY <2>1, <2>6, <4>1
            <4>3. x # Closing
                BY <1>9, <4>2 DEF MayFollow
            <4>4. x # Opening
                BY <1>18, <4>1, LineTypes
            <4> QED
                BY <4>2, <4>3, <4>4 DEF Turn
        <3> QED
            BY <3>1
    <2>8. new.depth = IF g THEN Depth(Append(p, x)) ELSE 0
        BY <1>6, <1>18, <2>7
    <2> QED
        BY <1>14, <2>4, <2>5, <2>8 DEF TidySoFar, new, g
<1>19. CASE /\ acc.depth = 0 /\ f /\ x = Opening
            /\ new.out = ofx /\ new.depth = 1 /\ g
    <2>1. a = 1 /\ d = 0 /\ b = 1
        BY <1>4, <1>19
    <2>2. InListings(new.out) = {}
        BY <1>17, <1>19, <2>1
    <2>3. Count(Fence, Append(p, x)) % 2 = 1
        BY <1>6, <1>19, <2>1, LineTypes
    <2>4. new.depth = Depth(Append(p, x))
        BY <1>6, <1>19, <2>1, LineTypes
    <2> QED
        BY <1>14, <1>19, <2>2, <2>3, <2>4 DEF TidySoFar, new, g
<1>20. ASSUME acc.depth > 0, g <=> f, new.out \in {ox, oxf}, new.depth = acc.depth + Turn(x)
       PROVE  TidySoFar(new, Append(p, x))
    <2>1. f /\ d = 1 /\ acc.depth = d /\ b = 1 /\ a = 0
        BY <1>4, <1>6, <1>9, <1>20
    <2>2. x # Fence
        BY <1>9, <2>1, LineTypes DEF MayFollow
    <2>3. InListings(new.out) = {}
        BY <1>16, <1>20, <2>1
    <2>4. Count(Fence, Append(p, x)) % 2 = 1
        BY <1>6, <2>1, <2>2
    <2>5. new.depth = Depth(Append(p, x))
        BY <1>6, <1>20, <2>1
    <2> QED
        BY <1>14, <1>20, <2>1, <2>3, <2>4, <2>5 DEF TidySoFar, g
<1>21. acc.depth + Turn(x) = 0 /\ new.depth = 0 => new.depth = acc.depth + Turn(x)
    OBVIOUS
<1>22. CASE acc.depth > 0 /\ new.out = ox /\ new.depth = acc.depth + Turn(x) /\ (g <=> f)
    BY <1>20, <1>22 DEF new
<1>23. CASE acc.depth > 0 /\ acc.depth + Turn(x) = 0 /\ new.out = oxf /\ new.depth = 0 /\ (g <=> f)
    BY <1>20, <1>21, <1>23 DEF new
<1> QED
    BY <1>3, <1>18, <1>19, <1>22, <1>23 DEF ox, of, oxf, ofx

\* Tables of listings are lifted out of them: fences stay in pairs and nothing
\* is lost, and of a tidy text no table is left in a listing.
LEMMA LiftedTables ==
    ASSUME NEW s \in Seq(Lines), Count(Fence, s) % 2 = 0
    PROVE  /\ LiftTables(s) \in Seq(Lines)
           /\ Count(Fence, LiftTables(s)) % 2 = 0
           /\ Depth(LiftTables(s)) = Depth(s)
           /\ Said(LiftTables(s)) = Said(s)
           /\ Tidy(s) /\ Depth(s) = 0 => WellNested(LiftTables(s)) /\ InListings(LiftTables(s)) = {}
<1>1. PICK lifted \in [0 .. Len(s) -> LiftStates] :
             /\ lifted[0] = [out |-> <<>>, fenced |-> FALSE, depth |-> 0]
             /\ \A n \in 0 .. Len(s) - 1 : lifted[n + 1] = LiftAt(lifted[n], s[n + 1])
             /\ LiftTables(s) = IF lifted[Len(s)].depth > 0 THEN Append(lifted[Len(s)].out, Fence)
                                ELSE lifted[Len(s)].out
    BY LiftedSteps
<1>2. Len(s) \in Nat /\ Len(s) \in 0 .. Len(s) /\ 0 \in 0 .. Len(s)
    OBVIOUS
<1> DEFINE Good(n) == LiftedSoFar(lifted[n], SubSeq(s, 1, n)) /\ (Tidy(s) => TidySoFar(lifted[n], SubSeq(s, 1, n)))
           T == {n \in 0 .. Len(s) : Good(n)}
<1>3. 0 \in T
    <2> DEFINE none == <<>>
    <2>1. SubSeq(s, 1, 0) = none /\ Depth(none) = 0 /\ Count(Fence, none) = 0 /\ none \in Seq(Lines) /\ DOMAIN none = {}
        BY DepthAppend, CountAppend, PrefixGrows, Fence \in Lines DEF Lines
    <2>2. lifted[0].out = none /\ lifted[0].depth = 0 /\ lifted[0].fenced = FALSE
        BY <1>1
    <2>3. Count(Fence, none) % 2 = 0
        BY <2>1
    <2> HIDE DEF none
    <2>4. LiftedSoFar(lifted[0], none)
        BY <2>2 DEF LiftedSoFar
    <2>5. InListings(none) = {} /\ WellNested(none)
        BY <2>1 DEF InListings, Tables, WellNested
    <2>6. TidySoFar(lifted[0], none)
        BY <2>2, <2>3, <2>5 DEF TidySoFar
    <2> QED
        BY <1>2, <2>1, <2>4, <2>6
<1>4. ASSUME NEW n \in 0 .. Len(s) - 1, n \in T
      PROVE  n + 1 \in T
    <2> DEFINE p == SubSeq(s, 1, n)  x == s[n + 1]
    <2>1. p \in Seq(Lines) /\ x \in Lines /\ SubSeq(s, 1, n + 1) = Append(p, x)
        BY PrefixGrows
    <2>2. Good(n) /\ lifted[n] \in LiftStates /\ lifted[n + 1] = LiftAt(lifted[n], x)
        BY <1>1, <1>4
    <2>3. n + 1 \in 0 .. Len(s) /\ n < Len(s) /\ n \in 0 .. Len(s)
        BY <1>4
    <2>4. Tidy(s) => Depth(p) \in {0, 1} /\ MayFollow(Depth(p), x)
        BY <2>3 DEF Tidy
    <2> HIDE DEF p, x
    <2>5. LiftedSoFar(lifted[n], p) /\ (Tidy(s) => TidySoFar(lifted[n], p))
        BY <2>2 DEF p
    <2>6. LiftedSoFar(lifted[n + 1], Append(p, x))
        BY <2>1, <2>2, <2>5, LiftedSoFarGrows
    <2>7. Tidy(s) => TidySoFar(lifted[n + 1], Append(p, x))
        BY <2>1, <2>2, <2>4, <2>5, TidySoFarGrows
    <2> QED
        BY <2>1, <2>3, <2>6, <2>7
<1> DEFINE all == lifted[Len(s)]
           o == all.out
<1>5. Good(Len(s))
    <2> HIDE DEF T
    <2>1. Len(s) \in T
        BY <1>2, <1>3, <1>4, UpTo
    <2> QED
        BY <2>1 DEF T
<1>6. all \in LiftStates /\ SubSeq(s, 1, Len(s)) = s
    BY <1>1, <1>2, PrefixGrows
<1>7. o \in Seq(Lines) /\ all.depth \in Nat
    BY <1>6 DEF LiftStates
<1>8. LiftTables(s) = IF all.depth > 0 THEN Append(o, Fence) ELSE o
    BY <1>1
<1> HIDE DEF all
<1>9. LiftedSoFar(all, s) /\ (Tidy(s) => TidySoFar(all, s))
    BY <1>5, <1>6 DEF all
<1>10. Said(o) = Said(s) /\ Depth(o) = Depth(s)
       /\ Count(Fence, o) % 2 = IF all.depth > 0 THEN 1 - (Count(Fence, s) % 2) ELSE Count(Fence, s) % 2
    BY <1>9 DEF LiftedSoFar
<1>11. CASE all.depth > 0
    <2>1. LiftTables(s) = Append(o, Fence)
        BY <1>8, <1>11
    <2>2. /\ Append(o, Fence) \in Seq(Lines)
          /\ Count(Fence, Append(o, Fence)) % 2 = 1 - (Count(Fence, o) % 2)
          /\ Depth(Append(o, Fence)) = Depth(o) + Turn(Fence) /\ Depth(o) \in Int
          /\ Said(Append(o, Fence)) = Said(o)
        BY <1>7, LineAdds, LineTypes
    <2>3. Count(Fence, Append(o, Fence)) % 2 = 0
        BY <1>10, <1>11, <2>2
    <2>4. Depth(Append(o, Fence)) = Depth(o)
        BY <2>2, LineTypes
    <2>5. ~(Tidy(s) /\ Depth(s) = 0)
        BY <1>9, <1>11 DEF TidySoFar
    <2> QED
        BY <1>10, <2>1, <2>2, <2>3, <2>4, <2>5
<1>12. CASE ~(all.depth > 0)
    <2>1. LiftTables(s) = o
        BY <1>8, <1>12
    <2>2. Tidy(s) => WellNested(o) /\ InListings(o) = {}
        BY <1>9 DEF TidySoFar
    <2> QED
        BY <1>7, <1>10, <1>12, <2>1, <2>2
<1> QED
    BY <1>11, <1>12

-----------------------------------------------------------------------------
(* PairFences, DropFloats and UnfencePseudocode                            *)

\* Texts that differ in lines that are no part of a table and are not seen.
LEMMA Alike ==
    ASSUME NEW s \in Seq(Lines), NEW t \in Seq(Lines), Len(s) = Len(t),
           \A i \in DOMAIN s : s[i] = t[i] \/ (s[i] \in {Fence, Float, Empty} /\ t[i] \in {Fence, Float, Empty})
    PROVE  \A n \in 0 .. Len(s) : /\ Depth(SubSeq(s, 1, n)) = Depth(SubSeq(t, 1, n))
                                  /\ Said(SubSeq(s, 1, n)) = Said(SubSeq(t, 1, n))
<1> DEFINE Good(n) == /\ Depth(SubSeq(s, 1, n)) = Depth(SubSeq(t, 1, n))
                      /\ Said(SubSeq(s, 1, n)) = Said(SubSeq(t, 1, n))
           T == {n \in 0 .. Len(s) : Good(n)}
<1>0. Len(s) \in Nat /\ 0 \in 0 .. Len(s)
    OBVIOUS
<1>1. 0 \in T
    <2>1. SubSeq(s, 1, 0) = <<>> /\ SubSeq(t, 1, 0) = <<>>
        BY PrefixGrows
    <2> QED
        BY <1>0, <2>1
<1>2. ASSUME NEW n \in 0 .. Len(s) - 1, n \in T
      PROVE  n + 1 \in T
    <2> DEFINE p == SubSeq(s, 1, n)  x == s[n + 1]  q == SubSeq(t, 1, n)  y == t[n + 1]
    <2>1. n + 1 \in DOMAIN s /\ p \in Seq(Lines) /\ x \in Lines /\ SubSeq(s, 1, n + 1) = Append(p, x)
        BY PrefixGrows
    <2>2. q \in Seq(Lines) /\ y \in Lines /\ SubSeq(t, 1, n + 1) = Append(q, y)
        BY PrefixGrows
    <2>3. Depth(p) = Depth(q) /\ Said(p) = Said(q) /\ n + 1 \in 0 .. Len(s)
        BY <1>2
    <2>4. x = y \/ (x \in {Fence, Float, Empty} /\ y \in {Fence, Float, Empty})
        BY <2>1
    <2> HIDE DEF p, q, x, y
    <2>5. /\ Depth(Append(p, x)) = Depth(p) + Turn(x)
          /\ Said(Append(p, x)) = IF x \in {Prose, Math, Opening} THEN Append(Said(p), x) ELSE Said(p)
        BY <2>1, LineAdds
    <2>6. /\ Depth(Append(q, y)) = Depth(q) + Turn(y)
          /\ Said(Append(q, y)) = IF y \in {Prose, Math, Opening} THEN Append(Said(q), y) ELSE Said(q)
        BY <2>2, LineAdds
    <2>7. Turn(x) = Turn(y) /\ (x \in {Prose, Math, Opening} <=> y \in {Prose, Math, Opening})
          /\ (x \in {Prose, Math, Opening} => x = y)
        BY <2>4, LineTypes
    <2>8. Depth(Append(p, x)) = Depth(Append(q, y))
        BY <2>3, <2>5, <2>6, <2>7
    <2>9. Said(Append(p, x)) = Said(Append(q, y))
        BY <2>3, <2>5, <2>6, <2>7
    <2> QED
        BY <2>1, <2>2, <2>3, <2>8, <2>9
<1> HIDE DEF T
<1>3. \A n \in 0 .. Len(s) : n \in T
    BY <1>0, <1>1, <1>2, UpTo
<1> QED
    BY <1>3 DEF T

\* Tags of floats become empty lines, which changes neither fences nor tables.
LEMMA FloatsDropped ==
    ASSUME NEW s \in Seq(Lines)
    PROVE  /\ DropFloats(s) \in Seq(Lines)
           /\ Count(Fence, DropFloats(s)) = Count(Fence, s)
           /\ Said(DropFloats(s)) = Said(s)
           /\ \A i \in DOMAIN DropFloats(s) : DropFloats(s)[i] # Float
           /\ Plain(s) => Plain(DropFloats(s))
<1> DEFINE t == DropFloats(s)
<1>1. t \in Seq(Lines) /\ Len(t) = Len(s) /\ DOMAIN t = DOMAIN s /\ DOMAIN s = 1 .. Len(s) /\ Len(s) \in Nat
    BY LineTypes DEF DropFloats
<1>2. \A i \in DOMAIN s : s[i] \in Lines /\ t[i] = (IF s[i] = Float THEN Empty ELSE s[i])
    BY DEF DropFloats
<1> HIDE DEF t
<1>3. \A i \in DOMAIN s : /\ t[i] = Fence <=> s[i] = Fence
                          /\ t[i] = Opening <=> s[i] = Opening
                          /\ t[i] = Closing <=> s[i] = Closing
                          /\ t[i] \in {Prose, Math} <=> s[i] \in {Prose, Math}
                          /\ t[i] # Float
                          /\ s[i] = t[i] \/ (s[i] \in {Fence, Float, Empty} /\ t[i] \in {Fence, Float, Empty})
    BY <1>2, LineTypes
<1>4. Count(Fence, t) = Count(Fence, s)
    <2>1. {i \in DOMAIN t : t[i] = Fence} = {i \in DOMAIN s : s[i] = Fence}
        BY <1>1, <1>3
    <2> QED
        BY <2>1 DEF Count
<1>5. Said(t) = Said(s)
    <2>1. \A i \in DOMAIN s : s[i] = t[i] \/ (s[i] \in {Fence, Float, Empty} /\ t[i] \in {Fence, Float, Empty})
        BY <1>3
    <2>2. Said(SubSeq(s, 1, Len(s))) = Said(SubSeq(t, 1, Len(s)))
        BY <1>1, <2>1, Alike
    <2>3. SubSeq(s, 1, Len(s)) = s /\ SubSeq(t, 1, Len(s)) = t
        BY <1>1, PrefixGrows
    <2> QED
        BY <2>2, <2>3
<1>6. ASSUME NEW k \in DOMAIN s
      PROVE  InTable(t, k) <=> InTable(s, k)
    <2>1. \A i \in 1 .. k - 1 : i \in DOMAIN s
        BY <1>1
    <2>2. \A i \in 1 .. k - 1 : \A j \in i + 1 .. k - 1 : j \in DOMAIN s
        BY <1>1
    <2>3. \A i \in 1 .. k - 1 : (\A j \in i + 1 .. k - 1 : t[j] \in {Prose, Math})
                                <=> \A j \in i + 1 .. k - 1 : s[j] \in {Prose, Math}
        BY <1>3, <2>2
    <2> QED
        BY <1>3, <2>1, <2>3 DEF InTable
<1>7. Plain(s) => Plain(t)
    BY <1>1, <1>3, <1>6 DEF Plain
<1> QED
    BY <1>1, <1>3, <1>4, <1>5, <1>7 DEF t

\* The last fence of a text that has one.
LEMMA LastFence ==
    ASSUME NEW s \in Seq(Lines), Count(Fence, s) % 2 # 0
    PROVE  LET fences == {i \in DOMAIN s : s[i] = Fence}
               r == CHOOSE i \in fences : \A j \in fences : j <= i
           IN r \in DOMAIN s /\ s[r] = Fence
<1> DEFINE fences == {i \in DOMAIN s : s[i] = Fence}
<1>1. fences # {}
    <2>1. Count(Fence, s) = Cardinality(fences)
        BY DEF Count
    <2>2. Cardinality({}) = 0 /\ 0 % 2 = 0
        BY FS_EmptySet
    <2> HIDE DEF fences
    <2> QED
        BY <2>1, <2>2
<1> DEFINE Turned == {Len(s) - i : i \in fences}
<1>2. Len(s) \in Nat /\ \A i \in fences : i \in 1 .. Len(s)
    OBVIOUS
<1>3. Turned \in SUBSET Nat /\ Turned # {}
    BY <1>1, <1>2
<1>4. PICK x \in Turned : \A y \in Turned : x <= y
    <2> HIDE DEF Turned
    <2> QED
        BY <1>3, LeastNatural
<1>5. PICK i \in fences : x = Len(s) - i
    BY <1>4
<1>6. \A j \in fences : j <= i
    <2> SUFFICES ASSUME NEW j \in fences
                 PROVE  j <= i
        OBVIOUS
    <2> DEFINE y == Len(s) - j
    <2>1. y \in Turned
        OBVIOUS
    <2>2. i \in 1 .. Len(s) /\ j \in 1 .. Len(s)
        BY <1>2
    <2> HIDE DEF Turned
    <2>3. x <= y
        BY <1>4, <2>1
    <2> QED
        BY <1>2, <1>5, <2>2, <2>3
<1>7. (CHOOSE m \in fences : \A j \in fences : j <= m) \in fences
    BY <1>5, <1>6
<1> QED
    BY <1>7

\* Without a fence, the tables of a plain text are as they were.
LEMMA WithoutFence ==
    ASSUME NEW s \in Seq(Lines), NEW r \in DOMAIN s, s[r] = Fence
    PROVE  /\ RemoveAt(s, r) \in Seq(Lines)
           /\ Count(Fence, s) = Count(Fence, RemoveAt(s, r)) + 1
           /\ Said(RemoveAt(s, r)) = Said(s)
           /\ Plain(s) => Plain(RemoveAt(s, r))
<1> DEFINE a == SubSeq(s, 1, r - 1)  b == SubSeq(s, r + 1, Len(s))  t == RemoveAt(s, r)  N == Len(s)
<1>0. N \in Nat /\ DOMAIN s = 1 .. N /\ r \in 1 .. N /\ r - 1 \in 0 .. N - 1 /\ (r - 1) + 1 = r /\ r \in 0 .. N
    OBVIOUS
<1>1. a \in Seq(Lines) /\ Len(a) = r - 1 /\ b \in Seq(Lines) /\ Len(b) = N - r /\ t = a \o b
      /\ (\A i \in 1 .. r - 1 : a[i] = s[i]) /\ (\A i \in 1 .. N - r : b[i] = s[r + i])
    <2>1. a \in Seq(Lines) /\ Len(a) = r - 1 /\ (\A i \in 1 .. r - 1 : a[i] = s[i])
        BY <1>0
    <2>2. \A i \in r + 1 .. N : s[i] \in Lines
        BY <1>0
    <2>3. b \in Seq(Lines) /\ Len(b) = N - r /\ (\A i \in 1 .. N - r : b[i] = s[r + i])
        <3>1. r + 1 \in Int /\ N \in Int /\ N - (r + 1) + 1 = N - r
              /\ (IF r + 1 <= N THEN N - (r + 1) + 1 ELSE 0) = N - r
            BY <1>0
        <3>2. /\ b \in Seq(Lines)
              /\ Len(b) = IF r + 1 <= N THEN N - (r + 1) + 1 ELSE 0
              /\ \A i \in 1 .. N - (r + 1) + 1 : b[i] = s[(r + 1) + i - 1]
            BY <2>2, <3>1, SubSeqProperties
        <3> HIDE DEF b, N
        <3>3. \A i \in 1 .. N - r : (r + 1) + i - 1 = r + i
            BY <1>0
        <3> QED
            BY <3>1, <3>2, <3>3
    <2> QED
        BY <2>1, <2>3 DEF RemoveAt
<1>2. Append(a, Fence) \in Seq(Lines) /\ Append(a, Fence) \o b = s
    <2> DEFINE f == Append(a, Fence)
    <2>1. f \in Seq(Lines) /\ Len(f) = r /\ f[r] = Fence /\ \A i \in 1 .. r - 1 : f[i] = s[i]
        BY <1>0, <1>1, LineTypes
    <2> HIDE DEF a, b, f
    <2> DEFINE u == f \o b
    <2>2. u \in Seq(Lines) /\ Len(u) = N /\ (\A i \in 1 .. r : u[i] = f[i]) /\ (\A i \in r + 1 .. N : u[i] = b[i - r])
        <3>1. /\ u \in Seq(Lines)
              /\ Len(u) = Len(f) + Len(b)
              /\ \A i \in 1 .. Len(f) + Len(b) : u[i] = IF i <= Len(f) THEN f[i] ELSE b[i - Len(f)]
            BY <1>1, <2>1, ConcatProperties
        <3>2. Len(f) = r /\ Len(b) = N - r
            BY <1>1, <2>1
        <3> HIDE DEF u, N
        <3>3. N \in Int /\ r \in Int /\ 1 <= r /\ r <= N
            BY <1>0
        <3>4. Len(f) + Len(b) = N
            BY <3>2, <3>3
        <3>5. \A i \in 1 .. N : u[i] = IF i <= r THEN f[i] ELSE b[i - r]
            BY <3>1, <3>2, <3>4
        <3>6. \A i \in 1 .. r : i \in 1 .. N /\ i <= r
            BY <3>3
        <3>7. \A i \in r + 1 .. N : i \in 1 .. N /\ ~(i <= r)
            BY <3>3
        <3>8. \A i \in 1 .. r : u[i] = f[i]
            BY <3>5, <3>6
        <3>9. \A i \in r + 1 .. N : u[i] = b[i - r]
            BY <3>5, <3>7
        <3>10. u \in Seq(Lines) /\ Len(u) = N
            BY <3>1, <3>4
        <3> QED
            BY <3>8, <3>9, <3>10
    <2>3. \A i \in r + 1 .. N : b[i - r] = s[i]
        <3>1. \A i \in r + 1 .. N : i - r \in 1 .. N - r /\ r + (i - r) = i
            BY <1>0
        <3>2. \A j \in 1 .. N - r : b[j] = s[r + j]
            BY <1>1
        <3> QED
            BY <3>1, <3>2
    <2>4. \A i \in 1 .. N : i \in 1 .. r - 1 \/ i = r \/ i \in r + 1 .. N
        BY <1>0
    <2>5. \A i \in 1 .. N : u[i] = s[i]
        BY <1>0, <2>1, <2>2, <2>3, <2>4
    <2> HIDE DEF u
    <2>6. u = s
        BY <1>0, <2>2, <2>5, SeqEqual
    <2> QED
        BY <2>1, <2>6 DEF u, f
<1>3. t \in Seq(Lines) /\ Len(t) = N - 1 /\ (\A i \in 1 .. r - 1 : t[i] = s[i]) /\ (\A i \in r .. N - 1 : t[i] = s[i + 1])
    <2> HIDE DEF a, b
    <2>1. a \o b \in Seq(Lines) /\ Len(a \o b) = N - 1 /\ (\A i \in 1 .. r - 1 : (a \o b)[i] = a[i])
          /\ (\A i \in r .. N - 1 : (a \o b)[i] = b[i - (r - 1)])
        <3> DEFINE u == a \o b
        <3>1. /\ u \in Seq(Lines)
              /\ Len(u) = Len(a) + Len(b)
              /\ \A i \in 1 .. Len(a) + Len(b) : u[i] = IF i <= Len(a) THEN a[i] ELSE b[i - Len(a)]
            BY <1>1, ConcatProperties
        <3>2. Len(a) = r - 1 /\ Len(b) = N - r
            BY <1>1
        <3> HIDE DEF u, N
        <3>3. u \in Seq(Lines) /\ Len(u) = N - 1 /\ (\A i \in 1 .. r - 1 : u[i] = a[i])
              /\ (\A i \in r .. N - 1 : u[i] = b[i - (r - 1)])
            BY <1>0, <3>1, <3>2
        <3> QED
            BY <3>3 DEF u
    <2>2. \A i \in r .. N - 1 : i - (r - 1) \in 1 .. N - r /\ r + (i - (r - 1)) = i + 1
        BY <1>0
    <2>3. \A i \in r .. N - 1 : b[i - (r - 1)] = s[i + 1]
        BY <1>1, <2>2
    <2> QED
        BY <1>1, <2>1, <2>3
<1> HIDE DEF a, b, t, N
<1>4. Count(Fence, s) = Count(Fence, t) + 1
    <2>1. Count(Fence, Append(a, Fence)) = Count(Fence, a) + 1 /\ Count(Fence, a) \in Nat /\ Count(Fence, b) \in Nat
        BY <1>1, CountAppend, LineTypes
    <2>2. Count(Fence, t) = Count(Fence, a) + Count(Fence, b)
        BY <1>1, CountConcat
    <2>3. Count(Fence, Append(a, Fence) \o b) = Count(Fence, Append(a, Fence)) + Count(Fence, b)
        BY <1>1, <1>2, CountConcat
    <2>4. Count(Fence, s) = Count(Fence, Append(a, Fence)) + Count(Fence, b)
        BY <1>2, <2>3
    <2> QED
        BY <2>1, <2>2, <2>4
<1>5. Said(t) = Said(s)
    <2>1. Said(Append(a, Fence)) = Said(a)
        BY <1>1, SaidAppend, LineTypes
    <2>2. Said(t) = Said(a) \o Said(b)
        BY <1>1, SaidConcat
    <2>3. Said(Append(a, Fence) \o b) = Said(Append(a, Fence)) \o Said(b)
        BY <1>1, <1>2, SaidConcat
    <2> QED
        BY <1>2, <2>1, <2>2, <2>3
<1>6. ASSUME Plain(s)
      PROVE  Plain(t)
    <2> DEFINE P(k) == IF k < r THEN k ELSE k + 1
    <2>0. DOMAIN t = 1 .. N - 1
        BY <1>0, <1>3
    <2>1. \A k \in 1 .. N - 1 : P(k) \in 1 .. N /\ P(k) # r /\ t[k] = s[P(k)]
        BY <1>0, <1>3
    <2>2. ~InTable(s, r)
        BY <1>0, <1>6, LineTypes DEF Plain
    <2>3. ASSUME NEW k \in 1 .. N - 1, InTable(t, k)
          PROVE  InTable(s, P(k))
        <3>1. PICK i \in 1 .. k - 1 : t[i] = Opening /\ \A j \in i + 1 .. k - 1 : t[j] \in {Prose, Math}
            BY <2>3 DEF InTable
        <3>2. i \in 1 .. N - 1 /\ s[P(i)] = Opening /\ P(i) \in 1 .. P(k) - 1
            BY <1>0, <2>1, <3>1
        <3>3. ASSUME i < r, ~(k < r)
              PROVE  FALSE
            <4>1. i \in 1 .. r - 1 /\ s[i] = Opening
                BY <1>0, <3>2, <3>3
            <4>2. \A j \in i + 1 .. r - 1 : j \in i + 1 .. k - 1 /\ t[j] = s[j]
                BY <1>0, <1>3, <3>3
            <4>3. \A j \in i + 1 .. r - 1 : s[j] \in {Prose, Math}
                BY <3>1, <4>2
            <4> QED
                BY <2>2, <4>1, <4>3 DEF InTable
        <3>4. ASSUME NEW j \in P(i) + 1 .. P(k) - 1
              PROVE  s[j] \in {Prose, Math}
            <4>1. CASE k < r
                <5>1. j \in i + 1 .. k - 1 /\ j \in 1 .. r - 1
                    BY <1>0, <3>4, <4>1
                <5> QED
                    BY <1>3, <3>1, <5>1
            <4>2. CASE ~(i < r)
                <5>1. j - 1 \in i + 1 .. k - 1 /\ j - 1 \in r .. N - 1 /\ (j - 1) + 1 = j
                    BY <1>0, <3>4, <4>2
                <5> QED
                    BY <1>3, <3>1, <5>1
            <4> QED
                BY <3>3, <4>1, <4>2
        <3> QED
            BY <3>2, <3>4 DEF InTable
    <2>4. ASSUME NEW k \in 1 .. N - 1, InTable(s, P(k))
          PROVE  InTable(t, k)
        <3>1. PICK i \in 1 .. P(k) - 1 : s[i] = Opening /\ \A j \in i + 1 .. P(k) - 1 : s[j] \in {Prose, Math}
            BY <2>4 DEF InTable
        <3>2. i # r /\ i \in 1 .. N
            BY <1>0, <3>1, LineTypes
        <3> DEFINE m == IF i < r THEN i ELSE i - 1
        <3>3. m \in 1 .. k - 1 /\ m \in 1 .. N - 1 /\ P(m) = i
            BY <1>0, <3>1, <3>2
        <3>4. t[m] = Opening
            BY <2>1, <3>1, <3>3
        <3>5. ASSUME NEW j \in m + 1 .. k - 1
              PROVE  t[j] \in {Prose, Math}
            <4>1. j \in 1 .. N - 1 /\ P(j) \in i + 1 .. P(k) - 1
                BY <1>0, <3>2, <3>3
            <4> QED
                BY <2>1, <3>1, <4>1
        <3> QED
            BY <3>3, <3>4, <3>5 DEF InTable
    <2>5. \A k \in 1 .. N - 1 : (s[P(k)] \in {Opening, Fence} => ~InTable(s, P(k))) /\ (s[P(k)] = Closing => InTable(s, P(k)))
        BY <1>0, <1>6, <2>1 DEF Plain
    <2> HIDE DEF P
    <2> QED
        BY <2>0, <2>1, <2>3, <2>4, <2>5 DEF Plain
<1> QED
    BY <1>3, <1>4, <1>5, <1>6 DEF t

\* PairFences leaves an even number of fences, and a plain text plain.
LEMMA FencesPaired ==
    ASSUME NEW s \in Seq(Lines)
    PROVE  /\ PairFences(s) \in Seq(Lines)
           /\ Count(Fence, PairFences(s)) % 2 = 0
           /\ Said(PairFences(s)) = Said(s)
           /\ Plain(s) => Plain(PairFences(s))
<1> DEFINE fences == {i \in DOMAIN s : s[i] = Fence}
           r == CHOOSE i \in fences : \A j \in fences : j <= i
<1>1. Cardinality(fences) = Count(Fence, s)
    BY DEF Count
<1>2. PairFences(s) = IF Cardinality(fences) % 2 = 0 THEN s ELSE RemoveAt(s, r)
    BY DEF PairFences
<1>3. Count(Fence, s) \in Nat
    BY CountAppend, LineTypes
<1>4. CASE Count(Fence, s) % 2 = 0
    <2>1. PairFences(s) = s
        BY <1>1, <1>2, <1>4
    <2> QED
        BY <1>4, <2>1
<1>5. CASE Count(Fence, s) % 2 # 0
    <2>1. r \in DOMAIN s /\ s[r] = Fence
        BY <1>5, LastFence
    <2> HIDE DEF r, fences
    <2>2. PairFences(s) = RemoveAt(s, r)
        BY <1>1, <1>2, <1>5
    <2> DEFINE t == RemoveAt(s, r)
    <2>3. t \in Seq(Lines) /\ Count(Fence, s) = Count(Fence, t) + 1 /\ Said(t) = Said(s) /\ (Plain(s) => Plain(t))
        BY <2>1, WithoutFence
    <2> HIDE DEF t
    <2>4. Count(Fence, t) \in Nat
        BY <2>3, CountAppend, LineTypes
    <2>5. Count(Fence, t) % 2 = 0
        BY <1>5, <2>3, <2>4, Parity
    <2> QED
        BY <2>2, <2>3, <2>5 DEF t
<1> QED
    BY <1>4, <1>5

\* A place opens a listing if the fences before it are in pairs.
LEMMA StartsStep ==
    ASSUME NEW s \in Seq(Lines), NEW n \in 0 .. Len(s) - 1
    PROVE  Starts(s, n + 1) = IF s[n + 1] = Fence /\ Count(Fence, SubSeq(s, 1, n)) % 2 = 0
                              THEN Starts(s, n) \cup {n + 1} ELSE Starts(s, n)
<1> DEFINE Opens(j) == s[j] = Fence /\ Count(Fence, Before(s, j)) % 2 = 0
<1>1. Len(s) \in Nat /\ DOMAIN s = 1 .. Len(s) /\ n + 1 \in DOMAIN s /\ n \in Nat
    OBVIOUS
<1>2. Before(s, n + 1) = SubSeq(s, 1, n)
    BY <1>1 DEF Before
<1>3. Opens(n + 1) <=> s[n + 1] = Fence /\ Count(Fence, SubSeq(s, 1, n)) % 2 = 0
    BY <1>2
<1>4. Starts(s, n) = {j \in DOMAIN s : Opens(j) /\ j <= n} /\ Starts(s, n + 1) = {j \in DOMAIN s : Opens(j) /\ j <= n + 1}
    BY DEF Starts
<1> HIDE DEF Opens
<1>5. \A j \in DOMAIN s : j <= n + 1 <=> (j <= n \/ j = n + 1)
    BY <1>1
<1>6. Starts(s, n + 1) = IF Opens(n + 1) THEN Starts(s, n) \cup {n + 1} ELSE Starts(s, n)
    BY <1>1, <1>4, <1>5
<1> QED
    BY <1>3, <1>6

\* A listing keeps both its fences or neither: the fences that are left are in
\* pairs, and a line that is still in a listing was in one.
PairsSoFar(s, u, n) ==
    /\ Count(Fence, SubSeq(u, 1, n)) % 2 = 1 => Count(Fence, SubSeq(s, 1, n)) % 2 = 1
    /\ Count(Fence, SubSeq(s, 1, n)) % 2 = 1 =>
           (Count(Fence, SubSeq(u, 1, n)) % 2 = 0 <=> IsPseudocode(s, Block(s, n)))

\* A line more keeps that.
LEMMA PairsSoFarGrows ==
    ASSUME NEW s \in Seq(Lines), NEW u \in Seq(Lines), Len(u) = Len(s), NEW n \in 0 .. Len(s) - 1,
           \A i \in DOMAIN s : u[i] = IF s[i] = Fence /\ IsPseudocode(s, Block(s, i)) THEN Empty ELSE s[i],
           PairsSoFar(s, u, n)
    PROVE  PairsSoFar(s, u, n + 1)
<1> DEFINE p == SubSeq(s, 1, n)  x == s[n + 1]  q == SubSeq(u, 1, n)  y == u[n + 1]
           a == Count(Fence, q) % 2  b == Count(Fence, p) % 2
           aa == Count(Fence, Append(q, y)) % 2  bb == Count(Fence, Append(p, x)) % 2
<1>1. n + 1 \in DOMAIN s /\ p \in Seq(Lines) /\ x \in Lines /\ SubSeq(s, 1, n + 1) = Append(p, x)
    BY PrefixGrows
<1>2. q \in Seq(Lines) /\ y \in Lines /\ SubSeq(u, 1, n + 1) = Append(q, y)
    BY PrefixGrows
<1>3. y = IF x = Fence /\ IsPseudocode(s, Block(s, n + 1)) THEN Empty ELSE x
    BY <1>1
<1>4. Starts(s, n + 1) = IF x = Fence /\ b = 0 THEN Starts(s, n) \cup {n + 1} ELSE Starts(s, n)
    BY StartsStep
<1>5. (a = 1 => b = 1) /\ (b = 1 => (a = 0 <=> IsPseudocode(s, Block(s, n))))
    BY DEF PairsSoFar
<1>6. PairsSoFar(s, u, n + 1) <=>
          (aa = 1 => bb = 1) /\ (bb = 1 => (aa = 0 <=> IsPseudocode(s, Block(s, n + 1))))
    BY <1>1, <1>2 DEF PairsSoFar
<1> HIDE DEF p, q, x, y
<1>7. bb = (IF x = Fence THEN 1 - b ELSE b) /\ b \in {0, 1}
    BY <1>1, LineAdds, Parity
<1>8. aa = (IF y = Fence THEN 1 - a ELSE a) /\ a \in {0, 1}
    BY <1>2, LineAdds, Parity
<1> HIDE DEF a, b, aa, bb
<1>9. ASSUME x # Fence \/ b = 1
      PROVE  Block(s, n + 1) = Block(s, n)
    <2>1. Starts(s, n + 1) = Starts(s, n)
        BY <1>4, <1>9
    <2> QED
        BY <2>1 DEF Block
<1>10. Fence # Empty
    BY LineTypes
<1>11. CASE x # Fence
    BY <1>3, <1>5, <1>6, <1>7, <1>8, <1>9, <1>11
<1>12. CASE x = Fence /\ b = 1
    BY <1>3, <1>5, <1>6, <1>7, <1>8, <1>9, <1>10, <1>12
<1>13. CASE x = Fence /\ b = 0
    BY <1>3, <1>5, <1>6, <1>7, <1>8, <1>10, <1>13
<1> QED
    BY <1>7, <1>11, <1>12, <1>13

\* UnfencePseudocode takes fences away in pairs, and touches nothing else.
LEMMA Unfenced ==
    ASSUME NEW s \in Seq(Lines), Count(Fence, s) % 2 = 0
    PROVE  /\ UnfencePseudocode(s) \in Seq(Lines)
           /\ Count(Fence, UnfencePseudocode(s)) % 2 = 0
           /\ Depth(UnfencePseudocode(s)) = Depth(s)
           /\ Said(UnfencePseudocode(s)) = Said(s)
           /\ WellNested(s) => WellNested(UnfencePseudocode(s))
           /\ InListings(s) = {} => InListings(UnfencePseudocode(s)) = {}
<1> DEFINE u == UnfencePseudocode(s)
<1>0. Len(s) \in 0 .. Len(s)
    OBVIOUS
<1>1. u \in Seq(Lines) /\ Len(u) = Len(s) /\ DOMAIN u = DOMAIN s /\ DOMAIN s = 1 .. Len(s) /\ Len(s) \in Nat
    BY LineTypes DEF UnfencePseudocode
<1>2. \A i \in DOMAIN s : s[i] \in Lines /\ u[i] = IF s[i] = Fence /\ IsPseudocode(s, Block(s, i)) THEN Empty ELSE s[i]
    BY DEF UnfencePseudocode
<1> HIDE DEF u
<1>3. \A i \in DOMAIN s : s[i] = u[i] \/ (s[i] \in {Fence, Float, Empty} /\ u[i] \in {Fence, Float, Empty})
    BY <1>2
<1>4. \A n \in 0 .. Len(s) : /\ Depth(SubSeq(s, 1, n)) = Depth(SubSeq(u, 1, n))
                             /\ Said(SubSeq(s, 1, n)) = Said(SubSeq(u, 1, n))
    BY <1>1, <1>3, Alike
<1>5. SubSeq(s, 1, Len(s)) = s /\ SubSeq(u, 1, Len(s)) = u /\ SubSeq(s, 1, 0) = <<>> /\ SubSeq(u, 1, 0) = <<>>
    BY <1>1, PrefixGrows
<1>6. \A n \in 0 .. Len(s) : PairsSoFar(s, u, n)
    <2> DEFINE T == {n \in 0 .. Len(s) : PairsSoFar(s, u, n)}
    <2>1. 0 \in T
        <3>1. Count(Fence, <<>>) = 0
            <4>1. {i \in DOMAIN <<>> : (<<>>)[i] = Fence} = {}
                OBVIOUS
            <4> QED
                BY <4>1, FS_EmptySet DEF Count
        <3>2. 0 % 2 = 0 /\ 0 \in 0 .. Len(s)
            BY <1>1
        <3>4. Count(Fence, SubSeq(u, 1, 0)) % 2 = 0 /\ Count(Fence, SubSeq(s, 1, 0)) % 2 = 0
            BY <1>5, <3>1, <3>2
        <3>3. PairsSoFar(s, u, 0)
            BY <3>4 DEF PairsSoFar
        <3> QED
            BY <3>2, <3>3
    <2>2. ASSUME NEW n \in 0 .. Len(s) - 1, n \in T
          PROVE  n + 1 \in T
        <3>1. PairsSoFar(s, u, n + 1)
            BY <1>1, <1>2, <2>2, PairsSoFarGrows
        <3> QED
            BY <1>1, <3>1
    <2> HIDE DEF T
    <2>3. \A n \in 0 .. Len(s) : n \in T
        BY <1>1, <2>1, <2>2, UpTo
    <2> QED
        BY <2>3 DEF T
<1>7. Count(Fence, u) % 2 = 0
    <2>1. PairsSoFar(s, u, Len(s))
        BY <1>0, <1>6
    <2>2. Count(Fence, u) % 2 # 1
        <3>1. SubSeq(u, 1, Len(s)) = u /\ SubSeq(s, 1, Len(s)) = s
            BY <1>1, <1>5
        <3>2. (Count(Fence, u) % 2 = 1) => (Count(Fence, s) % 2 = 1)
            BY <2>1, <3>1 DEF PairsSoFar
        <3> QED
            BY <3>2
    <2>3. Count(Fence, u) \in Nat
        BY <1>1, CountAppend, LineTypes
    <2> QED
        BY <2>2, <2>3, Parity
<1>8. Depth(u) = Depth(s) /\ Said(u) = Said(s)
    BY <1>0, <1>1, <1>4, <1>5
<1>9. WellNested(s) => WellNested(u)
    BY <1>1, <1>4 DEF WellNested
<1>10. ASSUME NEW i \in Tables(u), Fenced(u, i)
       PROVE  i \in Tables(s) /\ Fenced(s, i)
    <2>1. i \in DOMAIN s /\ s[i] \in {Opening, Closing} /\ s[i] # Fence
        BY <1>1, <1>2, LineTypes DEF Tables
    <2>2. i - 1 \in 0 .. Len(s)
        BY <1>1, <2>1
    <2>3. Count(Fence, SubSeq(u, 1, i - 1)) % 2 = 1
        BY <1>10 DEF Fenced, Before
    <2>4. Count(Fence, SubSeq(s, 1, i - 1)) % 2 = 1
        BY <1>6, <2>2, <2>3 DEF PairsSoFar
    <2> QED
        BY <2>1, <2>4 DEF Tables, Fenced, Before
<1>11. InListings(s) = {} => InListings(u) = {}
    BY <1>10 DEF InListings
<1> QED
    BY <1>1, <1>7, <1>8, <1>9, <1>11 DEF u

-----------------------------------------------------------------------------
(* The repair                                                              *)

\* What the passes before one have achieved, on a text o that is now m.
RepairedSoFar(o, m, now) ==
    /\ o \in Seq(Lines) /\ m \in Seq(Lines) /\ Said(m) = Said(o)
    /\ now = "fences" => m = o
    /\ now # "fences" => Count(Fence, m) % 2 = 0
    /\ now \in {"floats", "tables"} => (Plain(o) => Plain(m))
    /\ now = "tables" => \A i \in DOMAIN m : m[i] # Float
    /\ now \in {"lift", "unfence", "done"} => Depth(m) <= 0 /\ (Plain(o) => Depth(m) = 0)
    /\ now = "lift" => (Plain(o) => Tidy(m))
    /\ now \in {"unfence", "done"} => (Plain(o) => WellNested(m) /\ InListings(m) = {})

MarkdownInv == RepairedSoFar(original, markdown, pass)

\* A text that was read is as it was read.
LEMMA RepairBegins == RepairInit => MarkdownInv
<1> SUFFICES ASSUME RepairInit
             PROVE  MarkdownInv
    OBVIOUS
<1>1. PICK n \in 0 .. MaxLines : original \in [1 .. n -> Lines]
    BY DEF RepairInit
<1>2. n \in Nat
    OBVIOUS
<1>3. original \in Seq(Lines)
    BY <1>1, <1>2
<1> QED
    BY <1>3 DEF RepairInit, MarkdownInv, RepairedSoFar

\* Each pass finds what it needs and leaves what the next needs.
LEMMA RepairGoesOn == MarkdownInv /\ [RepairNext]_repairVars => MarkdownInv'
<1> SUFFICES ASSUME MarkdownInv, [RepairNext]_repairVars
             PROVE  MarkdownInv'
    OBVIOUS
<1> DEFINE s == markdown
<1>1. /\ original \in Seq(Lines) /\ s \in Seq(Lines)
      /\ Said(s) = Said(original)
    BY DEF MarkdownInv, RepairedSoFar
<1>2. CASE UNCHANGED repairVars
    BY <1>2 DEF MarkdownInv, repairVars
<1>3. CASE Pass("fences", PairFences, "floats")
    <2>1. /\ pass = "fences" /\ pass' = "floats" /\ markdown' = PairFences(s) /\ original' = original
          /\ s = original
        BY <1>3 DEF Pass, MarkdownInv, RepairedSoFar
    <2> DEFINE t == PairFences(s)
    <2>2. t \in Seq(Lines) /\ Count(Fence, t) % 2 = 0 /\ Said(t) = Said(s) /\ (Plain(s) => Plain(t))
        BY <1>1, FencesPaired
    <2> HIDE DEF t
    <2>3. RepairedSoFar(original, t, "floats")
        BY <1>1, <2>1, <2>2 DEF RepairedSoFar
    <2> QED
        BY <2>1, <2>3 DEF MarkdownInv, t
<1>4. CASE Pass("floats", DropFloats, "tables")
    <2>1. /\ pass = "floats" /\ pass' = "tables" /\ markdown' = DropFloats(s) /\ original' = original
          /\ Count(Fence, s) % 2 = 0 /\ (Plain(original) => Plain(s))
        BY <1>4 DEF Pass, MarkdownInv, RepairedSoFar
    <2> DEFINE t == DropFloats(s)
    <2>2. t \in Seq(Lines) /\ Count(Fence, t) = Count(Fence, s) /\ Said(t) = Said(s) /\ (Plain(s) => Plain(t))
          /\ \A i \in DOMAIN t : t[i] # Float
        BY <1>1, FloatsDropped
    <2> HIDE DEF t
    <2>3. RepairedSoFar(original, t, "tables")
        BY <1>1, <2>1, <2>2 DEF RepairedSoFar
    <2> QED
        BY <2>1, <2>3 DEF MarkdownInv, t
<1>5. CASE Pass("tables", CloseTables, "lift")
    <2>1. /\ pass = "tables" /\ pass' = "lift" /\ markdown' = CloseTables(s) /\ original' = original
          /\ Count(Fence, s) % 2 = 0 /\ (Plain(original) => Plain(s)) /\ \A i \in DOMAIN s : s[i] # Float
        BY <1>5 DEF Pass, MarkdownInv, RepairedSoFar
    <2> DEFINE t == CloseTables(s)
    <2>2. t \in Seq(Lines) /\ Count(Fence, t) = Count(Fence, s) /\ Said(t) = Said(s) /\ Depth(t) <= 0
        BY <1>1, ClosedTables DEF Copies
    <2>3. Plain(original) => Tidy(t) /\ Depth(t) = 0
        BY <1>1, <2>1, PlainTablesClosed
    <2> HIDE DEF t
    <2>4. RepairedSoFar(original, t, "lift")
        BY <1>1, <2>1, <2>2, <2>3 DEF RepairedSoFar
    <2> QED
        BY <2>1, <2>4 DEF MarkdownInv, t
<1>6. CASE Pass("lift", LiftTables, "unfence")
    <2>1. /\ pass = "lift" /\ pass' = "unfence" /\ markdown' = LiftTables(s) /\ original' = original
          /\ Count(Fence, s) % 2 = 0 /\ Depth(s) <= 0 /\ (Plain(original) => Tidy(s) /\ Depth(s) = 0)
        BY <1>6 DEF Pass, MarkdownInv, RepairedSoFar
    <2> DEFINE t == LiftTables(s)
    <2>2. t \in Seq(Lines) /\ Count(Fence, t) % 2 = 0 /\ Said(t) = Said(s) /\ Depth(t) = Depth(s)
          /\ (Tidy(s) /\ Depth(s) = 0 => WellNested(t) /\ InListings(t) = {})
        BY <1>1, <2>1, LiftedTables
    <2> HIDE DEF t
    <2>3. RepairedSoFar(original, t, "unfence")
        BY <1>1, <2>1, <2>2 DEF RepairedSoFar
    <2> QED
        BY <2>1, <2>3 DEF MarkdownInv, t
<1>7. CASE Pass("unfence", UnfencePseudocode, "done")
    <2>1. /\ pass = "unfence" /\ pass' = "done" /\ markdown' = UnfencePseudocode(s) /\ original' = original
          /\ Count(Fence, s) % 2 = 0 /\ Depth(s) <= 0
          /\ (Plain(original) => Depth(s) = 0 /\ WellNested(s) /\ InListings(s) = {})
        BY <1>7 DEF Pass, MarkdownInv, RepairedSoFar
    <2> DEFINE t == UnfencePseudocode(s)
    <2>2. t \in Seq(Lines) /\ Count(Fence, t) % 2 = 0 /\ Said(t) = Said(s) /\ Depth(t) = Depth(s)
          /\ (WellNested(s) => WellNested(t)) /\ (InListings(s) = {} => InListings(t) = {})
        BY <1>1, <2>1, Unfenced
    <2> HIDE DEF t
    <2>3. RepairedSoFar(original, t, "done")
        BY <1>1, <2>1, <2>2 DEF RepairedSoFar
    <2> QED
        BY <2>1, <2>3 DEF MarkdownInv, t
<1> QED
    BY <1>2, <1>3, <1>4, <1>5, <1>6, <1>7 DEF RepairNext

\* A repaired page has its fences in pairs, no table without an end, and says
\* what it said; a plain one has its tables whole and outside of listings
\* (fulltext.py, normalize_nougat_markdown), for texts of any length.
THEOREM RepairsRender == RepairSpec => []TextIsRenderable
<1>1. MarkdownInv => TextIsRenderable
    BY DEF MarkdownInv, RepairedSoFar, TextIsRenderable
<1> QED
    BY <1>1, RepairBegins, RepairGoesOn, PTL DEF RepairSpec

=============================================================================
