------------------------- MODULE CreatorPagesProofs -------------------------
(***************************************************************************)
(* Theorems about CreatorPages for any polls, drafts and number of calls.  *)
(***************************************************************************)
EXTENDS CreatorPages, SequenceTheorems, WellFoundedInduction, TLAPS

-----------------------------------------------------------------------------
\* The identifiers of a new poll's options.

NatLess == {ss \in Nat \X Nat : ss[1] < ss[2]}

LEMMA LeastNumber ==
    ASSUME NEW T \in SUBSET Nat, T # {}
    PROVE  \E x \in T : \A y \in T : ~(y < x)
<1>1. IsWellFoundedOn(NatLess, Nat)
  BY NatLessThanWellFounded DEF OpToRel, NatLess
<1>2. \E x \in T : \A y \in T : ~(<<y, x>> \in NatLess)
  BY WFMin, <1>1
<1>3. QED
  BY <1>2 DEF NatLess

\* f is what a loop of n passes goes through, from z.
Passes(f, S, z, step, n) ==
    /\ f \in [0 .. n -> S] /\ f[0] = z
    /\ \A i \in 1 .. n : f[i] = step[<<i, f[i - 1]>>]

LEMMA PassesExist ==
    ASSUME NEW S, NEW z \in S, NEW n \in Nat,
           NEW step \in [(1 .. n) \X S -> S]
    PROVE  \E f : Passes(f, S, z, step, n)
<1> DEFINE T == {m \in 0 .. n : ~ \E f : Passes(f, S, z, step, m)}
<1> SUFFICES ASSUME T # {} PROVE FALSE
  OBVIOUS
<1>1. PICK m \in T : \A k \in T : ~(k < m)
  <2>1. T \in SUBSET Nat
    OBVIOUS
  <2>2. QED BY <2>1, LeastNumber
<1>2. m # 0
  <2>1. Passes([i \in 0 .. 0 |-> z], S, z, step, 0)
    BY DEF Passes
  <2>2. QED BY <2>1
<1>3. m \in 1 .. n /\ m - 1 \in 0 .. n /\ m - 1 \notin T
  BY <1>1, <1>2
<1>4. PICK f : Passes(f, S, z, step, m - 1)
  BY <1>3
<1> DEFINE g == [i \in 0 .. m |-> IF i = m THEN step[<<m, f[m - 1]>>] ELSE f[i]]
<1>5. f[m - 1] \in S /\ step[<<m, f[m - 1]>>] \in S
  BY <1>3, <1>4 DEF Passes
<1>6. \A i \in 0 .. m - 1 : g[i] = f[i] /\ f[i] \in S
  BY <1>3, <1>4 DEF Passes
<1>7. g \in [0 .. m -> S] /\ g[0] = z
  BY <1>3, <1>4, <1>5, <1>6 DEF Passes
<1>8. \A i \in 1 .. m : g[i] = step[<<i, g[i - 1]>>]
  <2>1. TAKE i \in 1 .. m
  <2>2. i - 1 \in 0 .. m - 1 /\ g[i - 1] = f[i - 1]
    BY <1>3, <1>6
  <2>3. CASE i = m
    <3>1. i \in 0 .. m /\ g[i] = step[<<m, f[m - 1]>>]
      BY <1>3, <2>3
    <3>2. QED BY <2>2, <2>3, <3>1
  <2>4. CASE i # m
    <3>1. i \in 1 .. m - 1 /\ i \in 0 .. m - 1
      BY <1>3, <2>4
    <3>2. f[i] = step[<<i, f[i - 1]>>]
      BY <1>4, <3>1 DEF Passes
    <3>3. QED BY <1>6, <2>2, <3>1, <3>2
  <2>5. QED
    BY <2>3, <2>4
<1>9. Passes(g, S, z, step, m)
  BY <1>7, <1>8 DEF Passes
<1>10. QED
  BY <1>1, <1>9

\* A function that makes these passes is that one.
MakesPasses(g, S, z, step, n) ==
    /\ g[0] = z
    /\ \A i \in 1 .. n : g[i - 1] \in S => g[i] = step[<<i, g[i - 1]>>]

LEMMA PassesOnce ==
    ASSUME NEW S, NEW z, NEW n \in Nat, NEW step, NEW f, Passes(f, S, z, step, n),
           NEW g, MakesPasses(g, S, z, step, n)
    PROVE  \A i \in 0 .. n : g[i] = f[i]
<1> DEFINE T == {m \in 0 .. n : g[m] # f[m]}
<1> SUFFICES ASSUME T # {} PROVE FALSE
  OBVIOUS
<1>1. PICK m \in T : \A k \in T : ~(k < m)
  <2>1. T \in SUBSET Nat
    OBVIOUS
  <2>2. QED BY <2>1, LeastNumber
<1>2. m # 0
  BY DEF Passes, MakesPasses
<1>3. m \in 1 .. n /\ m - 1 \in 0 .. n /\ m - 1 \notin T
  BY <1>1, <1>2
<1>4. g[m - 1] = f[m - 1] /\ f[m - 1] \in S
  BY <1>3 DEF Passes
<1>5. g[m] = f[m]
  BY <1>3, <1>4 DEF Passes, MakesPasses
<1>6. QED
  BY <1>5

LEMMA LeastOfSome ==
    ASSUME NEW T \in SUBSET Nat, T # {}
    PROVE  Min(T) \in T
<1>1. PICK x \in T : \A y \in T : ~(y < x)
  BY LeastNumber
<1>2. \A y \in T : x =< y
  BY <1>1
<1>3. QED
  BY <1>2 DEF Min

LEMMA GreatestOfSome ==
    ASSUME NEW n \in Nat, NEW T \in SUBSET (0 .. n), T # {}
    PROVE  Max(T) \in T
<1> DEFINE R == {n - y : y \in T}
<1>1. R \in SUBSET Nat /\ R # {}
  <2>1. \A y \in T : n - y \in Nat
    OBVIOUS
  <2>2. QED BY <2>1
<1>2. PICK r \in R : \A q \in R : ~(q < r)
  BY <1>1, LeastNumber
<1>3. PICK x \in T : r = n - x
  BY <1>2
<1>4. \A y \in T : x >= y
  BY <1>2, <1>3
<1>5. QED
  BY <1>4 DEF Max

LEMMA TrimSpaceType ==
    ASSUME NEW t \in Text
    PROVE  TrimSpace(t) \in Text
<1> DEFINE ink == {i \in DOMAIN t : t[i] # " "}
<1>1. CASE ink = {}
  <2>1. TrimSpace(t) = <<>>
    BY <1>1 DEF TrimSpace
  <2>2. <<>> \in Text
    BY DEF Text
  <2>3. QED BY <2>1, <2>2
<1>2. CASE ink # {}
  <2>0. Len(t) \in Nat /\ DOMAIN t = 1 .. Len(t)
    BY DEF Text
  <2>1. /\ Len(t) \in Nat
        /\ ink \in SUBSET Nat /\ ink \in SUBSET (0 .. Len(t))
        /\ ink \in SUBSET (1 .. Len(t))
    <3>1. \A i \in ink : i \in 1 .. Len(t)
      BY <2>0
    <3> HIDE DEF ink
    <3>2. \A i \in 1 .. Len(t) : i \in Nat /\ i \in 0 .. Len(t)
      BY <2>0
    <3>3. QED BY <2>0, <3>1, <3>2
  <2>2. Min(ink) \in 1 .. Len(t) /\ Max(ink) \in 1 .. Len(t)
    BY <1>2, <2>1, LeastOfSome, GreatestOfSome
  <2>3. SubSeq(t, Min(ink), Max(ink)) \in Seq(Symbols)
    <3> HIDE DEF ink
    <3>1. t \in Seq(Symbols)
      BY DEF Text
    <3>2. QED BY <2>2, <3>1
  <2>4. QED
    BY <1>2, <2>3 DEF TrimSpace, Text
<1>3. QED
  BY <1>1, <1>2

LEMMA ReplaceType ==
    ASSUME NEW t \in Text, NEW a, NEW b \in Symbols
    PROVE  [i \in DOMAIN t |-> IF t[i] = a THEN b ELSE t[i]] \in Text
<1>1. Len(t) \in Nat /\ DOMAIN t = 1 .. Len(t) /\ \A i \in 1 .. Len(t) : t[i] \in Symbols
  BY DEF Text
<1>2. [i \in 1 .. Len(t) |-> IF t[i] = a THEN b ELSE t[i]] \in Seq(Symbols)
  BY <1>1
<1>3. QED
  BY <1>1, <1>2 DEF Text

LEMMA SlugType ==
    ASSUME NEW t \in Text
    PROVE  ToLower(t) \in Text /\ Slug(t) \in Text
<1>1. {"a", "-"} \subseteq Symbols
  BY SymbolsAssumption DEF SymbolsAssumption
<1>2. \A u \in Text : ToLower(u) \in Text
  BY <1>1, ReplaceType DEF ToLower
<1>3. [i \in DOMAIN t |-> IF t[i] = " " THEN "-" ELSE t[i]] \in Text
  BY <1>1, ReplaceType
<1>4. QED
  BY <1>2, <1>3 DEF Slug

\* What Suffixed puts behind an identifier in place i.
Suffix(i) == <<"-">> \o [k \in 1 .. i |-> "x"]

LEMMA SuffixIs ==
    ASSUME NEW i \in Nat
    PROVE  /\ Suffix(i) \in Text /\ Len(Suffix(i)) = i + 1 /\ Suffix(i)[1] = "-"
           /\ \A k \in 2 .. i + 1 : Suffix(i)[k] = "x"
<1> DEFINE xs == [k \in 1 .. i |-> "x"]
<1>1. {"-", "x"} \subseteq Symbols
  BY SymbolsAssumption DEF SymbolsAssumption
<1>2. xs \in Seq(Symbols) /\ Len(xs) = i /\ \A k \in 1 .. i : xs[k] = "x"
  BY <1>1
<1>3. /\ <<"-">> \in Seq(Symbols) /\ Len(<<"-">>) = 1
      /\ <<"-">>[1] = "-"
  BY <1>1
<1> HIDE DEF xs
<1>4. QED
  BY <1>2, <1>3 DEF Suffix, Text, xs

LEMMA SuffixShows ==
    ASSUME NEW a \in Text, NEW i \in Nat
    PROVE  /\ a \o Suffix(i) \in Text /\ a \o Suffix(i) # a
           /\ Len(a) \in Nat /\ Len(a \o Suffix(i)) = Len(a) + i + 1
           /\ (a \o Suffix(i))[Len(a) + 1] = "-"
           /\ \A k \in Len(a) + 2 .. Len(a) + i + 1 : (a \o Suffix(i))[k] = "x"
<1>1. PICK t \in Seq(Symbols) : t = Suffix(i)
  BY SuffixIs DEF Text
<1>2. /\ Len(t) = i + 1 /\ t[1] = "-"
      /\ \A k \in 2 .. i + 1 : t[k] = "x"
  BY <1>1, SuffixIs
<1>3. PICK s \in Seq(Symbols) : s = a
  BY DEF Text
<1>4. /\ s \o t \in Seq(Symbols) /\ Len(s \o t) = Len(s) + Len(t)
      /\ \A k \in 1 .. Len(s) + Len(t) :
            (s \o t)[k] = IF k <= Len(s) THEN s[k] ELSE t[k - Len(s)]
  BY ConcatProperties
<1>5. Len(s) \in Nat
  OBVIOUS
<1>6. (s \o t)[Len(s) + 1] = "-"
  BY <1>2, <1>4, <1>5
<1>7. \A k \in Len(s) + 2 .. Len(s) + i + 1 : (s \o t)[k] = "x"
  BY <1>2, <1>4, <1>5
<1>8. s \o t # s
  BY <1>2, <1>4, <1>5
<1>9. QED
  BY <1>1, <1>2, <1>3, <1>4, <1>5, <1>6, <1>7, <1>8 DEF Text

\* Options with suffixes have different identifiers, whatever their texts.
LEMMA SuffixesDiffer ==
    ASSUME NEW a \in Text, NEW b \in Text, NEW i \in Nat, NEW j \in Nat, i < j
    PROVE  a \o Suffix(i) # b \o Suffix(j)
<1>0. \A k \in Len(b) + 2 .. Len(b) + j + 1 : (b \o Suffix(j))[k] = "x"
  BY SuffixShows
<1> SUFFICES ASSUME a \o Suffix(i) = b \o Suffix(j) PROVE FALSE
  OBVIOUS
<1>1. /\ Len(a) \in Nat /\ Len(b) \in Nat
      /\ Len(a) + i + 1 = Len(b) + j + 1
  BY SuffixShows
<1>2. Len(a) + 1 \in Len(b) + 2 .. Len(b) + j + 1
  BY <1>1
<1>3. (a \o Suffix(i))[Len(a) + 1] = "-"
  BY SuffixShows
<1>4. (b \o Suffix(j))[Len(a) + 1] = "x"
  BY <1>0, <1>2
<1>5. QED
  BY <1>3, <1>4

LoopState == [ok : BOOLEAN, seen : SUBSET Text, ids : Seq(Text)]
Start == [ok |-> TRUE, seen |-> {}, ids |-> <<>>]

LEMMA SuffixedIs ==
    ASSUME NEW id \in Text, NEW seen, NEW i \in Nat
    PROVE  /\ Suffixed(id, seen, i) \in Text
           /\ \/ Suffixed(id, seen, i) = id /\ IdKey(id) \notin seen
              \/ Suffixed(id, seen, i) = id \o Suffix(i)
<1>1. id \o <<"-">> \o [k \in 1 .. i |-> "x"] = id \o Suffix(i)
  <2>1. PICK s \in Seq(Symbols) : s = id
    BY DEF Text
  <2>2. <<"-">> \in Seq(Symbols) /\ [k \in 1 .. i |-> "x"] \in Seq(Symbols)
    <3>1. {"-", "x"} \subseteq Symbols
      BY SymbolsAssumption DEF SymbolsAssumption
    <3>2. QED BY <3>1
  <2>3. PICK d \in Seq(Symbols) : d = <<"-">>
    BY <2>2
  <2>4. PICK xs \in Seq(Symbols) : xs = [k \in 1 .. i |-> "x"]
    BY <2>2
  <2>5. s \o d \o xs = s \o (d \o xs)
    OBVIOUS
  <2>6. QED
    BY <2>1, <2>3, <2>4, <2>5 DEF Suffix
<1>2. CASE IdKey(id) \in seen
  BY <1>1, <1>2, SuffixShows DEF Suffixed
<1>3. CASE IdKey(id) \notin seen
  BY <1>3 DEF Suffixed
<1>4. QED
  BY <1>2, <1>3

LEMMA KeyTypes ==
    ASSUME NEW t \in Text
    PROVE  TextKey(t) \in Text /\ IdKey(t) \in Text
<1>1. "id:" \in Symbols
  BY SymbolsAssumption DEF SymbolsAssumption
<1>2. <<"id:">> \in Seq(Symbols)
  BY <1>1
<1>3. PICK u \in Seq(Symbols) : u = <<"id:">>
  BY <1>2
<1>4. \A s \in Seq(Symbols) : u \o s \in Seq(Symbols)
  BY ConcatProperties
<1>5. QED
  BY <1>3, <1>4, SlugType DEF TextKey, IdKey, Text

\* What a pass does that accepts its option, and that every pass keeps the types.
LEMMA PassIs ==
    ASSUME NEW text \in Text, NEW i \in Nat, NEW before \in LoopState
    PROVE  LET after == Pass(text, i, before)
               seen == before.seen \cup {TextKey(text)}
               id == Suffixed(Slug(text), seen, i)
           IN /\ after \in LoopState
              /\ after.ok => /\ before.ok /\ TextKey(text) \notin before.seen
                             /\ after.seen = seen \cup {IdKey(id)}
                             /\ after.ids = Append(before.ids, id)
<1> DEFINE after == Pass(text, i, before)
           seen == before.seen \cup {TextKey(text)}
           id == Suffixed(Slug(text), seen, i)
<1>1. id \in Text /\ IdKey(id) \in Text /\ TextKey(text) \in Text
  BY SlugType, SuffixedIs, KeyTypes
<1>2. CASE ~before.ok \/ text = <<>> \/ TextKey(text) \in before.seen
  <2>1. after = [before EXCEPT !.ok = FALSE]
    BY <1>2 DEF Pass
  <2>2. after \in LoopState /\ after.ok = FALSE
    BY <2>1 DEF LoopState
  <2>3. QED BY <2>2
<1>3. CASE ~(~before.ok \/ text = <<>> \/ TextKey(text) \in before.seen)
  <2>1. after = [ok |-> TRUE, seen |-> seen \cup {IdKey(id)}, ids |-> Append(before.ids, id)]
    BY <1>3 DEF Pass
  <2> HIDE DEF after, id
  <2>2. seen \cup {IdKey(id)} \in SUBSET Text /\ Append(before.ids, id) \in Seq(Text)
    BY <1>1 DEF LoopState
  <2>3. after \in LoopState
    BY <2>1, <2>2 DEF LoopState
  <2>4. before.ok
    BY <1>3
  <2>5. after.seen = seen \cup {IdKey(id)} /\ after.ids = Append(before.ids, id)
    BY <2>1
  <2>6. QED BY <1>3, <2>3, <2>4, <2>5 DEF after, id
<1>4. QED
  BY <1>2, <1>3

\* What the loop has done after n options.
Runs(f, texts) ==
    /\ f[0] = Start /\ \A n \in 0 .. Len(texts) : f[n] \in LoopState
    /\ \A n \in 1 .. Len(texts) : f[n] = Pass(TrimSpace(texts[n]), n - 1, f[n - 1])

LoopIs(f, texts) ==
    f = [n \in 0 .. Len(texts) |->
           IF n = 0 THEN Start ELSE Pass(TrimSpace(texts[n]), n - 1, f[n - 1])]

LEMMA LoopRuns ==
    ASSUME NEW texts \in Seq(Text)
    PROVE  \E f : Runs(f, texts) /\ Loop(texts) = f[Len(texts)]
<1> DEFINE n == Len(texts)
           pass(i, before) == Pass(TrimSpace(texts[i]), i - 1, before)
           step == [x \in (1 .. n) \X LoopState |-> pass(x[1], x[2])]
<1>1. n \in Nat /\ Start \in LoopState
  BY DEF Start, LoopState
<1>2. \A i \in 1 .. n : \A b \in LoopState : pass(i, b) \in LoopState
  <2>1. TAKE i \in 1 .. n
  <2>2. i - 1 \in Nat /\ TrimSpace(texts[i]) \in Text
    BY <1>1, TrimSpaceType
  <2>3. QED BY <2>2, PassIs
<1> HIDE DEF pass, n
<1>3. step \in [(1 .. n) \X LoopState -> LoopState]
  BY <1>2
<1>4. \A i \in 1 .. n : \A b \in LoopState : step[<<i, b>>] = pass(i, b)
  OBVIOUS
<1> HIDE DEF step
<1>5. PICK f : Passes(f, LoopState, Start, step, n)
  BY <1>1, <1>3, PassesExist
<1>6. LoopIs(f, texts)
  <2>1. f = [i \in 0 .. n |-> f[i]] /\ f[0] = Start
    BY <1>5 DEF Passes
  <2>2. \A i \in 0 .. n : i # 0 => f[i] = pass(i, f[i - 1])
    <3>1. TAKE i \in 0 .. n
    <3>2. HAVE i # 0
    <3>3. i \in 1 .. n /\ i - 1 \in 0 .. n
      BY <1>1, <3>2
    <3>4. f[i - 1] \in LoopState /\ f[i] = step[<<i, f[i - 1]>>]
      BY <1>5, <3>3 DEF Passes
    <3>5. QED BY <1>4, <3>3, <3>4
  <2>3. QED BY <2>1, <2>2 DEF LoopIs, n, pass
<1>7. Loop(texts) = (CHOOSE g : LoopIs(g, texts))[Len(texts)]
  BY DEF Loop, LoopIs, Start
<1>8. PICK g : LoopIs(g, texts) /\ Loop(texts) = g[Len(texts)]
  BY <1>6, <1>7
<1>9. /\ g[0] = Start
      /\ \A i \in 1 .. n : g[i] = pass(i, g[i - 1])
  BY <1>1, <1>8 DEF LoopIs, n, pass
<1>10. \A i \in 0 .. n : g[i] = f[i]
  <2>1. MakesPasses(g, LoopState, Start, step, n)
    BY <1>4, <1>9 DEF MakesPasses
  <2>2. QED BY <1>1, <1>5, <2>1, PassesOnce
<1>11. \A i \in 0 .. n : g[i] \in LoopState
  BY <1>5, <1>10 DEF Passes
<1>12. QED
  BY <1>8, <1>9, <1>11 DEF Runs, n, pass

\* The identifiers of the first n options, s being their slugs: each one is
\* looked up behind all of them, unless it was given a suffix.
Apart(texts, st, n) ==
    /\ Len(st.ids) = n
    /\ \A i \in 1 .. n :
          /\ TextKey(TrimSpace(texts[i])) \in st.seen /\ IdKey(st.ids[i]) \in st.seen
          /\ \/ st.ids[i] = Slug(TrimSpace(texts[i]))
             \/ st.ids[i] = Slug(TrimSpace(texts[i])) \o Suffix(i - 1)
          /\ \A j \in 1 .. i - 1 :
                /\ TextKey(TrimSpace(texts[j])) # TextKey(TrimSpace(texts[i]))
                /\ \/ st.ids[j] # st.ids[i]
                   \/ st.ids[i] = Slug(TrimSpace(texts[i])) \o Suffix(i - 1)

LEMMA PassApart ==
    ASSUME NEW texts \in Seq(Text), NEW n \in Nat, n + 1 \in 1 .. Len(texts),
           NEW before \in LoopState, Apart(texts, before, n),
           NEW after, after = Pass(TrimSpace(texts[n + 1]), n, before), after.ok
    PROVE  Apart(texts, after, n + 1)
<1> DEFINE text == TrimSpace(texts[n + 1])
           seen == before.seen \cup {TextKey(text)}
           id == Suffixed(Slug(text), seen, n)
<1>1. text \in Text /\ Slug(text) \in Text
  BY TrimSpaceType, SlugType
<1>2. /\ TextKey(text) \notin before.seen
      /\ after.seen = seen \cup {IdKey(id)}
      /\ after.ids = Append(before.ids, id)
  BY <1>1, PassIs
<1>3. /\ id \in Text
      /\ \/ id = Slug(text) /\ IdKey(id) \notin seen
         \/ id = Slug(text) \o Suffix(n)
  BY <1>1, SuffixedIs
<1>4. before.ids \in Seq(Text) /\ Len(before.ids) = n
  BY DEF LoopState, Apart
<1> HIDE DEF id
<1>5. /\ Len(after.ids) = n + 1 /\ after.ids[n + 1] = id
      /\ \A i \in 1 .. n : after.ids[i] = before.ids[i]
  BY <1>2, <1>3, <1>4
<1>6. \A i \in 1 .. n : before.ids[i] # id \/ id = Slug(text) \o Suffix(n)
  BY <1>3 DEF Apart
<1>7. \A i \in 1 .. n : TextKey(TrimSpace(texts[i])) # TextKey(text)
  BY <1>2 DEF Apart
<1>8. ASSUME NEW i \in 1 .. n + 1
      PROVE  /\ TextKey(TrimSpace(texts[i])) \in after.seen
             /\ IdKey(after.ids[i]) \in after.seen
             /\ \/ after.ids[i] = Slug(TrimSpace(texts[i]))
                \/ after.ids[i] = Slug(TrimSpace(texts[i])) \o Suffix(i - 1)
             /\ \A j \in 1 .. i - 1 :
                   /\ TextKey(TrimSpace(texts[j])) # TextKey(TrimSpace(texts[i]))
                   /\ \/ after.ids[j] # after.ids[i]
                      \/ after.ids[i] = Slug(TrimSpace(texts[i])) \o Suffix(i - 1)
  <2>1. CASE i = n + 1
    <3>1. i - 1 = n
      BY <2>1
    <3>2. QED BY <1>2, <1>3, <1>5, <1>6, <1>7, <2>1, <3>1
  <2>2. CASE i # n + 1
    <3>1. i \in 1 .. n /\ \A j \in 1 .. i - 1 : j \in 1 .. n
      BY <2>2
    <3>2. QED BY <1>2, <1>5, <3>1 DEF Apart
  <2>3. QED BY <2>1, <2>2
<1>9. QED
  BY <1>5, <1>8 DEF Apart

LEMMA LoopApart ==
    ASSUME NEW texts \in Seq(Text), Loop(texts).ok
    PROVE  Apart(texts, Loop(texts), Len(texts)) /\ Loop(texts) \in LoopState
<1>1. PICK f : Runs(f, texts) /\ Loop(texts) = f[Len(texts)]
  BY LoopRuns
<1> DEFINE T == {m \in 0 .. Len(texts) : f[m].ok /\ ~Apart(texts, f[m], m)}
<1>2. Len(texts) \in Nat
  OBVIOUS
<1>3. T = {}
  <2> SUFFICES ASSUME T # {} PROVE FALSE
    OBVIOUS
  <2>1. PICK m \in T : \A k \in T : ~(k < m)
    <3>1. T \in SUBSET Nat
      OBVIOUS
    <3>2. QED BY <3>1, LeastNumber
  <2>2. m # 0
    BY <1>1 DEF Runs, Start, Apart
  <2>3. m \in 1 .. Len(texts) /\ m - 1 \in 0 .. Len(texts) /\ m - 1 \notin T
        /\ m - 1 \in Nat /\ m = m - 1 + 1
    BY <1>2, <2>1, <2>2
  <2>4. PICK k \in Nat : k = m - 1
    BY <2>3
  <2>5. f[m] = Pass(TrimSpace(texts[m]), k, f[k]) /\ f[k] \in LoopState
    BY <1>1, <2>3, <2>4 DEF Runs
  <2>6. f[m].ok /\ ~Apart(texts, f[m], m)
    OBVIOUS
  <2>7. f[k].ok
    <3>1. TrimSpace(texts[m]) \in Text
      BY <2>3, TrimSpaceType
    <3>2. Pass(TrimSpace(texts[m]), k, f[k]).ok => f[k].ok
      BY <2>5, <3>1, PassIs
    <3>3. QED BY <2>5, <2>6, <3>2
  <2>8. Apart(texts, f[k], k)
    BY <2>3, <2>4, <2>7
  <2>9. m = k + 1
    BY <2>3, <2>4
  <2>10. Apart(texts, f[m], m)
    BY <2>3, <2>5, <2>6, <2>8, <2>9, PassApart
  <2>11. QED BY <2>6, <2>10
<1>4. f[Len(texts)] \in LoopState
  BY <1>1, <1>2 DEF Runs
<1>5. QED
  BY <1>1, <1>2, <1>3, <1>4

\* What Validate returns nearly is unique.
LEMMA ValidateNearlyUnique ==
    ASSUME NEW texts \in Seq(Text)
    PROVE  Validate(texts) \in Seq(Text) /\ NearlyUnique(texts, Validate(texts))
<1> DEFINE ids == Loop(texts).ids
           slug(i) == Slug(TrimSpace(texts[i]))
<1>1. CASE Validate(texts) = <<>>
  <2>1. <<>> \in Seq(Text) /\ DOMAIN <<>> = {}
    OBVIOUS
  <2>2. QED BY <1>1, <2>1 DEF NearlyUnique
<1>2. CASE Validate(texts) # <<>>
  <2>1. Validate(texts) = ids /\ Loop(texts).ok
    BY <1>2 DEF Validate
  <2>2. Apart(texts, Loop(texts), Len(texts)) /\ Loop(texts) \in LoopState
    BY <2>1, LoopApart
  <2>3. ids \in Seq(Text) /\ DOMAIN ids = 1 .. Len(texts) /\ Len(texts) \in Nat
    BY <2>2 DEF Apart, LoopState
  <2> HIDE DEF ids
  <2>4. ASSUME NEW i \in DOMAIN ids, NEW j \in DOMAIN ids, j < i
        PROVE  /\ ToLower(TrimSpace(texts[i])) # ToLower(TrimSpace(texts[j]))
               /\ ids[i] = ids[j] => ids[i] # slug(i) /\ ids[j] = slug(j)
    <3>1. i \in 1 .. Len(texts) /\ j \in 1 .. i - 1 /\ j \in 1 .. Len(texts)
          /\ i - 1 \in Nat /\ j - 1 \in Nat /\ j - 1 < i - 1
      BY <2>3, <2>4
    <3>2. slug(i) \in Text /\ slug(j) \in Text
      BY <3>1, TrimSpaceType, SlugType
    <3>3. /\ TextKey(TrimSpace(texts[j])) # TextKey(TrimSpace(texts[i]))
          /\ ids[j] # ids[i] \/ ids[i] = slug(i) \o Suffix(i - 1)
          /\ ids[j] = slug(j) \/ ids[j] = slug(j) \o Suffix(j - 1)
      BY <2>2, <3>1 DEF Apart, ids
    <3>4. slug(i) \o Suffix(i - 1) # slug(i)
      BY <3>1, <3>2, SuffixShows
    <3>5. slug(j) \o Suffix(j - 1) # slug(i) \o Suffix(i - 1)
      BY <3>1, <3>2, SuffixesDiffer
    <3>6. QED
      BY <3>3, <3>4, <3>5 DEF TextKey
  <2>5. ASSUME NEW i \in DOMAIN ids, NEW j \in DOMAIN ids, i # j
        PROVE  j < i \/ i < j
    BY <2>3, <2>5
  <2>6. NearlyUnique(texts, ids)
    BY <2>4, <2>5 DEF NearlyUnique
  <2>7. QED BY <2>1, <2>3, <2>6
<1>3. QED
  BY <1>1, <1>2

\* The rows that a form sends.
FilledIs(f, d) ==
    f = [n \in 0 .. Len(d) |->
           IF n = 0 THEN <<>>
           ELSE IF TrimSpace(d[n]) = <<>> THEN f[n - 1] ELSE Append(f[n - 1], d[n])]

LEMMA FilledType ==
    ASSUME NEW d \in Seq(Text)
    PROVE  Filled(d) \in Seq(Text)
<1> DEFINE n == Len(d)
           row(i, rows) == IF TrimSpace(d[i]) = <<>> THEN rows ELSE Append(rows, d[i])
           step == [x \in (1 .. n) \X Seq(Text) |-> row(x[1], x[2])]
<1>1. n \in Nat /\ <<>> \in Seq(Text)
  OBVIOUS
<1>2. \A i \in 1 .. n : \A r \in Seq(Text) : row(i, r) \in Seq(Text)
  OBVIOUS
<1> HIDE DEF row, n
<1>3. step \in [(1 .. n) \X Seq(Text) -> Seq(Text)]
  BY <1>2
<1>4. \A i \in 1 .. n : \A r \in Seq(Text) : step[<<i, r>>] = row(i, r)
  OBVIOUS
<1> HIDE DEF step
<1>5. PICK f : Passes(f, Seq(Text), <<>>, step, n)
  BY <1>1, <1>3, PassesExist
<1>6. FilledIs(f, d)
  <2>1. f = [i \in 0 .. n |-> f[i]] /\ f[0] = <<>>
    BY <1>5 DEF Passes
  <2>2. \A i \in 0 .. n : i # 0 => f[i] = row(i, f[i - 1])
    <3>1. TAKE i \in 0 .. n
    <3>2. HAVE i # 0
    <3>3. i \in 1 .. n /\ i - 1 \in 0 .. n
      BY <1>1, <3>2
    <3>4. f[i - 1] \in Seq(Text) /\ f[i] = step[<<i, f[i - 1]>>]
      BY <1>5, <3>3 DEF Passes
    <3>5. QED BY <1>4, <3>3, <3>4
  <2>3. QED BY <2>1, <2>2 DEF FilledIs, n, row
<1>7. Filled(d) = (CHOOSE g : FilledIs(g, d))[Len(d)]
  BY DEF Filled, FilledIs
<1>8. PICK g : FilledIs(g, d) /\ Filled(d) = g[Len(d)]
  BY <1>6, <1>7
<1>9. g[0] = <<>> /\ \A i \in 1 .. n : g[i] = row(i, g[i - 1])
  <2>1. \A i \in 0 .. n : g[i] = IF i = 0 THEN <<>> ELSE row(i, g[i - 1])
    BY <1>8 DEF FilledIs, n, row
  <2>2. 0 \in 0 .. n /\ \A i \in 1 .. n : i \in 0 .. n /\ i # 0
    BY <1>1
  <2>3. QED BY <2>1, <2>2
<1>10. MakesPasses(g, Seq(Text), <<>>, step, n)
  BY <1>4, <1>9 DEF MakesPasses
<1>11. \A i \in 0 .. n : g[i] = f[i]
  BY <1>1, <1>5, <1>10, PassesOnce
<1>12. n \in 0 .. n
  BY <1>1
<1>13. QED
  BY <1>5, <1>8, <1>11, <1>12 DEF Passes, n

-----------------------------------------------------------------------------
\* The inductive invariant.

Over == {"closed", "gone"}

\* Closed polls stay closed or are deleted, and nothing brings a poll back.
Later(d, e) ==
    \A p \in Polls : /\ d[p] \in Over => e[p] \in Over
                     /\ d[p] = "gone" => e[p] = "gone"

\* What a call in flight knows of the stored polls d.
CallSound(k, d) ==
    /\ k.kind \in {"list", "load"} => k.live
    /\ k.kind = "list" => k.from = "dashboard"
    /\ k.kind = "load" => k.from = "manage"
    /\ k.kind = "create" /\ k.live => k.from = "create"
    /\ k.kind \in {"load", "close", "delete"} => k.poll \in Polls
    /\ k.stage = "sent" => k.reply = "none"
    /\ k.stage = "set" => k.kind = "close" /\ k.reply = "none" /\ d[k.poll] \in Over
    /\ k.stage = "found" => k.kind = "delete" /\ k.reply = "none"
    /\ k.kind \in {"list", "delete", "create"} => k.reply \in {"none", "ok", "failed"}
    /\ k.kind = "load" => k.reply \in {"none", "active", "closed", "failed"}
    /\ k.kind = "close" => k.reply \in {"none", "closed", "failed"}
    /\ k.stage = "answered" /\ k.reply = "none" => k.kind = "close" /\ d[k.poll] = "gone"
    /\ k.reply = "closed" => d[k.poll] \in Over
    /\ k.kind = "delete" /\ k.reply = "ok" => d[k.poll] = "gone"
    /\ k.kind = "create" => k.draft \in {Filled(x) : x \in Drafts}
    /\ k.kind = "create" /\ k.reply = "ok" => k.poll \in Polls /\ k.ids = Validate(k.draft)
    /\ \A p \in Polls : k.list[p] = "closed" => d[p] \in Over

\* A watched call was made by the mounted page g.
Here(k, g) == k.live => k.from = g.at

CallInv == \A c \in Slots : InFlight(c) => CallSound(call[c], db) /\ Here(call[c], page)

ShownInv ==
    /\ \A p \in Polls : page.list[p] = "closed" => db[p] \in Over
    /\ page.status # "none" => page.at = "manage" /\ page.shown \in Polls
    /\ page.status = "closed" => db[page.shown] \in Over

Watched(c, kind) == InFlight(c) /\ call[c].live /\ call[c].kind = kind

\* A dashboard that loads has one call and nothing to click on.
LoadingInv ==
    /\ \A c, d \in Slots : Watched(c, "list") /\ Watched(d, "list") => c = d
    /\ page.at = "dashboard" /\ page.loading =>
          /\ page.asked = None /\ page.list = Nothing
          /\ \A c \in Slots : InFlight(c) /\ call[c].live => call[c].kind = "list"
    /\ page.at = "dashboard" /\ ~page.loading => \A c \in Slots : ~Watched(c, "list")
    /\ \A c \in Slots : Watched(c, "list") /\ call[c].reply = "ok" =>
          \A p \in Polls \ touched : call[c].list[p] = Stored(p)

\* A call that will set the card of p right.
Closing(k, p) ==
    /\ k.live /\ k.kind = "close" /\ k.poll = p
    /\ k.stage = "set" \/ (k.stage = "answered" /\ k.reply = "closed")
Deleting(k, p) ==
    k.live /\ k.kind = "delete" /\ k.poll = p /\ k.stage = "answered" /\ k.reply = "ok"

CloseUnder(p) == \E c \in Slots : InFlight(c) /\ Closing(call[c], p)
DeleteUnder(p) == \E c \in Slots : InFlight(c) /\ Deleting(call[c], p)

\* A card that is not as stored has a call on the way that will say so.
CardInv ==
    page.at = "dashboard" /\ ~page.loading =>
       \A p \in Polls \ touched :
          \/ page.list[p] = Stored(p)
          \/ page.list[p] = "active" /\ db[p] = "closed" /\ CloseUnder(p)
          \/ page.list[p] # "none" /\ db[p] = "gone" /\ DeleteUnder(p)

\* A form has one call in flight, and none once it has made its poll.
FormInv ==
    /\ \A c, d \in Slots : Watched(c, "create") /\ Watched(d, "create") => c = d
    /\ \A c \in Slots : Watched(c, "create") => page.creating /\ page.created = None
    /\ \/ page.lost \/ page.made = 0
       \/ /\ page.made = 1
          /\ \/ page.created # None
             \/ \E c \in Slots : Watched(c, "create") /\ call[c].reply = "ok"

PagesInv == TypeOK /\ CallInv /\ ShownInv /\ LoadingInv /\ CardInv /\ FormInv

LEMMA FreshType ==
    ASSUME NEW at \in Places, NEW p \in MaybePoll
    PROVE  Fresh(at, p) \in Page
<1>1. Nothing \in [Polls -> Shows]
  BY DEF Nothing, Shows
<1>2. None \in MaybePoll /\ (at # "create") \in BOOLEAN
  BY DEF MaybePoll
<1>3. QED
  BY <1>1, <1>2 DEF Fresh, Page, Shows

LEMMA InitPagesInv == Init => PagesInv
<1> SUFFICES ASSUME Init PROVE PagesInv
  OBVIOUS
<1>1. page = Fresh("create", None) /\ \A c \in Slots : ~InFlight(c)
  BY DEF Init, InFlight
<1>2. page \in Page
  BY <1>1, FreshType DEF Places, MaybePoll
<1>3. TypeOK
  BY <1>1, <1>2 DEF TypeOK, Init, Fresh, Slots
<1>4. page.at = "create" /\ page.list = Nothing /\ page.status = "none" /\ page.made = 0
  BY <1>1 DEF Fresh
<1>5. CallInv /\ ShownInv /\ LoadingInv /\ CardInv /\ FormInv
  BY <1>1, <1>4
  DEF CallInv, ShownInv, LoadingInv, CardInv, FormInv, Watched, Nothing
<1>6. QED
  BY <1>3, <1>5 DEF PagesInv

LEMMA SoundLater ==
    ASSUME NEW k \in Call, NEW d, NEW e, CallSound(k, d), Later(d, e)
    PROVE  CallSound(k, e)
<1>1. \A p \in Polls : (d[p] \in Over => e[p] \in Over) /\ (d[p] = "gone" => e[p] = "gone")
  BY DEF Later
<1>2. k.reply = "closed" => k.poll \in Polls
  BY DEF CallSound, Call
<1>3. QED
  BY <1>1, <1>2 DEF CallSound

\* The calls that a step leaves alone, and those it does not.
LEMMA CallsKept ==
    ASSUME TypeOK, CallInv, Later(db, db'),
           \A c \in Slots : call'[c] # None =>
              \/ call'[c] = call[c] /\ page'.at = page.at
              \/ CallSound(call'[c], db') /\ Here(call'[c], page')
    PROVE  CallInv'
<1> SUFFICES ASSUME NEW c \in Slots, call'[c] # None
             PROVE  CallSound(call'[c], db') /\ Here(call'[c], page')
  BY DEF CallInv, InFlight
<1>1. CASE call'[c] = call[c] /\ page'.at = page.at
  <2>1. call[c] \in Call /\ CallSound(call[c], db) /\ Here(call[c], page)
    BY <1>1 DEF TypeOK, CallInv, InFlight
  <2>2. PICK k \in Call : k = call[c]
    BY <2>1
  <2>3. PICK d, e, g, h : d = db /\ e = db' /\ g = page /\ h = page'
    OBVIOUS
  <2>4. CallSound(k, e)
    BY <2>1, <2>2, <2>3, SoundLater
  <2>5. Here(k, h)
    BY <1>1, <2>1, <2>2, <2>3 DEF Here
  <2>6. QED BY <1>1, <2>2, <2>3, <2>4, <2>5
<1>2. QED
  BY <1>1

LEMMA ShownKept ==
    ASSUME ShownInv, Later(db, db'), page'.list = page.list,
           page'.status = page.status, page'.shown = page.shown, page'.at = page.at
    PROVE  ShownInv'
  BY DEF ShownInv, Later

-----------------------------------------------------------------------------
\* What the user does on a page: what is shown stays, and at most one call is
\* sent.

SamePage ==
    /\ page'.at = page.at /\ page'.loading = page.loading /\ page'.list = page.list
    /\ page'.status = page.status /\ page'.shown = page.shown
    /\ page'.poll = page.poll \/ page'.poll \in Polls
    /\ page'.created = page.created /\ page'.made = page.made /\ page'.lost = page.lost

NewlySent(k) ==
    /\ k \in Call /\ k.stage = "sent" /\ k.reply = "none"
    /\ k.kind \in {"load", "delete", "close", "create"}
    /\ CallSound(k, db) /\ Here(k, page)
    /\ k.kind = "create" => ~page.creating /\ page'.creating
                              /\ page.created = None
    /\ ~(page.at = "dashboard" /\ page.loading)

LEMMA UserKeeps ==
    ASSUME PagesInv, UNCHANGED <<db, touched>>, page' \in Page, SamePage,
           page.creating => page'.creating,
           page.at = "dashboard" /\ page.loading => page'.asked = None,
           \/ UNCHANGED call
           \/ \E c \in Slots, k \in Call :
                 call[c] = None /\ call' = [call EXCEPT ![c] = k] /\ NewlySent(k)
    PROVE  PagesInv'
<1> USE DEF PagesInv
<1>1. call' \in [Slots -> Call \cup {None}]
  BY DEF TypeOK
<1>2. TypeOK'
  BY <1>1, NoneAssumption DEF TypeOK, SamePage, NoneAssumption
<1>3. \A c \in Slots :
         \/ call'[c] = call[c]
         \/ /\ call[c] = None /\ call'[c] # None /\ NewlySent(call'[c])
            /\ \A d \in Slots : d # c => call'[d] = call[d]
  BY NoneAssumption DEF TypeOK, NoneAssumption
<1>4. Later(db, db')
  BY DEF Later
<1>5. CallInv'
  <2>1. \A c \in Slots : call'[c] # None =>
           \/ call'[c] = call[c] /\ page'.at = page.at
           \/ CallSound(call'[c], db') /\ Here(call'[c], page')
    BY <1>3 DEF NewlySent, Here, SamePage
  <2>2. QED BY <1>4, <2>1, CallsKept
<1>6. ShownInv'
  BY <1>4, ShownKept DEF SamePage
<1>7. LoadingInv'
  <2>1. \A c \in Slots : Watched(c, "list")' <=> Watched(c, "list")
    BY <1>3 DEF Watched, InFlight, NewlySent
  <2>2. \A c \in Slots : Watched(c, "list") => call'[c] = call[c]
    BY <1>3 DEF Watched, InFlight, NewlySent
  <2>3. page.at = "dashboard" /\ page.loading => call' = call
    BY DEF NewlySent
  <2>4. \A p \in Polls : Stored(p)' = Stored(p)
    BY DEF Stored, Exists
  <2>5. QED
    BY <2>1, <2>2, <2>3, <2>4 DEF LoadingInv, SamePage, InFlight
<1>8. CardInv'
  <2>1. \A p \in Polls : /\ Stored(p)' = Stored(p)
                         /\ CloseUnder(p) => CloseUnder(p)'
                         /\ DeleteUnder(p) => DeleteUnder(p)'
    <3>1. \A c \in Slots : InFlight(c) => call'[c] = call[c]
      BY <1>3 DEF InFlight
    <3>2. QED
      BY <3>1 DEF Stored, Exists, CloseUnder, DeleteUnder, InFlight
  <2>2. QED
    BY <2>1 DEF CardInv, SamePage
<1>9. FormInv'
  <2>1. \A c \in Slots :
           \/ Watched(c, "create")' <=> Watched(c, "create")
           \/ /\ ~page.creating /\ page'.creating /\ page.created = None
              /\ \A d \in Slots : d # c => call'[d] = call[d]
    BY <1>3 DEF Watched, InFlight, NewlySent
  <2>2. \A c \in Slots : Watched(c, "create") => call'[c] = call[c]
    BY <1>3 DEF Watched, InFlight
  <2>3. page'.created = page.created /\ page'.made = page.made /\ page'.lost = page.lost
    BY DEF SamePage
  <2>4. \A c, d \in Slots : Watched(c, "create")' /\ Watched(d, "create")' => c = d
    BY <2>1, <2>2 DEF FormInv, Watched, InFlight
  <2>5. \A c \in Slots : Watched(c, "create")' => page'.creating /\ page'.created = None
    BY <2>1, <2>3 DEF FormInv
  <2>6. \A c \in Slots : Watched(c, "create") /\ call[c].reply = "ok" =>
                              Watched(c, "create")' /\ call'[c].reply = "ok"
    BY <2>2 DEF Watched, InFlight
  <2>7. QED
    BY <2>3, <2>4, <2>5, <2>6 DEF FormInv
<1>10. QED
  BY <1>2, <1>5, <1>6, <1>7, <1>8, <1>9

LEMMA NewCallSound ==
    ASSUME PagesInv, NEW kind \in {"load", "delete", "close", "create"},
           NEW p \in MaybePoll, NEW d \in Seq(Text),
           kind # "create" => p \in Polls,
           kind = "create" => page.at = "create" /\ d \in {Filled(x) : x \in Drafts},
           kind = "load" => page.at = "manage"
    PROVE  LET k == NewCall(kind, p, d)
           IN /\ k \in Call /\ k.stage = "sent" /\ k.reply = "none" /\ k.kind = kind
              /\ CallSound(k, db) /\ Here(k, page)
<1> DEFINE k == NewCall(kind, p, d)
<1>1. page.at \in Places
  BY DEF PagesInv, TypeOK, Page
<1>2. Nothing \in [Polls -> Shows] /\ \A q \in Polls : Nothing[q] = "none"
  BY DEF Nothing, Shows
<1>3. <<>> \in Seq(Text)
  OBVIOUS
<1>4. /\ k = [kind |-> kind, from |-> page.at, poll |-> p, draft |-> d, live |-> TRUE,
              ids |-> <<>>, stage |-> "sent", reply |-> "none", list |-> Nothing]
  BY DEF NewCall
<1> HIDE DEF k
<1>5. k \in Call
  BY <1>1, <1>2, <1>3, <1>4 DEF Call, Shows
<1>6. CallSound(k, db)
  BY <1>2, <1>4 DEF CallSound
<1>7. Here(k, page)
  BY <1>4 DEF Here
<1>8. QED
  BY <1>4, <1>5, <1>6, <1>7 DEF k

LEMMA AskInv ==
    ASSUME PagesInv,
           (\E p \in Polls : AskDelete(p)) \/ CancelDelete \/ AskOnPage \/ CancelOnPage
    PROVE  PagesInv'
<1> USE DEF PagesInv
<1>1. page \in Page
  BY DEF TypeOK
<1>2. UNCHANGED <<db, touched, call>>
  BY DEF AskDelete, CancelDelete, AskOnPage, CancelOnPage
<1>3. /\ page' \in Page /\ SamePage /\ page'.creating = page.creating
      /\ page.at = "dashboard" /\ page.loading => page'.asked = None
  <2>1. CASE \E p \in Polls : AskDelete(p)
    <3>1. PICK p \in Polls : AskDelete(p)
      BY <2>1
    <3>2. page' = [page EXCEPT !.asked = p] /\ page.list[p] # "none"
      BY <3>1 DEF AskDelete, Cards
    <3>3. ~(page.at = "dashboard" /\ page.loading)
      BY <3>2 DEF LoadingInv, Nothing
    <3>4. QED
      BY <1>1, <3>2, <3>3 DEF Page, SamePage, MaybePoll
  <2>2. CASE CancelDelete
    BY <1>1, <2>2 DEF CancelDelete, Page, SamePage, MaybePoll
  <2>3. CASE AskOnPage
    <3>1. /\ page.at = "manage"
          /\ \/ page' = [page EXCEPT !.askDelete = TRUE]
             \/ page' = [page EXCEPT !.askClose = TRUE]
      BY <2>3 DEF AskOnPage
    <3>2. QED
      BY <1>1, <3>1 DEF Page, SamePage
  <2>4. CASE CancelOnPage
    <3>1. page' = [page EXCEPT !.askDelete = FALSE, !.askClose = FALSE]
      BY <2>4 DEF CancelOnPage
    <3>2. page' \in Page /\ page'.asked = page.asked
      BY <1>1, <3>1 DEF Page
    <3>3. QED
      BY <1>1, <3>1, <3>2 DEF Page, SamePage, LoadingInv
  <2>5. QED
    BY <2>1, <2>2, <2>3, <2>4
<1>4. QED
  BY <1>2, <1>3, UserKeeps

LEMMA EmptyDraft == <<>> \in Seq(Text)
  OBVIOUS

LEMMA ChangeSentInv ==
    ASSUME PagesInv, NEW c \in Slots,
           \/ ConfirmDelete(c) \/ DeleteOnPage(c) \/ CloseOnPage(c)
           \/ \E p \in Polls : CloseCard(c, p)
    PROVE  PagesInv'
<1> USE DEF PagesInv
<1>1. /\ page \in Page /\ page.asked \in MaybePoll /\ page.shown \in MaybePoll
      /\ page.status # "none" => page.at = "manage" /\ page.shown \in Polls
  BY DEF TypeOK, Page, MaybePoll, ShownInv
<1>2. UNCHANGED <<db, touched>>
  BY DEF ConfirmDelete, DeleteOnPage, CloseOnPage, CloseCard
<1>3. \A q \in MaybePoll, kind \in {"delete", "close"} :
         /\ q \in Polls
         /\ ~(page.at = "dashboard" /\ page.loading) /\ Send(c, NewCall(kind, q, <<>>))
         => \E k \in Call : /\ call[c] = None /\ call' = [call EXCEPT ![c] = k]
                             /\ NewlySent(k)
  <2>1. SUFFICES ASSUME NEW q \in MaybePoll, NEW kind \in {"delete", "close"},
                        q \in Polls,
                        ~(page.at = "dashboard" /\ page.loading),
                        Send(c, NewCall(kind, q, <<>>))
                 PROVE  LET k == NewCall(kind, q, <<>>)
                        IN /\ k \in Call /\ call[c] = None
                           /\ call' = [call EXCEPT ![c] = k] /\ NewlySent(k)
    OBVIOUS
  <2>2. call[c] = None /\ call' = [call EXCEPT ![c] = NewCall(kind, q, <<>>)]
    BY <2>1 DEF Send, FreeSlot
  <2>3. kind \in {"load", "delete", "close", "create"} /\ kind # "create" /\ kind # "load"
    OBVIOUS
  <2> DEFINE k == NewCall(kind, q, <<>>)
  <2>4. /\ k \in Call /\ k.stage = "sent" /\ k.reply = "none" /\ k.kind = kind
        /\ CallSound(k, db) /\ Here(k, page)
    BY <2>1, <2>3, NewCallSound, EmptyDraft
  <2> HIDE DEF k
  <2>5. NewlySent(k)
    BY <2>1, <2>3, <2>4 DEF NewlySent
  <2>6. QED
    BY <2>2, <2>4, <2>5 DEF k
<1>4. CASE ConfirmDelete(c)
  <2>1. page.asked \in Polls /\ ~(page.at = "dashboard" /\ page.loading)
    BY <1>1, <1>4 DEF ConfirmDelete, LoadingInv, MaybePoll
  <2>2. page' = [page EXCEPT !.asked = None, !.deleting = TRUE]
    BY <1>4 DEF ConfirmDelete
  <2>3. page' \in Page /\ SamePage /\ page'.creating = page.creating
    BY <1>1, <2>2 DEF Page, SamePage, MaybePoll
  <2>4. Send(c, NewCall("delete", page.asked, <<>>))
    BY <1>4 DEF ConfirmDelete
  <2>5. QED
    BY <1>1, <1>2, <1>3, <2>1, <2>3, <2>4, UserKeeps
<1>5. CASE DeleteOnPage(c)
  <2>1. page' = [page EXCEPT !.askDelete = FALSE, !.deleting = TRUE]
    BY <1>5 DEF DeleteOnPage
  <2>2. page' \in Page /\ SamePage /\ page'.creating = page.creating
    BY <1>1, <2>1 DEF Page, SamePage
  <2>3. Send(c, NewCall("delete", page.shown, <<>>)) /\ page.status # "none"
    BY <1>5 DEF DeleteOnPage
  <2>4. page.at = "manage" /\ page.shown \in Polls
    BY <1>1, <2>3
  <2>5. QED
    BY <1>1, <1>2, <1>3, <2>2, <2>3, <2>4, UserKeeps
<1>6. CASE CloseOnPage(c)
  <2>1. page' = [page EXCEPT !.askClose = FALSE, !.closing = TRUE]
    BY <1>6 DEF CloseOnPage
  <2>2. page' \in Page /\ SamePage /\ page'.creating = page.creating
    BY <1>1, <2>1 DEF Page, SamePage
  <2>3. Send(c, NewCall("close", page.shown, <<>>)) /\ page.status # "none"
    BY <1>6 DEF CloseOnPage
  <2>4. page.at = "manage" /\ page.shown \in Polls
    BY <1>1, <2>3
  <2>5. QED
    BY <1>1, <1>2, <1>3, <2>2, <2>3, <2>4, UserKeeps
<1>7. CASE \E p \in Polls : CloseCard(c, p)
  <2>1. PICK p \in Polls : CloseCard(c, p)
    BY <1>7
  <2>2. /\ page.at = "dashboard" /\ page.list[p] = "active" /\ page' = page
        /\ Send(c, NewCall("close", p, <<>>))
    BY <2>1 DEF CloseCard, Cards
  <2>3. ~page.loading
    BY <2>2 DEF LoadingInv, Nothing
  <2>4. SamePage /\ p \in MaybePoll
    BY <2>2 DEF SamePage, MaybePoll
  <2>5. QED
    BY <1>1, <1>2, <1>3, <2>2, <2>3, <2>4, UserKeeps
<1>8. QED
  BY <1>4, <1>5, <1>6, <1>7

LEMMA JumpInv ==
    ASSUME PagesInv, NEW c \in Slots, NEW p \in Polls, Jump(c, p)
    PROVE  PagesInv'
<1> USE DEF PagesInv
<1>1. page \in Page /\ page.at = "manage" /\ p \in MaybePoll
  BY DEF TypeOK, Jump, MaybePoll
<1>2. UNCHANGED <<db, touched>> /\ page' = [page EXCEPT !.poll = p]
  BY DEF Jump
<1>3. page' \in Page /\ SamePage /\ page'.creating = page.creating
  BY <1>1, <1>2 DEF Page, SamePage
<1> DEFINE k == NewCall("load", p, <<>>)
<1>4. call[c] = None /\ call' = [call EXCEPT ![c] = k]
  BY DEF Jump, FreeSlot
<1>5. /\ k \in Call /\ k.stage = "sent" /\ k.reply = "none" /\ k.kind = "load"
      /\ CallSound(k, db) /\ Here(k, page)
  BY <1>1, NewCallSound, EmptyDraft
<1> HIDE DEF k
<1>6. NewlySent(k)
  BY <1>1, <1>5 DEF NewlySent
<1>7. QED
  BY <1>1, <1>2, <1>3, <1>4, <1>5, <1>6, UserKeeps

LEMMA SubmitInv ==
    ASSUME PagesInv, NEW c \in Slots, NEW d \in Drafts, Submit(c, d)
    PROVE  PagesInv'
<1> USE DEF PagesInv
<1>1. page \in Page /\ page.at = "create"
  BY DEF TypeOK, Submit
<1>2. /\ UNCHANGED <<db, touched>> /\ page' = [page EXCEPT !.creating = TRUE]
      /\ ~page.creating /\ page.created = None
  BY DEF Submit
<1>3. page' \in Page /\ SamePage /\ page'.creating
  BY <1>1, <1>2 DEF Page, SamePage
<1> DEFINE k == NewCall("create", None, Filled(d))
<1>4. call[c] = None /\ call' = [call EXCEPT ![c] = k]
  BY DEF Submit, Send, FreeSlot
<1>5. Filled(d) \in Seq(Text) /\ Filled(d) \in {Filled(x) : x \in Drafts}
  BY FilledType, CreatorPagesAssumption DEF CreatorPagesAssumption
<1>6. /\ k \in Call /\ k.stage = "sent" /\ k.reply = "none" /\ k.kind = "create"
      /\ CallSound(k, db) /\ Here(k, page)
  BY <1>1, <1>5, NewCallSound DEF MaybePoll
<1> HIDE DEF k
<1>7. NewlySent(k)
  BY <1>1, <1>2, <1>3, <1>6 DEF NewlySent
<1>8. QED
  BY <1>1, <1>2, <1>3, <1>4, <1>6, <1>7, UserKeeps

-----------------------------------------------------------------------------
\* Navigation: nothing that is still in flight is watched any more.

Left(k, d) == k \in Call /\ ~k.live /\ CallSound(k, d)

LEMMA UnwatchedIsLeft ==
    ASSUME PagesInv
    PROVE  /\ Unwatched \in [Slots -> Call \cup {None}]
           /\ \A c \in Slots : Unwatched[c] # None => Left(Unwatched[c], db)
<1>1. \A c \in Slots : Unwatched[c] = None \/
         (/\ InFlight(c) /\ call[c].kind \notin {"list", "load"}
          /\ Unwatched[c] = [call[c] EXCEPT !.live = FALSE])
  BY DEF Unwatched, Navigates
<1>2. \A k \in Call : k.kind \notin {"list", "load"} /\ CallSound(k, db) =>
                        Left([k EXCEPT !.live = FALSE], db)
  <2>1. TAKE k \in Call
  <2>2. HAVE k.kind \notin {"list", "load"} /\ CallSound(k, db)
  <2>3. [k EXCEPT !.live = FALSE] \in Call
    BY DEF Call
  <2>4. CallSound([k EXCEPT !.live = FALSE], db)
    BY <2>2, <2>3 DEF CallSound, Call
  <2>5. [k EXCEPT !.live = FALSE].live = FALSE
    BY DEF Call
  <2>6. QED
    BY <2>3, <2>4, <2>5 DEF Left
<1>3. ASSUME NEW c \in Slots, Unwatched[c] # None
      PROVE  Left(Unwatched[c], db)
  <2>1. call[c] \in Call /\ CallSound(call[c], db)
    BY <1>1, <1>3 DEF PagesInv, TypeOK, CallInv, InFlight
  <2>2. QED
    BY <1>1, <1>2, <1>3, <2>1
<1>4. Unwatched = [c \in Slots |-> Unwatched[c]]
  BY DEF Unwatched
<1>5. QED
  BY <1>3, <1>4 DEF Left

LEMMA MountInv ==
    ASSUME PagesInv, UNCHANGED <<db, touched>>,
           NEW at \in {"dashboard", "create", "manage"}, NEW p \in MaybePoll,
           at = "manage" => p \in Polls,
           NEW cs \in [Slots -> Call \cup {None}],
           \A c \in Slots : cs[c] # None => Left(cs[c], db),
           Mount(at, p, cs)
    PROVE  PagesInv'
<1> USE DEF PagesInv
<1> DEFINE kind == IF at = "manage" THEN "load" ELSE "list"
           k == [NewCall(kind, p, <<>>) EXCEPT !.from = at]
<1>1. page' = Fresh(at, p) /\ page' \in Page
  BY FreshType DEF Mount, Places
<1>2. /\ page'.at = at /\ page'.loading = (at # "create") /\ page'.list = Nothing
      /\ page'.asked = None /\ page'.poll = p /\ page'.status = "none"
      /\ page'.made = 0
  BY <1>1 DEF Fresh
<1>3. Nothing \in [Polls -> Shows] /\ \A q \in Polls : Nothing[q] = "none"
  BY DEF Nothing, Shows
<1>4. /\ k \in Call /\ k.live /\ k.kind = kind /\ k.from = at /\ k.poll = p
      /\ k.stage = "sent" /\ k.reply = "none" /\ k.list = Nothing
  <2>1. NewCall(kind, p, <<>>) \in Call
    BY <1>3, EmptyDraft DEF NewCall, Call, Shows, TypeOK, Page
  <2>2. k \in Call
    BY <2>1 DEF Call, Places
  <2>3. QED
    BY <2>2 DEF NewCall
<1>5. at # "create" => CallSound(k, db') /\ Here(k, page')
  <2> HIDE DEF k
  <2>1. QED BY <1>2, <1>3, <1>4 DEF CallSound, Here
<1>6. \/ at = "create" /\ call' = cs
      \/ /\ at # "create"
         /\ \E c \in Slots : call' = [cs EXCEPT ![c] = k]
  BY DEF Mount
<1> HIDE DEF k
<1>7. /\ call' \in [Slots -> Call \cup {None}]
      /\ \A c \in Slots : call'[c] # None =>
            \/ Left(call'[c], db)
            \/ at # "create" /\ call'[c] = k /\ \A d \in Slots : d # c => call'[d] = cs[d]
  BY <1>4, <1>6
<1>8. TypeOK'
  BY <1>1, <1>2, <1>7, NoneAssumption DEF TypeOK, NoneAssumption
<1>9. CallInv'
  BY <1>5, <1>7 DEF CallInv, InFlight, Left, Here
<1>10. ShownInv'
  BY <1>2, <1>3 DEF ShownInv
<1>11. \A c \in Slots : InFlight(c)' /\ call'[c].live =>
          call'[c] = k /\ at # "create" /\ \A d \in Slots : d # c => call'[d] = cs[d]
  BY <1>7 DEF InFlight, Left
<1>12. \A c, d \in Slots : InFlight(c)' /\ call'[c].live /\ InFlight(d)' /\ call'[d].live
                             => c = d
  <2>1. \A c \in Slots : cs[c] # None => ~cs[c].live
    BY DEF Left
  <2>2. QED
    BY <1>11, <2>1 DEF InFlight
<1>13. k.kind = kind /\ k.reply = "none" /\ (at # "create" => page'.loading)
  BY <1>2, <1>4
<1>14. LoadingInv'
  BY <1>2, <1>11, <1>12, <1>13 DEF LoadingInv, Watched
<1>15. CardInv'
  BY <1>2 DEF CardInv
<1>16. FormInv'
  <2>1. k.kind # "create"
    BY <1>13
  <2>2. \A c \in Slots : ~Watched(c, "create")'
    BY <1>11, <2>1 DEF Watched
  <2>3. QED
    BY <1>2, <2>2 DEF FormInv
<1>17. QED
  BY <1>8, <1>9, <1>10, <1>14, <1>15, <1>16

LEMMA NavigationInv ==
    ASSUME PagesInv,
           \/ CloseShare
           \/ \E p \in MaybePoll, at \in {"dashboard", "create", "manage"} : Visit(at, p)
    PROVE  PagesInv'
<1>1. PICK cs \in [Slots -> Call \cup {None}] : cs = Unwatched
  BY UnwatchedIsLeft
<1>2. \A c \in Slots : cs[c] # None => Left(cs[c], db)
  BY <1>1, UnwatchedIsLeft
<1>3. CASE CloseShare
  <2>1. PICK p \in Polls : p = page.created
    BY <1>3 DEF CloseShare, PagesInv, TypeOK, Page, MaybePoll
  <2>2. Mount("manage", p, cs) /\ UNCHANGED <<db, touched>> /\ p \in MaybePoll
    BY <1>1, <1>3, <2>1 DEF CloseShare, MaybePoll
  <2>3. QED BY <1>2, <2>1, <2>2, MountInv
<1>4. CASE \E p \in MaybePoll, at \in {"dashboard", "create", "manage"} : Visit(at, p)
  <2>1. PICK p \in MaybePoll, at \in {"dashboard", "create", "manage"} : Visit(at, p)
    BY <1>4
  <2>2. Mount(at, p, cs) /\ UNCHANGED <<db, touched>> /\ (at = "manage" => p \in Polls)
    BY <1>1, <2>1 DEF Visit, MaybePoll
  <2>3. QED BY <1>2, <2>2, MountInv
<1>5. QED
  BY <1>3, <1>4

-----------------------------------------------------------------------------
\* The poll service, and changes elsewhere.

LEMMA CallFacts ==
    ASSUME PagesInv, NEW c \in Slots, InFlight(c)
    PROVE  /\ call[c] \in Call /\ CallSound(call[c], db) /\ Here(call[c], page)
           /\ call[c].kind = "list" => page.at = "dashboard" /\ page.loading
           /\ call[c].kind = "load" => page.at = "manage" /\ call[c].poll \in Polls
           /\ call[c].kind = "create" /\ call[c].live => page.at = "create"
<1>1. call[c] \in Call /\ CallSound(call[c], db) /\ Here(call[c], page)
  BY DEF PagesInv, TypeOK, CallInv, InFlight
<1>2. /\ call[c].kind = "list" => page.at = "dashboard"
      /\ call[c].kind = "load" => page.at = "manage" /\ call[c].poll \in Polls
      /\ call[c].kind = "create" /\ call[c].live => page.at = "create"
  BY <1>1 DEF CallSound, Here
<1>3. call[c].kind = "list" => Watched(c, "list")
  BY <1>1 DEF CallSound, Watched
<1>4. page.loading \in BOOLEAN
  BY DEF PagesInv, TypeOK, Page
<1>5. call[c].kind = "list" => page.loading
  BY <1>2, <1>3, <1>4 DEF PagesInv, LoadingInv
<1>6. QED
  BY <1>1, <1>2, <1>5

\* Only the call in slot c changes, if it is not forgotten.
OnlyCall(c) ==
    /\ call' \in [Slots -> Call \cup {None}]
    /\ \A d \in Slots : d # c => call'[d] = call[d]
    /\ \/ call'[c] = None /\ ~call[c].live
       \/ /\ call'[c] \in Call /\ call'[c].kind = call[c].kind
          /\ call'[c].live = call[c].live

LEMMA ReplyOnly ==
    ASSUME PagesInv, NEW c \in Slots, InFlight(c), NEW k \in Call,
           k.kind = call[c].kind, k.live = call[c].live, Reply(c, k)
    PROVE  /\ OnlyCall(c)
           /\ call'[c] # None => call'[c] = [k EXCEPT !.stage = "answered"]
           /\ call[c].live => call'[c] # None
<1> DEFINE a == [k EXCEPT !.stage = "answered"]
<1>1. a \in Call /\ a.kind = k.kind /\ a.live = k.live
  BY DEF Call
<1>2. a # None
  BY <1>1, NoneAssumption DEF NoneAssumption
<1>3. call \in [Slots -> Call \cup {None}]
  BY DEF PagesInv, TypeOK
<1> HIDE DEF a
<1>4. \/ call' = [call EXCEPT ![c] = a]
      \/ call' = [call EXCEPT ![c] = None] /\ ~call[c].live
  BY DEF Reply, a
<1>5. call[c].live => call' = [call EXCEPT ![c] = a]
  BY DEF Reply, a
<1>6. QED
  BY <1>1, <1>2, <1>3, <1>4, <1>5 DEF OnlyCall, a

\* What the page shows, and what it asks, does not change while it waits.
WaitingPage ==
    /\ page' \in Page
    /\ page'.at = page.at /\ page'.loading = page.loading /\ page'.list = page.list
    /\ page'.asked = page.asked /\ page'.status = page.status
    /\ page'.poll = page.poll /\ page'.shown = page.shown
    /\ page'.creating = page.creating /\ page'.created = page.created

LEMMA SamePageWaits ==
    ASSUME PagesInv, UNCHANGED page
    PROVE  WaitingPage
  BY DEF PagesInv, TypeOK, WaitingPage

LEMMA UnderKept ==
    ASSUME NEW c \in Slots, OnlyCall(c), InFlight(c), NEW p
    PROVE  /\ CloseUnder(p) /\ ~Closing(call[c], p) => CloseUnder(p)'
           /\ DeleteUnder(p) /\ ~Deleting(call[c], p) => DeleteUnder(p)'
  BY DEF CloseUnder, DeleteUnder, OnlyCall, InFlight

LEMMA CardKept ==
    ASSUME CardInv, page'.at = page.at, page'.loading = page.loading, page'.list = page.list,
           touched \subseteq touched',
           page.at = "dashboard" /\ ~page.loading =>
              \A p \in Polls \ touched' :
                 /\ db'[p] = db[p]
                 /\ CloseUnder(p) /\ db[p] = "closed" => CloseUnder(p)'
                 /\ DeleteUnder(p) => DeleteUnder(p)'
    PROVE  CardInv'
  BY DEF CardInv, Stored, Exists

LEMMA FormKept ==
    ASSUME FormInv, NEW c \in Slots, OnlyCall(c), InFlight(c),
           page'.creating = page.creating, page'.created = page.created,
           page'.made = page.made, page'.lost = page.lost,
           Watched(c, "create") => call[c].reply # "ok"
    PROVE  FormInv'
<1>1. \A d \in Slots : Watched(d, "create")' => Watched(d, "create")
  BY DEF OnlyCall, Watched, InFlight
<1>2. \A d \in Slots : Watched(d, "create") /\ call[d].reply = "ok" =>
                           Watched(d, "create")' /\ call'[d].reply = "ok"
  BY DEF OnlyCall, Watched, InFlight
<1>3. QED
  BY <1>1, <1>2 DEF FormInv

LEMMA ServiceKeeps ==
    ASSUME PagesInv, NEW c \in Slots, InFlight(c), OnlyCall(c), WaitingPage,
           db' \in [Polls -> {"absent", "active", "closed", "gone"}], Later(db, db'),
           touched' \subseteq Polls,
           call'[c] # None => CallSound(call'[c], db') /\ Here(call'[c], page'),
           call[c].kind = "list" \/ touched \subseteq touched',
           \A p \in Polls : db'[p] # db[p] =>
              p \in touched' \/ (call[c].live /\ call[c].kind # "list"),
           Watched(c, "list") /\ call'[c].reply = "ok" =>
              \A p \in Polls \ touched' : call'[c].list[p] = Stored(p)',
           CardInv', FormInv'
    PROVE  PagesInv'
<1> USE DEF PagesInv
<1>1. TypeOK'
  BY DEF TypeOK, OnlyCall, WaitingPage
<1>2. CallInv'
  BY CallsKept DEF OnlyCall, WaitingPage
<1>3. ShownInv'
  BY ShownKept DEF WaitingPage
<1>4. LoadingInv'
  <2>1. \A d \in Slots : InFlight(d)' => InFlight(d) /\ call'[d].kind = call[d].kind
                                          /\ call'[d].live = call[d].live
    BY DEF OnlyCall, InFlight
  <2>2. \A d \in Slots : Watched(d, "list")' => Watched(d, "list")
    BY <2>1 DEF Watched
  <2>3. ASSUME NEW d \in Slots, Watched(d, "list")', call'[d].reply = "ok",
               NEW p \in Polls \ touched'
        PROVE  call'[d].list[p] = Stored(p)'
    <3>1. CASE d = c
      BY <2>2, <2>3, <3>1
    <3>2. CASE d # c
      <4>1. call'[d] = call[d] /\ Watched(d, "list")
        BY <2>2, <2>3, <3>2 DEF OnlyCall
      <4>2. page.at = "dashboard" /\ page.loading
        BY <4>1, CallFacts DEF Watched
      <4>3. call[c].kind # "list" \/ ~call[c].live
        BY <3>2, <4>1 DEF LoadingInv, Watched
      <4>4. call[c].kind # "list" /\ ~call[c].live
        BY <4>2, <4>3, CallFacts DEF LoadingInv, CallSound
      <4>5. touched \subseteq touched' /\ db'[p] = db[p]
        BY <2>3, <4>4
      <4>6. call[d].list[p] = Stored(p)
        BY <2>3, <4>1, <4>5 DEF LoadingInv
      <4>7. QED
        BY <4>1, <4>5, <4>6 DEF Stored, Exists
    <3>3. QED BY <3>1, <3>2
  <2>4. QED
    BY <2>1, <2>2, <2>3 DEF LoadingInv, WaitingPage
<1>5. QED
  BY <1>1, <1>2, <1>3, <1>4

LEMMA ServeListInv ==
    ASSUME PagesInv, NEW c \in Slots, InFlight(c), ServeList(c)
    PROVE  PagesInv'
<1> DEFINE all == [p \in Polls |-> Stored(p)]
           k == [call[c] EXCEPT !.reply = "ok", !.list = all]
           a == [k EXCEPT !.stage = "answered"]
<1>1. /\ call[c] \in Call /\ CallSound(call[c], db) /\ Here(call[c], page)
      /\ call[c].kind = "list" /\ page.at = "dashboard" /\ page.loading
      /\ call[c].live
  BY CallFacts DEF ServeList, CallSound
<1>2. all \in [Polls -> Shows] /\ \A p \in Polls : all[p] = Stored(p)
  BY DEF Stored, Exists, Shows
<1> HIDE DEF all
<1>3. k \in Call /\ k.kind = call[c].kind /\ k.live = call[c].live
  BY <1>1, <1>2 DEF Call
<1>4. Reply(c, k) /\ UNCHANGED <<db, page>> /\ touched' = {}
  BY DEF ServeList, all
<1>5. a \in Call /\ a.kind = "list" /\ a.stage = "answered" /\ a.reply = "ok" /\ a.list = all
      /\ a.live /\ a.from = call[c].from /\ a.poll = call[c].poll
  BY <1>1, <1>2 DEF Call
<1> HIDE DEF k
<1>6. OnlyCall(c) /\ (call'[c] # None => call'[c] = a)
  BY <1>3, <1>4, ReplyOnly
<1> HIDE DEF a
<1>7. CallSound(a, db) /\ Here(a, page)
  BY <1>1, <1>2, <1>5 DEF CallSound, Here, Stored, Exists, Over
<1>8. Later(db, db') /\ WaitingPage
  BY <1>4, SamePageWaits DEF Later
<1>9. CardInv'
  BY <1>1, <1>4 DEF CardInv
<1>10. FormInv'
  BY <1>1, <1>4, <1>6, FormKept DEF PagesInv, Watched
<1>11. db' \in [Polls -> {"absent", "active", "closed", "gone"}]
  BY <1>4 DEF PagesInv, TypeOK
<1>12. \A p \in Polls : Stored(p)' = Stored(p)
  BY <1>4 DEF Stored, Exists
<1>13. call'[c] # None => CallSound(call'[c], db') /\ Here(call'[c], page')
  BY <1>4, <1>6, <1>7
<1>14. Watched(c, "list") /\ call'[c].reply = "ok" =>
          \A p \in Polls \ touched' : call'[c].list[p] = Stored(p)'
  <2>1. call'[c] \in Call \/ (call'[c] = None /\ ~call[c].live)
    BY <1>6 DEF OnlyCall
  <2>2. call'[c] = a
    BY <1>1, <1>6, <2>1, NoneAssumption DEF NoneAssumption
  <2>3. \A p \in Polls : call'[c].list[p] = Stored(p)
    BY <1>2, <1>5, <2>2
  <2>4. QED BY <1>12, <2>3
<1>15. QED
  BY <1>1, <1>4, <1>6, <1>8, <1>9, <1>10, <1>11, <1>13, <1>14, ServiceKeeps

\* A call of which only the reply is new.
LEMMA SaysOnly ==
    ASSUME PagesInv, NEW c \in Slots, InFlight(c), NEW r \in Shows \cup {"ok", "failed"},
           Says(c, r)
    PROVE  /\ OnlyCall(c) /\ (call[c].live => call'[c] # None)
           /\ call'[c] # None =>
                 /\ call'[c].stage = "answered" /\ call'[c].reply = r
                 /\ call'[c].kind = call[c].kind /\ call'[c].live = call[c].live
                 /\ call'[c].from = call[c].from /\ call'[c].poll = call[c].poll
                 /\ call'[c].draft = call[c].draft /\ call'[c].ids = call[c].ids
                 /\ call'[c].list = call[c].list
<1> DEFINE k == [call[c] EXCEPT !.reply = r]
           a == [k EXCEPT !.stage = "answered"]
<1>1. call[c] \in Call
  BY CallFacts
<1>2. k \in Call /\ k.kind = call[c].kind /\ k.live = call[c].live /\ k.reply = r
  BY <1>1 DEF Call
<1>3. a \in Call /\ a.stage = "answered" /\ a.reply = r
      /\ a.kind = call[c].kind /\ a.live = call[c].live
      /\ a.from = call[c].from /\ a.poll = call[c].poll
      /\ a.draft = call[c].draft /\ a.ids = call[c].ids
      /\ a.list = call[c].list
  BY <1>1, <1>2 DEF Call
<1>4. Reply(c, k)
  BY DEF Says
<1> HIDE DEF k
<1>5. OnlyCall(c) /\ (call'[c] # None => call'[c] = a) /\ (call[c].live => call'[c] # None)
  BY <1>2, <1>4, ReplyOnly
<1> HIDE DEF a
<1>6. QED
  BY <1>3, <1>5

LEMMA ServeLoadInv ==
    ASSUME PagesInv, NEW c \in Slots, InFlight(c), ServeLoad(c)
    PROVE  PagesInv'
<1>1. /\ call[c] \in Call /\ CallSound(call[c], db) /\ Here(call[c], page)
      /\ call[c].kind = "load" /\ page.at = "manage" /\ call[c].poll \in Polls
      /\ call[c].live
  BY CallFacts DEF ServeLoad, CallSound
<1>2. PICK r \in Shows \cup {"ok", "failed"} :
         /\ Says(c, r) /\ r \in {"active", "closed", "failed"}
         /\ r = "closed" => db[call[c].poll] = "closed"
  BY <1>1 DEF ServeLoad, Exists, Shows
<1>3. UNCHANGED <<db, page, touched>>
  BY DEF ServeLoad
<1>4. OnlyCall(c)
  BY <1>2, SaysOnly
<1>5. call'[c] # None => CallSound(call'[c], db') /\ Here(call'[c], page')
  <2>1. HAVE call'[c] # None
  <2>2. /\ call'[c].stage = "answered" /\ call'[c].reply = r
        /\ call'[c].kind = "load" /\ call'[c].live
        /\ call'[c].from = call[c].from /\ call'[c].poll = call[c].poll
        /\ call'[c].list = call[c].list
    BY <1>1, <1>2, <2>1, SaysOnly
  <2>3. QED
    BY <1>1, <1>2, <1>3, <2>2 DEF CallSound, Here, Over
<1>6. Later(db, db') /\ WaitingPage
  BY <1>3, SamePageWaits DEF Later
<1>7. CardInv' /\ FormInv'
  BY <1>1, <1>3, <1>4, FormKept DEF CardInv, PagesInv, Watched
<1>8. db' \in [Polls -> {"absent", "active", "closed", "gone"}] /\ touched' \subseteq Polls
  BY <1>3 DEF PagesInv, TypeOK
<1>9. ~Watched(c, "list")
  BY <1>1 DEF Watched
<1>10. QED
  BY <1>3, <1>4, <1>5, <1>6, <1>7, <1>8, <1>9, ServiceKeeps

LEMMA ServeCloseInv ==
    ASSUME PagesInv, NEW c \in Slots, InFlight(c), ServeClose(c)
    PROVE  PagesInv'
<1>1. /\ call[c] \in Call /\ CallSound(call[c], db) /\ Here(call[c], page)
      /\ call[c].kind = "close" /\ call[c].stage = "sent" /\ call[c].poll \in Polls
      /\ call[c].reply = "none"
  BY CallFacts DEF ServeClose, CallSound
<1> DEFINE k == [call[c] EXCEPT !.stage = "set"]
<1>2. /\ k \in Call /\ k.stage = "set" /\ k.kind = "close" /\ k.reply = "none"
      /\ k.poll = call[c].poll /\ k.live = call[c].live /\ k.from = call[c].from
      /\ k.list = call[c].list
  BY <1>1 DEF Call
<1> HIDE DEF k
<1>3. call' = [call EXCEPT ![c] = k] /\ call \in [Slots -> Call \cup {None}]
  BY DEF ServeClose, Goto, k, PagesInv, TypeOK
<1>4. call'[c] = k /\ call'[c] # None /\ OnlyCall(c)
  BY <1>1, <1>2, <1>3, NoneAssumption DEF OnlyCall, NoneAssumption
<1>5. PICK q \in Polls : q = call[c].poll
  BY <1>1
<1>6. /\ db' = [db EXCEPT ![q] = "closed"] /\ db[q] \in {"active", "closed"}
      /\ db \in [Polls -> {"absent", "active", "closed", "gone"}]
      /\ UNCHANGED page
  BY <1>5 DEF ServeClose, Exists, PagesInv, TypeOK
<1>7. /\ db' \in [Polls -> {"absent", "active", "closed", "gone"}]
      /\ db'[q] = "closed" /\ \A p \in Polls : p # q => db'[p] = db[p]
  BY <1>6
<1>8. Later(db, db') /\ WaitingPage
  BY <1>6, <1>7, SamePageWaits DEF Later, Over
<1>9. CallSound(k, db') /\ Here(k, page')
  <2>1. \A p \in Polls : k.list[p] = "closed" => db'[p] \in Over
    BY <1>1, <1>2, <1>8 DEF CallSound, Later
  <2>2. QED
    BY <1>1, <1>2, <1>5, <1>6, <1>7, <2>1 DEF CallSound, Here, Over
<1>10. /\ touched \subseteq touched' /\ touched' \subseteq Polls
       /\ ~call[c].live => touched' = touched \cup {q}
  BY <1>1, <1>5 DEF ServeClose, Touch, PagesInv, TypeOK
<1>11. CardInv'
  <2>1. SUFFICES ASSUME page'.at = "dashboard", ~page'.loading,
                        NEW p \in Polls, p \notin touched'
                 PROVE  \/ page'.list[p] = Stored(p)'
                        \/ page'.list[p] = "active" /\ db'[p] = "closed" /\ CloseUnder(p)'
                        \/ page'.list[p] # "none" /\ db'[p] = "gone" /\ DeleteUnder(p)'
    BY DEF CardInv
  <2>2. \/ page.list[p] = Stored(p)
        \/ page.list[p] = "active" /\ db[p] = "closed" /\ CloseUnder(p)
        \/ page.list[p] # "none" /\ db[p] = "gone" /\ DeleteUnder(p)
    BY <1>6, <1>10, <2>1 DEF PagesInv, CardInv
  <2>3. ~Closing(call[c], p) /\ ~Deleting(call[c], p)
    BY <1>1 DEF Closing, Deleting
  <2>4. (CloseUnder(p) => CloseUnder(p)') /\ (DeleteUnder(p) => DeleteUnder(p)')
    BY <1>4, <2>3, UnderKept
  <2>5. CASE p # q
    BY <1>6, <1>7, <2>2, <2>4, <2>5 DEF Stored, Exists
  <2>6. CASE p = q
    <3>1. call[c].live
      BY <1>10, <2>1, <2>6
    <3>2. Closing(k, p)
      BY <1>2, <1>5, <2>6, <3>1 DEF Closing
    <3>3. CloseUnder(p)'
      BY <1>4, <3>2 DEF CloseUnder, InFlight
    <3>4. QED
      BY <1>6, <1>7, <2>2, <2>6, <3>3 DEF Stored, Exists
  <2>7. QED BY <2>5, <2>6
<1>12. FormInv'
  BY <1>1, <1>4, <1>6, FormKept DEF PagesInv, Watched
<1>13. ~Watched(c, "list")
  BY <1>1 DEF Watched
<1>14. \A p \in Polls : db'[p] # db[p] =>
          p \in touched' \/ (call[c].live /\ call[c].kind # "list")
  BY <1>1, <1>7, <1>10
<1>15. call'[c] # None => CallSound(call'[c], db') /\ Here(call'[c], page')
  BY <1>4, <1>9
<1>16. QED
  BY <1>4, <1>7, <1>8, <1>10, <1>11, <1>12, <1>13, <1>14, <1>15, ServiceKeeps

LEMMA ServeReloadInv ==
    ASSUME PagesInv, NEW c \in Slots, InFlight(c), ServeReload(c)
    PROVE  PagesInv'
<1>1. /\ call[c] \in Call /\ CallSound(call[c], db) /\ Here(call[c], page)
      /\ call[c].kind = "close" /\ call[c].stage = "set" /\ call[c].poll \in Polls
      /\ db[call[c].poll] \in Over
  BY CallFacts DEF ServeReload, CallSound
<1>2. PICK q \in Polls : q = call[c].poll
  BY <1>1
<1>3. PICK r \in Shows \cup {"ok", "failed"} : r = Stored(q)
  BY DEF Stored, Exists, Shows
<1>4. /\ (r = "closed" /\ db[q] = "closed") \/ (r = "none" /\ db[q] = "gone")
      /\ Says(c, r) /\ UNCHANGED <<db, page, touched>>
  <2>1. (r = "closed" /\ db[q] = "closed") \/ (r = "none" /\ db[q] = "gone")
    BY <1>1, <1>2, <1>3 DEF Stored, Exists, Over
  <2>2. Says(c, r) /\ UNCHANGED <<db, page, touched>>
    BY <1>2, <1>3 DEF ServeReload, Reloaded
  <2>3. QED BY <2>1, <2>2
<1>5. OnlyCall(c) /\ (call[c].live => call'[c] # None)
  BY <1>4, SaysOnly
<1>6. call'[c] # None =>
        /\ call'[c].stage = "answered" /\ call'[c].reply = r
        /\ call'[c].kind = "close" /\ call'[c].live = call[c].live
        /\ call'[c].from = call[c].from /\ call'[c].poll = q
        /\ call'[c].list = call[c].list
  BY <1>1, <1>2, <1>4, SaysOnly
<1>7. call'[c] # None => CallSound(call'[c], db') /\ Here(call'[c], page')
  BY <1>1, <1>2, <1>4, <1>6 DEF CallSound, Here, Over
<1>8. Later(db, db') /\ WaitingPage
  BY <1>4, SamePageWaits DEF Later
<1>9. CardInv'
  <2>1. \A p \in Polls : CloseUnder(p) /\ db[p] = "closed" => CloseUnder(p)'
    <3>1. TAKE p \in Polls
    <3>2. HAVE CloseUnder(p) /\ db[p] = "closed"
    <3>3. CASE Closing(call[c], p)
      <4>1. Closing(call'[c], p) /\ call'[c] # None
        BY <1>2, <1>4, <1>5, <1>6, <3>2, <3>3 DEF Closing
      <4>2. QED
        BY <4>1 DEF CloseUnder, InFlight
    <3>4. CASE ~Closing(call[c], p)
      BY <1>5, <3>2, <3>4, UnderKept
    <3>5. QED BY <3>3, <3>4
  <2>2. \A p \in Polls : DeleteUnder(p) => DeleteUnder(p)'
    BY <1>1, <1>5, UnderKept DEF Deleting
  <2>3. QED
    BY <1>4, <2>1, <2>2, CardKept DEF PagesInv
<1>10. FormInv'
  BY <1>1, <1>4, <1>5, FormKept DEF PagesInv, Watched
<1>11. ~Watched(c, "list")
  BY <1>1 DEF Watched
<1>12. db' \in [Polls -> {"absent", "active", "closed", "gone"}] /\ touched' \subseteq Polls
  BY <1>4 DEF PagesInv, TypeOK
<1>13. QED
  BY <1>4, <1>5, <1>7, <1>8, <1>9, <1>10, <1>11, <1>12, ServiceKeeps

LEMMA ServeDeleteInv ==
    ASSUME PagesInv, NEW c \in Slots, InFlight(c), ServeDelete(c)
    PROVE  PagesInv'
<1>1. /\ call[c] \in Call /\ CallSound(call[c], db) /\ Here(call[c], page)
      /\ call[c].kind = "delete" /\ call[c].poll \in Polls
  BY CallFacts DEF ServeDelete, CallSound
<1>2. PICK q \in Polls : q = call[c].poll
  BY <1>1
<1>3. ~Watched(c, "list") /\ ~Watched(c, "create") /\ UNCHANGED page
  BY <1>1 DEF Watched, ServeDelete
<1>4. call \in [Slots -> Call \cup {None}] /\ touched \subseteq Polls
      /\ db \in [Polls -> {"absent", "active", "closed", "gone"}]
  BY DEF PagesInv, TypeOK
<1>5. CASE call[c].stage = "sent"
  <2> DEFINE k == [call[c] EXCEPT !.stage = "found"]
  <2>1. /\ k \in Call /\ k.stage = "found" /\ k.kind = "delete" /\ k.reply = "none"
        /\ k.poll = call[c].poll /\ k.live = call[c].live /\ k.from = call[c].from
        /\ k.list = call[c].list
    BY <1>1, <1>5 DEF Call, CallSound
  <2> HIDE DEF k
  <2>2. call' = [call EXCEPT ![c] = k] /\ UNCHANGED <<db, touched>>
    BY <1>5 DEF ServeDelete, Goto, k
  <2>3. call'[c] = k /\ call'[c] # None /\ OnlyCall(c)
    BY <1>1, <1>4, <2>1, <2>2, NoneAssumption DEF OnlyCall, NoneAssumption
  <2>4. call'[c] # None => CallSound(call'[c], db') /\ Here(call'[c], page')
    BY <1>1, <1>3, <2>1, <2>2, <2>3 DEF CallSound, Here
  <2>5. Later(db, db') /\ WaitingPage
    BY <1>3, <2>2, SamePageWaits DEF Later
  <2>6. CardInv'
    <3>1. \A p \in Polls : (CloseUnder(p) => CloseUnder(p)') /\ (DeleteUnder(p) => DeleteUnder(p)')
      BY <1>1, <1>5, <2>3, UnderKept DEF Closing, Deleting
    <3>2. QED BY <1>3, <2>2, <3>1, CardKept DEF PagesInv
  <2>7. FormInv'
    BY <1>3, <2>3, FormKept DEF PagesInv
  <2>8. QED
    BY <1>3, <1>4, <2>2, <2>3, <2>4, <2>5, <2>6, <2>7, ServiceKeeps
<1>6. CASE call[c].stage = "found"
  <2>1. /\ db' = [db EXCEPT ![q] = "gone"] /\ Says(c, "ok") /\ Touch(c, q)
    BY <1>2, <1>6 DEF ServeDelete
  <2>2. /\ db' \in [Polls -> {"absent", "active", "closed", "gone"}]
        /\ db'[q] = "gone" /\ \A p \in Polls : p # q => db'[p] = db[p]
    BY <1>4, <2>1
  <2>3. Later(db, db') /\ WaitingPage
    BY <1>3, <2>2, SamePageWaits DEF Later, Over
  <2>4. /\ touched \subseteq touched' /\ touched' \subseteq Polls
        /\ ~call[c].live => touched' = touched \cup {q}
    BY <1>4, <2>1 DEF Touch
  <2>5. OnlyCall(c) /\ (call[c].live => call'[c] # None)
    BY <2>1, SaysOnly
  <2>6. call'[c] # None =>
          /\ call'[c].stage = "answered" /\ call'[c].reply = "ok"
          /\ call'[c].kind = "delete" /\ call'[c].live = call[c].live
          /\ call'[c].from = call[c].from /\ call'[c].poll = q
          /\ call'[c].list = call[c].list
    BY <1>1, <1>2, <2>1, SaysOnly
  <2>7. call'[c] # None => CallSound(call'[c], db') /\ Here(call'[c], page')
    <3>1. HAVE call'[c] # None
    <3>2. \A p \in Polls : call'[c].list[p] = "closed" => db'[p] \in Over
      BY <1>1, <2>3, <2>6, <3>1 DEF CallSound, Later
    <3>3. QED
      BY <1>1, <1>2, <1>3, <2>2, <2>6, <3>1, <3>2 DEF CallSound, Here, Over
  <2>8. CardInv'
    <3>1. SUFFICES ASSUME page'.at = "dashboard", ~page'.loading,
                          NEW p \in Polls, p \notin touched'
                   PROVE  \/ page'.list[p] = Stored(p)'
                          \/ page'.list[p] = "active" /\ db'[p] = "closed" /\ CloseUnder(p)'
                          \/ page'.list[p] # "none" /\ db'[p] = "gone" /\ DeleteUnder(p)'
      BY DEF CardInv
    <3>2. \/ page.list[p] = Stored(p)
          \/ page.list[p] = "active" /\ db[p] = "closed" /\ CloseUnder(p)
          \/ page.list[p] # "none" /\ db[p] = "gone" /\ DeleteUnder(p)
      BY <1>3, <2>4, <3>1 DEF PagesInv, CardInv
    <3>3. (CloseUnder(p) => CloseUnder(p)') /\ (DeleteUnder(p) => DeleteUnder(p)')
      BY <1>1, <1>6, <2>5, UnderKept DEF Closing, Deleting
    <3>4. CASE p # q
      BY <1>3, <2>2, <3>2, <3>3, <3>4 DEF Stored, Exists
    <3>5. CASE p = q
      <4>1. call[c].live
        BY <2>4, <3>1, <3>5
      <4>2. Deleting(call'[c], p) /\ call'[c] # None
        BY <2>5, <2>6, <3>5, <4>1 DEF Deleting
      <4>3. DeleteUnder(p)'
        BY <4>2 DEF DeleteUnder, InFlight
      <4>4. Stored(p)' = "none" /\ db'[p] = "gone"
        BY <2>2, <3>5 DEF Stored, Exists
      <4>5. QED BY <4>3, <4>4
    <3>6. QED BY <3>4, <3>5
  <2>9. FormInv'
    BY <1>3, <2>5, FormKept DEF PagesInv
  <2>10. \A p \in Polls : db'[p] # db[p] =>
            p \in touched' \/ (call[c].live /\ call[c].kind # "list")
    BY <1>1, <2>2, <2>4
  <2>11. QED
    BY <1>3, <2>2, <2>3, <2>4, <2>5, <2>7, <2>8, <2>9, <2>10, ServiceKeeps
<1>7. QED
  BY <1>5, <1>6 DEF ServeDelete

LEMMA ServeCreateInv ==
    ASSUME PagesInv, NEW c \in Slots, InFlight(c), ServeCreate(c)
    PROVE  PagesInv'
<1>1. /\ call[c] \in Call /\ CallSound(call[c], db) /\ Here(call[c], page)
      /\ call[c].kind = "create" /\ call[c].reply = "none" /\ call[c].draft \in Seq(Text)
      /\ call[c].draft \in {Filled(x) : x \in Drafts}
      /\ call[c].live => page.at = "create"
  BY CallFacts DEF ServeCreate, CallSound, Call
<1>2. PICK q \in Polls, ids \in {Validated[call[c].draft]} \ {<<>>} :
         /\ db[q] = "absent" /\ db' = [db EXCEPT ![q] = "active"]
         /\ Reply(c, [call[c] EXCEPT !.reply = "ok", !.poll = q, !.ids = ids])
         /\ Touch(c, q)
  BY DEF ServeCreate
<1>3. ids = Validate(call[c].draft) /\ ids \in Seq(Text)
  <2>1. Validated[call[c].draft] = Validate(call[c].draft)
    BY <1>1 DEF Validated
  <2>2. QED BY <1>1, <1>2, <2>1, ValidateNearlyUnique
<1> DEFINE k == [call[c] EXCEPT !.reply = "ok", !.poll = q, !.ids = ids]
           a == [k EXCEPT !.stage = "answered"]
<1>4. k \in Call /\ k.kind = call[c].kind /\ k.live = call[c].live
  BY <1>1, <1>3 DEF Call, MaybePoll
<1>5. /\ a \in Call /\ a.kind = "create" /\ a.stage = "answered" /\ a.reply = "ok"
      /\ a.poll = q /\ a.ids = ids /\ a.draft = call[c].draft
      /\ a.live = call[c].live /\ a.from = call[c].from /\ a.list = call[c].list
  BY <1>1, <1>3 DEF Call, MaybePoll
<1>6. Reply(c, k)
  BY <1>2
<1> HIDE DEF k
<1>7. OnlyCall(c) /\ (call'[c] # None => call'[c] = a) /\ (call[c].live => call'[c] # None)
  BY <1>4, <1>6, ReplyOnly
<1> HIDE DEF a
<1>8. /\ page \in Page /\ page.made \in Nat /\ touched \subseteq Polls
      /\ db \in [Polls -> {"absent", "active", "closed", "gone"}]
  BY DEF PagesInv, TypeOK, Page
<1>9. page' = IF call[c].live THEN [page EXCEPT !.made = @ + 1] ELSE page
  BY DEF ServeCreate
<1>10. WaitingPage /\ page'.lost = page.lost
       /\ page'.made = IF call[c].live THEN page.made + 1 ELSE page.made
  <2>1. CASE call[c].live
    <3>1. page' = [page EXCEPT !.made = page.made + 1]
      BY <1>9, <2>1
    <3>2. page' \in Page
      BY <1>8, <3>1 DEF Page
    <3>3. QED BY <1>8, <2>1, <3>1, <3>2 DEF WaitingPage, Page
  <2>2. CASE ~call[c].live
    BY <1>8, <1>9, <2>2 DEF WaitingPage
  <2>3. QED BY <2>1, <2>2
<1>11. /\ db' \in [Polls -> {"absent", "active", "closed", "gone"}]
       /\ \A p \in Polls : p # q => db'[p] = db[p]
  BY <1>2, <1>8
<1>12. Later(db, db')
  BY <1>2, <1>11 DEF Later, Over
<1>13. call'[c] # None => CallSound(call'[c], db') /\ Here(call'[c], page')
  <2>1. HAVE call'[c] # None
  <2>2. \A p \in Polls : a.list[p] = "closed" => db'[p] \in Over
    BY <1>1, <1>5, <1>12 DEF CallSound, Later
  <2>3. a.live => a.from = "create" /\ page'.at = "create"
    BY <1>1, <1>5, <1>10 DEF CallSound, WaitingPage
  <2>4. CallSound(a, db')
    BY <1>1, <1>3, <1>5, <2>2, <2>3 DEF CallSound
  <2>5. Here(a, page')
    BY <2>3 DEF Here
  <2>6. QED BY <1>7, <2>1, <2>4, <2>5
<1>14. /\ touched \subseteq touched' /\ touched' \subseteq Polls
       /\ ~call[c].live => touched' = touched \cup {q}
  BY <1>2, <1>8 DEF Touch
<1>15. CardInv'
  <2>1. \A p \in Polls : (CloseUnder(p) => CloseUnder(p)') /\ (DeleteUnder(p) => DeleteUnder(p)')
    BY <1>1, <1>7, UnderKept DEF Closing, Deleting
  <2>2. page.at = "dashboard" => \A p \in Polls \ touched' : db'[p] = db[p]
    BY <1>1, <1>11, <1>14
  <2>3. QED
    BY <1>10, <1>14, <2>1, <2>2, CardKept DEF PagesInv, WaitingPage
<1>16. FormInv'
  <2>1. CASE ~call[c].live
    BY <1>7, <1>10, <2>1, FormKept DEF PagesInv, WaitingPage, Watched
  <2>2. CASE call[c].live
    <3>1. Watched(c, "create") /\ ~(call[c].reply = "ok")
      BY <1>1, <2>2 DEF Watched
    <3>2. page.created = None /\ (page.lost \/ page.made = 0)
      BY <3>1 DEF PagesInv, FormInv
    <3>3. Watched(c, "create")' /\ call'[c].reply = "ok"
      BY <1>5, <1>7, <2>2 DEF Watched, InFlight
    <3>4. \A d \in Slots : Watched(d, "create")' => Watched(d, "create")
      BY <1>7 DEF OnlyCall, Watched, InFlight
    <3>5. page'.lost \/ page'.made = 1
      BY <1>10, <2>2, <3>2
    <3>6. /\ \A d, e \in Slots : Watched(d, "create")' /\ Watched(e, "create")' => d = e
          /\ \A d \in Slots : Watched(d, "create")' => page'.creating /\ page'.created = None
      BY <1>10, <3>4 DEF PagesInv, FormInv, WaitingPage
    <3>7. QED BY <3>3, <3>5, <3>6 DEF FormInv
  <2>3. QED BY <2>1, <2>2
<1>17. ~Watched(c, "list")
  BY <1>1 DEF Watched
<1>18. \A p \in Polls : db'[p] # db[p] =>
          p \in touched' \/ (call[c].live /\ call[c].kind # "list")
  BY <1>1, <1>11, <1>14
<1>19. QED
  BY <1>7, <1>10, <1>11, <1>12, <1>13, <1>14, <1>15, <1>16, <1>17, <1>18, ServiceKeeps

\* A call that ends in an error, whatever it had done.
LEMMA FailedSound ==
    ASSUME PagesInv, NEW c \in Slots, InFlight(c), Says(c, "failed"), db' = db,
           page'.at = page.at, page'.poll = page.poll /\ page'.shown = page.shown
    PROVE  /\ OnlyCall(c) /\ Later(db, db')
           /\ call'[c] # None =>
                 CallSound(call'[c], db') /\ Here(call'[c], page') /\ call'[c].reply = "failed"
<1>1. call[c] \in Call /\ CallSound(call[c], db) /\ Here(call[c], page)
  BY CallFacts
<1>2. OnlyCall(c) /\ Later(db, db')
  BY SaysOnly DEF Later
<1>3. ASSUME call'[c] # None
      PROVE  CallSound(call'[c], db') /\ Here(call'[c], page') /\ call'[c].reply = "failed"
  <2>1. /\ call'[c].stage = "answered" /\ call'[c].reply = "failed"
        /\ call'[c].kind = call[c].kind /\ call'[c].live = call[c].live
        /\ call'[c].from = call[c].from /\ call'[c].poll = call[c].poll
        /\ call'[c].draft = call[c].draft /\ call'[c].list = call[c].list
    BY <1>3, SaysOnly
  <2>2. CallSound(call'[c], db')
    BY <1>1, <2>1 DEF CallSound, Call
  <2>3. Here(call'[c], page')
    BY <1>1, <2>1 DEF Here
  <2>4. QED BY <2>1, <2>2, <2>3
<1>4. QED
  BY <1>2, <1>3

LEMMA CallFailsInv ==
    ASSUME PagesInv, NEW c \in Slots, InFlight(c), CallFails(c)
    PROVE  PagesInv'
<1>1. /\ Says(c, "failed") /\ UNCHANGED <<db, page, touched>>
      /\ call[c].stage \in {"sent", "found"} /\ call[c].reply = "none"
  BY CallFacts DEF CallFails, CallSound
<1>2. /\ OnlyCall(c) /\ Later(db, db') /\ WaitingPage
      /\ call'[c] # None => CallSound(call'[c], db') /\ Here(call'[c], page')
  BY <1>1, FailedSound, SamePageWaits
<1>3. CardInv'
  <2>1. \A p \in Polls : (CloseUnder(p) => CloseUnder(p)') /\ (DeleteUnder(p) => DeleteUnder(p)')
    BY <1>1, <1>2, UnderKept DEF Closing, Deleting
  <2>2. QED BY <1>1, <2>1, CardKept DEF PagesInv
<1>4. FormInv'
  BY <1>1, <1>2, FormKept DEF PagesInv
<1>5. Watched(c, "list") => call'[c].reply # "ok"
  <2>1. HAVE Watched(c, "list")
  <2>2. call'[c] # None
    BY <1>1, <2>1, SaysOnly DEF Watched
  <2>3. QED BY <1>1, <2>2, FailedSound
<1>6. db' \in [Polls -> {"absent", "active", "closed", "gone"}] /\ touched' \subseteq Polls
  BY <1>1 DEF PagesInv, TypeOK
<1>7. QED
  BY <1>1, <1>2, <1>3, <1>4, <1>5, <1>6, ServiceKeeps

LEMMA AnswerLostInv ==
    ASSUME PagesInv, NEW c \in Slots, InFlight(c), AnswerLost(c)
    PROVE  PagesInv'
<1>1. /\ Says(c, "failed") /\ db' = db /\ call[c].kind \in {"close", "delete", "create"}
      /\ call[c].stage = "set" \/ call[c].reply \notin {"none", "failed"}
      /\ touched' = touched \cup {call[c].poll}
      /\ page' = IF call[c].live THEN [page EXCEPT !.lost = TRUE] ELSE page
  BY DEF AnswerLost
<1>2. call[c].poll \in Polls
  BY <1>1, CallFacts DEF CallSound
<1>3. /\ page \in Page /\ touched \subseteq Polls
      /\ db \in [Polls -> {"absent", "active", "closed", "gone"}]
  BY DEF PagesInv, TypeOK
<1>4. /\ WaitingPage /\ page'.made = page.made
      /\ IF call[c].live THEN page'.lost ELSE page'.lost = page.lost
  <2>1. CASE call[c].live
    <3>1. page' = [page EXCEPT !.lost = TRUE]
      BY <1>1, <2>1
    <3>2. page' \in Page
      BY <1>3, <3>1 DEF Page
    <3>3. QED BY <1>3, <2>1, <3>1, <3>2 DEF WaitingPage, Page
  <2>2. CASE ~call[c].live
    BY <1>1, <1>3, <2>2 DEF WaitingPage
  <2>3. QED BY <2>1, <2>2
<1>5. /\ OnlyCall(c) /\ Later(db, db')
      /\ call'[c] # None => CallSound(call'[c], db') /\ Here(call'[c], page')
  BY <1>1, <1>4, FailedSound DEF WaitingPage
<1>6. CardInv'
  <2>1. \A p \in Polls \ touched' :
           (CloseUnder(p) => CloseUnder(p)') /\ (DeleteUnder(p) => DeleteUnder(p)')
    BY <1>1, <1>5, UnderKept DEF Closing, Deleting
  <2>2. QED BY <1>1, <1>4, <2>1, CardKept DEF PagesInv, WaitingPage
<1>7. FormInv'
  <2>1. CASE ~call[c].live
    BY <1>4, <1>5, <2>1, FormKept DEF PagesInv, WaitingPage, Watched
  <2>2. CASE call[c].live
    <3>1. \A d \in Slots : Watched(d, "create")' => Watched(d, "create")
      BY <1>5 DEF OnlyCall, Watched, InFlight
    <3>2. QED BY <1>4, <2>2, <3>1 DEF PagesInv, FormInv, WaitingPage
  <2>3. QED BY <2>1, <2>2
<1>8. ~Watched(c, "list")
  BY <1>1 DEF Watched
<1>9. touched' \subseteq Polls /\ touched \subseteq touched'
  BY <1>1, <1>2, <1>3
<1>10. QED
  BY <1>1, <1>3, <1>4, <1>5, <1>6, <1>7, <1>8, <1>9, ServiceKeeps

LEMMA ServeInv ==
    ASSUME PagesInv, NEW c \in Slots, Serve(c)
    PROVE  PagesInv'
  BY ServeListInv, ServeLoadInv, ServeCloseInv, ServeReloadInv, ServeDeleteInv,
     ServeCreateInv, CallFailsInv, AnswerLostInv DEF Serve

LEMMA ElsewhereInv ==
    ASSUME PagesInv, NEW p \in Polls, Elsewhere(p)
    PROVE  PagesInv'
<1> USE DEF PagesInv
<1>1. /\ db \in [Polls -> {"absent", "active", "closed", "gone"}] /\ touched \subseteq Polls
      /\ touched' = touched \cup {p} /\ UNCHANGED <<page, call>>
  BY DEF TypeOK, Elsewhere
<1>2. /\ db' \in [Polls -> {"absent", "active", "closed", "gone"}]
      /\ \A q \in Polls : q # p => db'[q] = db[q]
      /\ db[p] \in {"active", "closed"} /\ db'[p] \in Over /\ (db[p] = "closed" => db'[p] = "gone")
  BY <1>1 DEF Elsewhere, Exists, Over
<1>3. Later(db, db')
  BY <1>2 DEF Later, Over
<1>4. TypeOK'
  BY <1>1, <1>2 DEF TypeOK, InFlight
<1>5. CallInv' /\ ShownInv'
  BY <1>1, <1>3, CallsKept, ShownKept
<1>6. LoadingInv'
  BY <1>1, <1>2 DEF LoadingInv, Watched, InFlight, Stored, Exists
<1>7. CardInv'
  <2>1. \A q \in Polls : (CloseUnder(q) => CloseUnder(q)') /\ (DeleteUnder(q) => DeleteUnder(q)')
    BY <1>1 DEF CloseUnder, DeleteUnder, InFlight
  <2>2. QED BY <1>1, <1>2, <2>1, CardKept
<1>8. FormInv'
  BY <1>1 DEF FormInv, Watched, InFlight
<1>9. QED
  BY <1>4, <1>5, <1>6, <1>7, <1>8

-----------------------------------------------------------------------------
\* The answers.

LEMMA AnswerFacts ==
    ASSUME PagesInv, NEW c \in Slots, InFlight(c), call' = Done(c), db' = db,
           page' \in Page, page'.at = page.at, page'.poll = page.poll, touched' \subseteq Polls
    PROVE  /\ TypeOK' /\ CallInv' /\ Later(db, db')
           /\ \A d \in Slots : InFlight(d)' => d # c /\ InFlight(d) /\ call'[d] = call[d]
           /\ \A d \in Slots : d # c => call'[d] = call[d]
<1>1. /\ call' \in [Slots -> Call \cup {None}] /\ call'[c] = None
      /\ \A d \in Slots : d # c => call'[d] = call[d]
  BY DEF Done, PagesInv, TypeOK
<1>2. TypeOK'
  BY <1>1 DEF PagesInv, TypeOK
<1>3. Later(db, db')
  BY DEF Later
<1>4. CallInv'
  BY <1>1, <1>3, CallsKept DEF PagesInv
<1>5. QED
  BY <1>1, <1>2, <1>3, <1>4 DEF InFlight

LEMMA LoadingDone ==
    ASSUME LoadingInv, UNCHANGED <<db, touched>>,
           \A d \in Slots : InFlight(d)' => InFlight(d) /\ call'[d] = call[d],
           page'.at = page.at,
           page.at = "dashboard" => page'.loading = page.loading,
           page.at = "dashboard" /\ page.loading =>
              page'.asked = page.asked /\ page'.list = page.list
    PROVE  LoadingInv'
<1>1. \A d \in Slots : Watched(d, "list")' => Watched(d, "list") /\ call'[d] = call[d]
  BY DEF Watched
<1>2. \A p \in Polls : Stored(p)' = Stored(p)
  BY DEF Stored, Exists
<1>3. QED
  BY <1>1, <1>2 DEF LoadingInv

LEMMA FormDone ==
    ASSUME FormInv, NEW c \in Slots, ~Watched(c, "create"),
           \A d \in Slots : InFlight(d)' => InFlight(d) /\ call'[d] = call[d],
           \A d \in Slots : d # c => call'[d] = call[d],
           page'.creating = page.creating, page'.created = page.created,
           page'.made = page.made, page'.lost = page.lost
    PROVE  FormInv'
<1>1. \A d \in Slots : Watched(d, "create")' => Watched(d, "create")
  BY DEF Watched
<1>2. \A d \in Slots : Watched(d, "create") /\ call[d].reply = "ok" =>
                           Watched(d, "create")' /\ call'[d].reply = "ok"
  BY DEF Watched, InFlight
<1>3. QED
  BY <1>1, <1>2 DEF FormInv

LEMMA ListAnswersInv ==
    ASSUME PagesInv, NEW c \in Slots, InFlight(c), call[c].live, ListAnswers(c), db' = db
    PROVE  PagesInv'
<1> USE DEF PagesInv
<1>1. /\ call[c] \in Call /\ CallSound(call[c], db) /\ call[c].kind = "list"
      /\ page.at = "dashboard" /\ page.loading /\ Watched(c, "list")
  BY CallFacts DEF ListAnswers, Watched
<1>2. page \in Page /\ touched \subseteq Polls /\ call[c].list \in [Polls -> Shows]
  BY <1>1 DEF TypeOK, Call
<1>3. /\ page' = [page EXCEPT !.list = call[c].list, !.loading = FALSE]
      /\ touched' = IF call[c].reply = "ok" THEN touched ELSE Polls
      /\ call' = Done(c)
  BY DEF ListAnswers
<1>4. page' \in Page
  BY <1>2, <1>3 DEF Page
<1>5. /\ page'.at = page.at /\ page'.poll = page.poll /\ page'.shown = page.shown
      /\ page'.list = call[c].list
      /\ page'.loading = FALSE /\ page'.status = page.status
      /\ page'.creating = page.creating /\ page'.created = page.created
      /\ page'.made = page.made /\ page'.lost = page.lost
  BY <1>2, <1>3 DEF Page
<1>6. touched' \subseteq Polls
  BY <1>2, <1>3
<1>7. /\ TypeOK' /\ CallInv'
      /\ \A d \in Slots : InFlight(d)' => d # c /\ InFlight(d) /\ call'[d] = call[d]
      /\ \A d \in Slots : d # c => call'[d] = call[d]
  BY <1>3, <1>4, <1>5, <1>6, AnswerFacts
<1>8. ShownInv'
  BY <1>1, <1>5 DEF ShownInv, CallSound
<1>9. \A d \in Slots : ~Watched(d, "list")'
  BY <1>1, <1>7 DEF LoadingInv, Watched
<1>10. LoadingInv'
  BY <1>5, <1>9 DEF LoadingInv
<1>11. CardInv'
  <2>1. \A p \in Polls \ touched' : call[c].list[p] = Stored(p)
    BY <1>1, <1>3 DEF LoadingInv
  <2>2. \A p \in Polls : Stored(p)' = Stored(p)
    BY DEF Stored, Exists
  <2>3. QED BY <1>5, <2>1, <2>2 DEF CardInv
<1>12. FormInv'
  BY <1>1, <1>5, <1>7, FormDone DEF Watched
<1>13. QED
  BY <1>7, <1>8, <1>10, <1>11, <1>12

\* What ManagePoll shows after an answer: g differs from the page in that only.
ShowsSound(g) ==
    /\ g.at = page.at /\ g.poll = page.poll /\ g.loading = page.loading
    /\ g.asked = page.asked /\ g.list = page.list /\ g.creating = page.creating
    /\ g.created = page.created /\ g.made = page.made /\ g.lost = page.lost
    /\ g.status # "none" => g.shown \in Polls
    /\ g.status = "closed" => db[g.shown] \in Over

LEMMA ShowingIs ==
    ASSUME PagesInv, NEW c \in Slots, call[c] \in Call, CallSound(call[c], db),
           call[c].kind \in {"load", "close"}, call[c].poll \in Polls
    PROVE  Showing(c) \in Page /\ ShowsSound(Showing(c))
<1>1. page \in Page
  BY DEF PagesInv, TypeOK
<1>2. CASE call[c].reply = "failed"
  BY <1>1, <1>2 DEF Showing, ShowsSound, PagesInv, ShownInv
<1>3. CASE call[c].reply # "failed"
  <2>1. PICK st \in Shows, p \in Polls : st = call[c].reply /\ p = call[c].poll
    BY <1>3 DEF CallSound, Shows
  <2>2. st = "closed" => db[p] \in Over
    BY <2>1 DEF CallSound
  <2>3. Showing(c) = [page EXCEPT !.shown = p, !.status = st]
    BY <1>3, <2>1 DEF Showing
  <2>4. p \in MaybePoll
    BY DEF MaybePoll
  <2>5. QED
    BY <1>1, <2>2, <2>3, <2>4 DEF Page, ShowsSound
<1>4. QED
  BY <1>2, <1>3

LEMMA LoadAnswersInv ==
    ASSUME PagesInv, NEW c \in Slots, InFlight(c), call[c].live, LoadAnswers(c), db' = db
    PROVE  PagesInv'
<1> USE DEF PagesInv
<1>1. /\ call[c] \in Call /\ CallSound(call[c], db) /\ call[c].kind = "load"
      /\ page.at = "manage" /\ call[c].poll \in Polls
  BY CallFacts DEF LoadAnswers
<1>2. page \in Page /\ touched \subseteq Polls
  BY DEF TypeOK
<1>3. PICK g : g = Showing(c)
  OBVIOUS
<1>4. page' = [g EXCEPT !.loading = FALSE] /\ call' = Done(c) /\ touched' = touched
  BY <1>3 DEF LoadAnswers
<1>5. g \in Page /\ ShowsSound(g)
  BY <1>1, <1>3, ShowingIs DEF CallSound
<1>6. /\ page' \in Page
      /\ page'.at = page.at /\ page'.poll = page.poll /\ page'.list = page.list
      /\ page'.shown = g.shown /\ page'.status = g.status
      /\ page'.creating = page.creating /\ page'.created = page.created
      /\ page'.made = page.made /\ page'.lost = page.lost
  BY <1>4, <1>5 DEF Page, ShowsSound
<1>7. /\ TypeOK' /\ CallInv'
      /\ \A d \in Slots : InFlight(d)' => d # c /\ InFlight(d) /\ call'[d] = call[d]
      /\ \A d \in Slots : d # c => call'[d] = call[d]
  BY <1>2, <1>4, <1>6, AnswerFacts
<1>8. ShownInv'
  BY <1>1, <1>5, <1>6 DEF ShownInv, ShowsSound
<1>9. LoadingInv'
  BY <1>1, <1>4, <1>6, <1>7, LoadingDone
<1>10. CardInv'
  BY <1>1, <1>6 DEF CardInv
<1>11. FormInv'
  BY <1>1, <1>6, <1>7, FormDone DEF Watched
<1>12. QED
  BY <1>7, <1>8, <1>9, <1>10, <1>11

\* Some cards are set right, or none, and no other call is answered.
LEMMA CardsDone ==
    ASSUME PagesInv, NEW c \in Slots, InFlight(c), call[c].live,
           call[c].kind \in {"close", "delete"},
           call' = Done(c), db' = db, touched' = touched, page' \in Page,
           page'.at = page.at, page'.poll = page.poll /\ page'.shown = page.shown,
           page'.loading = page.loading,
           page'.status = page.status, page'.creating = page.creating,
           page'.created = page.created, page'.made = page.made, page'.lost = page.lost,
           \A p \in Polls : page'.list[p] = "closed" => db[p] \in Over,
           page.at = "dashboard" /\ ~page.loading =>
              \A p \in Polls \ touched :
                 \/ /\ page'.list[p] = page.list[p]
                    /\ ~Closing(call[c], p) /\ ~Deleting(call[c], p)
                 \/ page'.list[p] = Stored(p)
                 \/ /\ page'.list[p] # "none" /\ db[p] = "gone"
                    /\ DeleteUnder(p) /\ ~Deleting(call[c], p)
    PROVE  PagesInv'
<1> USE DEF PagesInv
<1>1. touched \subseteq Polls
  BY DEF TypeOK
<1>2. /\ TypeOK' /\ CallInv'
      /\ \A d \in Slots : InFlight(d)' => d # c /\ InFlight(d) /\ call'[d] = call[d]
      /\ \A d \in Slots : d # c => call'[d] = call[d]
  BY <1>1, AnswerFacts
<1>3. ShownInv'
  BY DEF ShownInv
<1>4. page.at = "dashboard" => ~page.loading
  BY DEF LoadingInv
<1>5. LoadingInv'
  BY <1>2, <1>4, LoadingDone
<1>6. CardInv'
  <2>1. \A p \in Polls :
           /\ CloseUnder(p) /\ ~Closing(call[c], p) => CloseUnder(p)'
           /\ DeleteUnder(p) /\ ~Deleting(call[c], p) => DeleteUnder(p)'
    BY <1>2 DEF CloseUnder, DeleteUnder, InFlight
  <2>2. \A p \in Polls : Stored(p)' = Stored(p)
    BY DEF Stored, Exists
  <2>3. QED BY <2>1, <2>2 DEF CardInv
<1>7. FormInv'
  BY <1>2, FormDone DEF Watched
<1>8. QED
  BY <1>2, <1>3, <1>5, <1>6, <1>7

LEMMA CardDeletedInv ==
    ASSUME PagesInv, NEW c \in Slots, InFlight(c), call[c].live, CardDeleted(c), db' = db
    PROVE  PagesInv'
<1> USE DEF PagesInv
<1>1. /\ call[c] \in Call /\ CallSound(call[c], db)
      /\ call[c].kind = "delete" /\ call[c].poll \in Polls
      /\ call' = Done(c) /\ touched' = touched
  BY CallFacts DEF CardDeleted, CallSound
<1>2. PICK q \in Polls : q = call[c].poll
  BY <1>1
<1>3. page \in Page /\ page.list \in [Polls -> Shows]
  BY DEF TypeOK, Page
<1>4. \A p \in Polls : ~Closing(call[c], p)
  BY <1>1 DEF Closing
<1>5. CASE call[c].reply = "ok"
  <2>1. /\ page' = [page EXCEPT !.list = [page.list EXCEPT ![q] = "none"], !.asked = None,
                                !.deleting = FALSE]
        /\ db[q] = "gone"
    BY <1>1, <1>2, <1>5 DEF CardDeleted, Without, CallSound
  <2>2. [page.list EXCEPT ![q] = "none"] \in [Polls -> Shows]
    BY <1>3 DEF Shows
  <2>3. page' \in Page
    BY <1>3, <2>1, <2>2 DEF Page, MaybePoll
  <2>4. /\ page'.at = page.at /\ page'.poll = page.poll /\ page'.shown = page.shown
        /\ page'.loading = page.loading
        /\ page'.status = page.status /\ page'.creating = page.creating
        /\ page'.created = page.created /\ page'.made = page.made /\ page'.lost = page.lost
        /\ page'.list = [page.list EXCEPT ![q] = "none"]
    BY <1>3, <2>1 DEF Page
  <2>5. \A p \in Polls : page'.list[p] = "closed" => db[p] \in Over
    BY <1>3, <2>4 DEF ShownInv
  <2>6. \A p \in Polls : p # q => page'.list[p] = page.list[p] /\ ~Deleting(call[c], p)
    BY <1>2, <1>3, <2>4 DEF Deleting
  <2>7. page'.list[q] = Stored(q)
    BY <1>3, <2>1, <2>4 DEF Stored, Exists
  <2>8. QED
    BY <1>1, <1>4, <2>3, <2>4, <2>5, <2>6, <2>7, CardsDone
<1>6. CASE call[c].reply # "ok"
  <2>1. page' = [page EXCEPT !.deleting = FALSE]
    BY <1>6 DEF CardDeleted
  <2>2. page' \in Page
    BY <1>3, <2>1 DEF Page
  <2>3. /\ page'.at = page.at /\ page'.poll = page.poll /\ page'.shown = page.shown
        /\ page'.loading = page.loading
        /\ page'.status = page.status /\ page'.creating = page.creating
        /\ page'.created = page.created /\ page'.made = page.made /\ page'.lost = page.lost
        /\ page'.list = page.list
    BY <1>3, <2>1 DEF Page
  <2>4. \A p \in Polls : ~Deleting(call[c], p)
    BY <1>6 DEF Deleting
  <2>5. \A p \in Polls : page'.list[p] = "closed" => db[p] \in Over
    BY <2>3 DEF ShownInv
  <2>6. QED
    BY <1>1, <1>4, <2>2, <2>3, <2>4, <2>5, CardsDone
<1>7. QED
  BY <1>5, <1>6

LEMMA CrashInv ==
    ASSUME PagesInv, NEW c \in Slots, UNCHANGED <<db, touched>>,
           page' = [Fresh("crashed", None) EXCEPT !.loading = FALSE],
           call' = [d \in Slots |->
                      IF d = c \/ Unwatched[d] = None THEN None
                      ELSE IF call[d].stage = "answered" THEN None
                      ELSE [Unwatched[d] EXCEPT !.from = "crashed"]]
    PROVE  PagesInv'
<1> USE DEF PagesInv
<1>1. Fresh("crashed", None) \in Page
  BY FreshType DEF Places, MaybePoll
<1>2. page' \in Page
  BY <1>1 DEF Page
<1>3. /\ page'.at = "crashed" /\ page'.list = Nothing /\ page'.status = "none"
      /\ page'.made = 0
  BY <1>1 DEF Fresh
<1>4. \A d \in Slots : Left(Unwatched[d], db) =>
                           Left([Unwatched[d] EXCEPT !.from = "crashed"], db)
  <2>1. ASSUME NEW k, Left(k, db)
        PROVE  Left([k EXCEPT !.from = "crashed"], db)
    <3>1. k \in Call /\ CallSound(k, db) /\ ~k.live
      BY <2>1 DEF Left
    <3>2. [k EXCEPT !.from = "crashed"] \in Call
      BY <3>1 DEF Call, Places
    <3>3. CallSound([k EXCEPT !.from = "crashed"], db)
      BY <3>1, <3>2 DEF CallSound, Call
    <3>4. ~[k EXCEPT !.from = "crashed"].live
      BY <3>1 DEF Call
    <3>5. QED BY <3>2, <3>3, <3>4 DEF Left
  <2>2. QED BY <2>1
<1>5. \A d \in Slots : call'[d] # None => Left(call'[d], db)
  BY <1>4, UnwatchedIsLeft
<1>6. call' \in [Slots -> Call \cup {None}]
  BY <1>5 DEF Left
<1>7. TypeOK'
  BY <1>2, <1>3, <1>6 DEF TypeOK
<1>8. CallInv'
  BY <1>5 DEF CallInv, InFlight, Left, Here
<1>9. \A d \in Slots, k \in {"list", "create"} : ~Watched(d, k)'
  BY <1>5 DEF Watched, InFlight, Left
<1>10. ShownInv' /\ LoadingInv' /\ CardInv' /\ FormInv'
  BY <1>3, <1>9 DEF ShownInv, LoadingInv, CardInv, FormInv, Nothing
<1>11. QED
  BY <1>7, <1>8, <1>10

LEMMA CardClosedInv ==
    ASSUME PagesInv, NEW c \in Slots, InFlight(c), call[c].live, CardClosed(c), db' = db,
           call[c].stage = "answered"
    PROVE  PagesInv'
<1> USE DEF PagesInv
<1>1. /\ call[c] \in Call /\ CallSound(call[c], db)
      /\ call[c].kind = "close" /\ call[c].poll \in Polls
      /\ touched' = touched
  BY CallFacts DEF CardClosed, CallSound
<1>2. PICK q \in Polls : q = call[c].poll
  BY <1>1
<1>3. page \in Page /\ page.list \in [Polls -> Shows]
  BY DEF TypeOK, Page
<1>4. \A p \in Polls : ~Deleting(call[c], p)
  BY <1>1 DEF Deleting
<1>5. CASE call[c].reply = "failed"
  <2>1. page' = page /\ call' = Done(c)
    BY <1>5 DEF CardClosed
  <2>2. ASSUME call[c].stage # "set"
        PROVE  \A p \in Polls : ~Closing(call[c], p)
    BY <1>5, <2>2 DEF Closing
  <2>3. call[c].stage # "set"
    BY <1>1, <1>5 DEF CallSound
  <2>4. \A p \in Polls : page'.list[p] = "closed" => db[p] \in Over
    BY <2>1 DEF ShownInv
  <2>5. QED
    BY <1>1, <1>3, <1>4, <2>1, <2>2, <2>3, <2>4, CardsDone
<1>6. CASE call[c].reply = "none"
  <2>1. CASE page.list # Nothing
    BY <1>1, <1>6, <2>1, CrashInv DEF CardClosed
  <2>2. CASE page.list = Nothing
    <3>1. page' = page /\ call' = Done(c)
      BY <1>6, <2>2 DEF CardClosed
    <3>2. call[c].reply # "closed" /\ call[c].stage # "set"
      BY <1>6
    <3>3. \A p \in Polls : ~Closing(call[c], p)
      BY <3>2 DEF Closing
    <3>4. \A p \in Polls : page'.list[p] = "closed" => db[p] \in Over
      BY <3>1 DEF ShownInv
    <3>5. QED
      BY <1>1, <1>3, <1>4, <3>1, <3>3, <3>4, CardsDone
  <2>3. QED BY <2>1, <2>2
<1>7. CASE call[c].reply \in {"active", "closed"}
  <2>1. call[c].reply = "closed" /\ db[q] \in Over
    BY <1>1, <1>2, <1>7 DEF CallSound
  <2> DEFINE l == [page.list EXCEPT ![q] = IF @ = "none" THEN @ ELSE "closed"]
  <2>2. page' = [page EXCEPT !.list = l] /\ call' = Done(c)
    BY <1>2, <1>7, <2>1 DEF CardClosed
  <2>3. /\ l \in [Polls -> Shows] /\ \A p \in Polls : p # q => l[p] = page.list[p]
        /\ l[q] = IF page.list[q] = "none" THEN "none" ELSE "closed"
    BY <1>3 DEF Shows
  <2> HIDE DEF l
  <2>4. page' \in Page
    BY <1>3, <2>2, <2>3 DEF Page
  <2>5. /\ page'.at = page.at /\ page'.poll = page.poll /\ page'.shown = page.shown
        /\ page'.loading = page.loading
        /\ page'.status = page.status /\ page'.creating = page.creating
        /\ page'.created = page.created /\ page'.made = page.made /\ page'.lost = page.lost
        /\ page'.list = l
    BY <1>3, <2>2 DEF Page
  <2>6. \A p \in Polls : page'.list[p] = "closed" => db[p] \in Over
    BY <2>1, <2>3, <2>5 DEF ShownInv
  <2>7. ASSUME page.at = "dashboard", ~page.loading, NEW p \in Polls, p \notin touched
        PROVE  \/ /\ page'.list[p] = page.list[p]
                  /\ ~Closing(call[c], p) /\ ~Deleting(call[c], p)
               \/ page'.list[p] = Stored(p)
               \/ /\ page'.list[p] # "none" /\ db[p] = "gone"
                  /\ DeleteUnder(p) /\ ~Deleting(call[c], p)
    <3>1. CASE p # q
      BY <1>2, <1>4, <2>3, <2>5, <3>1 DEF Closing
    <3>2. CASE p = q
      <4>1. \/ page.list[p] = Stored(p)
            \/ page.list[p] = "active" /\ db[p] = "closed" /\ CloseUnder(p)
            \/ page.list[p] # "none" /\ db[p] = "gone" /\ DeleteUnder(p)
        BY <2>7 DEF CardInv
      <4>2. QED
        BY <1>4, <2>1, <2>3, <2>5, <3>2, <4>1 DEF Stored, Exists, Over
    <3>3. QED BY <3>1, <3>2
  <2>8. QED
    BY <1>1, <2>2, <2>4, <2>5, <2>6, <2>7, CardsDone
<1>8. QED
  BY <1>5, <1>6, <1>7 DEF CardClosed

\* Answers that a page of one poll waits for.
LEMMA OnPageDone ==
    ASSUME PagesInv, NEW c \in Slots, InFlight(c), ~Watched(c, "create"),
           call[c].live => page.at = "manage",
           call' = Done(c), UNCHANGED <<db, touched>>, page' \in Page,
           page'.at = page.at, page'.poll = page.poll, page'.loading = page.loading,
           page'.asked = page.asked, page'.list = page.list, page'.creating = page.creating,
           page'.created = page.created, page'.made = page.made, page'.lost = page.lost,
           page'.status # "none" => page.at = "manage" /\ page'.shown \in Polls,
           page'.status = "closed" => db[page'.shown] \in Over
    PROVE  PagesInv'
<1> USE DEF PagesInv
<1>1. touched \subseteq Polls
  BY DEF TypeOK
<1>2. /\ TypeOK' /\ CallInv'
      /\ \A d \in Slots : InFlight(d)' => d # c /\ InFlight(d) /\ call'[d] = call[d]
      /\ \A d \in Slots : d # c => call'[d] = call[d]
  BY <1>1, AnswerFacts
<1>4. ShownInv'
  BY DEF ShownInv
<1>5. LoadingInv'
  BY <1>2, LoadingDone
<1>6. CardInv'
  <2>1. SUFFICES ASSUME page.at = "dashboard"
                 PROVE  CardInv'
    BY DEF CardInv
  <2>2. ~call[c].live
    BY <2>1
  <2>3. \A p \in Polls : (CloseUnder(p) => CloseUnder(p)') /\ (DeleteUnder(p) => DeleteUnder(p)')
    BY <1>2, <2>2 DEF CloseUnder, DeleteUnder, InFlight, Closing, Deleting
  <2>4. QED BY <2>3, CardKept
<1>7. FormInv'
  BY <1>2, FormDone
<1>8. QED
  BY <1>2, <1>4, <1>5, <1>6, <1>7

LEMMA OnPageInv ==
    ASSUME PagesInv, NEW c \in Slots, InFlight(c), call[c].live,
           PageClosed(c) \/ PageNotDeleted(c), db' = db
    PROVE  PagesInv'
<1> USE DEF PagesInv
<1>1. /\ call[c] \in Call /\ CallSound(call[c], db)
      /\ page.at = "manage" /\ call[c].poll \in Polls
      /\ call' = Done(c) /\ touched' = touched /\ ~Watched(c, "create")
  BY CallFacts DEF PageClosed, PageNotDeleted, Here, CallSound, Watched
<1>2. page \in Page
  BY DEF TypeOK
<1>3. CASE PageClosed(c)
  <2>1. PICK g : g = Showing(c)
    OBVIOUS
  <2>2. page' = [g EXCEPT !.closing = FALSE, !.askClose = FALSE]
    BY <1>3, <2>1 DEF PageClosed
  <2>3. g \in Page /\ ShowsSound(g)
    BY <1>1, <1>3, <2>1, ShowingIs DEF PageClosed
  <2>4. /\ page' \in Page
        /\ page'.at = page.at /\ page'.poll = page.poll /\ page'.loading = page.loading
        /\ page'.asked = page.asked /\ page'.list = page.list
        /\ page'.creating = page.creating /\ page'.created = page.created
        /\ page'.made = page.made /\ page'.lost = page.lost
        /\ page'.shown = g.shown /\ page'.status = g.status
    BY <2>2, <2>3 DEF Page, ShowsSound
  <2>5. QED
    BY <1>1, <2>3, <2>4, OnPageDone DEF ShowsSound
<1>4. CASE PageNotDeleted(c)
  <2>1. page' = [page EXCEPT !.deleting = FALSE]
    BY <1>4 DEF PageNotDeleted
  <2>2. page' \in Page
    BY <1>2, <2>1 DEF Page
  <2>3. /\ page'.at = page.at /\ page'.poll = page.poll /\ page'.shown = page.shown
        /\ page'.loading = page.loading
        /\ page'.asked = page.asked /\ page'.list = page.list
        /\ page'.creating = page.creating /\ page'.created = page.created
        /\ page'.made = page.made /\ page'.lost = page.lost /\ page'.status = page.status
    BY <1>2, <2>1 DEF Page
  <2>4. QED
    BY <1>1, <2>2, <2>3, OnPageDone DEF ShownInv
<1>5. QED
  BY <1>3, <1>4

LEMMA PageDeletedInv ==
    ASSUME PagesInv, NEW c \in Slots, InFlight(c), PageDeleted(c), db' = db
    PROVE  PagesInv'
<1>1. touched' = touched /\ call[c].kind = "delete" /\ call[c].from = "manage"
  BY DEF PageDeleted, Navigates
<1>2. CASE page.at = "dashboard"
  <2>1. page' = page /\ call' = Done(c) /\ page \in Page /\ ~Watched(c, "create")
    BY <1>1, <1>2 DEF PageDeleted, PagesInv, TypeOK, Watched
  <2>2. ~call[c].live
    BY <1>1, <1>2, CallFacts DEF Here
  <2>3. QED
    BY <1>1, <2>1, <2>2, OnPageDone DEF PagesInv, ShownInv
<1>3. CASE page.at # "dashboard"
  <2>1. PICK cs \in [Slots -> Call \cup {None}] :
           cs = [d \in Slots |-> IF d = c THEN None ELSE Unwatched[d]]
    BY UnwatchedIsLeft
  <2>2. \A d \in Slots : cs[d] # None => Left(cs[d], db)
    BY <2>1, UnwatchedIsLeft
  <2>3. Mount("dashboard", None, cs) /\ None \in MaybePoll
    BY <1>3, <2>1 DEF PageDeleted, MaybePoll
  <2>4. QED
    BY <1>1, <2>2, <2>3, MountInv
<1>4. QED
  BY <1>2, <1>3

LEMMA CreatedInv ==
    ASSUME PagesInv, NEW c \in Slots, InFlight(c), call[c].live, Created(c),
           call[c].stage = "answered", db' = db
    PROVE  PagesInv'
<1> USE DEF PagesInv
<1>1. /\ call[c] \in Call /\ CallSound(call[c], db)
      /\ call[c].kind = "create" /\ page.at = "create" /\ Watched(c, "create")
      /\ call' = Done(c) /\ touched' = touched
  BY CallFacts DEF Created, Watched
<1>2. /\ call[c].reply \in {"ok", "failed"} /\ call[c].poll \in MaybePoll
      /\ call[c].reply = "ok" => call[c].poll \in Polls
  BY <1>1 DEF CallSound, Call
<1>3. page \in Page /\ touched \subseteq Polls /\ page.created = None
  BY <1>1 DEF TypeOK, FormInv
<1> DEFINE p == IF call[c].reply = "failed" THEN None ELSE call[c].poll
<1>4. /\ page'.at = page.at /\ page'.poll = page.poll /\ page'.shown = page.shown
      /\ page'.list = page.list
      /\ page'.status = page.status /\ page'.made = page.made /\ page'.lost = page.lost
      /\ page'.created = p /\ page' \in Page
  <2>1. CASE call[c].reply = "failed"
    <3>1. page' = [page EXCEPT !.creating = FALSE]
      BY <2>1 DEF Created
    <3>2. page' \in Page
      BY <1>3, <3>1 DEF Page
    <3>3. QED BY <1>3, <2>1, <3>1, <3>2 DEF Page
  <2>2. CASE call[c].reply # "failed"
    <3>1. page' = [page EXCEPT !.creating = FALSE, !.created = call[c].poll]
      BY <2>2 DEF Created
    <3>2. page' \in Page
      BY <1>2, <1>3, <3>1 DEF Page
    <3>3. QED BY <1>3, <2>2, <3>1, <3>2 DEF Page
  <2>3. QED BY <2>1, <2>2
<1>5. /\ TypeOK' /\ CallInv' /\ Later(db, db')
      /\ \A d \in Slots : InFlight(d)' => d # c /\ InFlight(d) /\ call'[d] = call[d]
  BY <1>1, <1>3, <1>4, AnswerFacts
<1>6. ShownInv'
  BY <1>4, <1>5, ShownKept
<1>7. LoadingInv'
  BY <1>1, <1>4, <1>5, LoadingDone
<1>8. CardInv'
  BY <1>1, <1>4 DEF CardInv
<1>9. FormInv'
  <2>1. \A d \in Slots : ~Watched(d, "create")'
    BY <1>1, <1>5 DEF FormInv, Watched
  <2>2. page.lost \/ page.made = 0 \/ (page.made = 1 /\ call[c].reply = "ok")
    BY <1>1, <1>3 DEF FormInv
  <2>3. call[c].reply = "ok" => p # None
    BY <1>2, NoneAssumption DEF NoneAssumption
  <2>4. QED
    BY <1>4, <2>1, <2>2, <2>3 DEF FormInv
<1>10. QED
  BY <1>5, <1>6, <1>7, <1>8, <1>9

LEMMA AnswersInv ==
    ASSUME PagesInv, NEW c \in Slots, Answers(c)
    PROVE  PagesInv'
<1>1. InFlight(c) /\ call[c].stage = "answered" /\ db' = db
  BY DEF Answers
<1>2. CASE PageDeleted(c)
  BY <1>1, <1>2, PageDeletedInv
<1>3. CASE call[c].live /\ (\/ ListAnswers(c) \/ LoadAnswers(c) \/ CardClosed(c)
                           \/ CardDeleted(c) \/ PageClosed(c) \/ PageNotDeleted(c)
                           \/ Created(c))
  BY <1>1, <1>3, ListAnswersInv, LoadAnswersInv, CardClosedInv, CardDeletedInv,
     OnPageInv, CreatedInv
<1>4. CASE ~call[c].live /\ call' = Done(c) /\ UNCHANGED <<page, touched>>
  <2>1. page \in Page /\ ~Watched(c, "create")
    BY <1>4 DEF PagesInv, TypeOK, Watched
  <2>2. QED
    BY <1>1, <1>4, <2>1, OnPageDone DEF PagesInv, ShownInv
<1>5. QED
  BY <1>2, <1>3, <1>4 DEF Answers

-----------------------------------------------------------------------------
LEMMA NextPagesInv == PagesInv /\ [Next]_vars => PagesInv'
<1> SUFFICES ASSUME PagesInv, [Next]_vars PROVE PagesInv'
  OBVIOUS
<1>1. CASE UNCHANGED vars
  BY <1>1
  DEF vars, PagesInv, TypeOK, CallInv, ShownInv, LoadingInv, CardInv, FormInv,
      Watched, InFlight, CloseUnder, DeleteUnder, Stored, Exists
<1>2. CASE Next
  <2>1. CASE \/ CloseShare
             \/ \E p \in Polls \cup {None}, at \in {"dashboard", "create", "manage"} :
                   Visit(at, p)
    BY <2>1, NavigationInv DEF MaybePoll
  <2>2. CASE CancelDelete \/ AskOnPage \/ CancelOnPage \/ \E p \in Polls : AskDelete(p)
    BY <2>2, AskInv
  <2>3. CASE \E p \in Polls : Elsewhere(p)
    BY <2>3, ElsewhereInv
  <2>4. CASE \E c \in Slots : \/ ConfirmDelete(c) \/ DeleteOnPage(c) \/ CloseOnPage(c)
                              \/ \E p \in Polls : CloseCard(c, p) \/ Jump(c, p)
    BY <2>4, ChangeSentInv, JumpInv
  <2>5. CASE \E c \in Slots, d \in Drafts : Submit(c, d)
    BY <2>5, SubmitInv
  <2>6. CASE \E c \in Slots : Serve(c) \/ Answers(c)
    BY <2>6, ServeInv, AnswersInv
  <2>7. QED
    BY <1>2, <2>1, <2>2, <2>3, <2>4, <2>5, <2>6 DEF Next
<1>3. QED
  BY <1>1, <1>2

LEMMA PagesInvHolds == Spec => []PagesInv
  BY InitPagesInv, NextPagesInv, PTL DEF Spec

\* The pages, their calls and the stored polls have the states of the model,
\* and a page of one poll has a poll, whatever is answered after it was left.
THEOREM CreatorPagesTypeOK == Spec => []TypeOK
<1>1. PagesInv => TypeOK
  BY DEF PagesInv
<1>2. QED
  BY <1>1, PagesInvHolds, PTL

\* The dashboard's cards are as stored once no call of theirs is in flight, in
\* whatever order handleClose, handleDelete and the service interleave; all but
\* those of polls that were changed elsewhere or whose answer was lost.
THEOREM ListShowsTheStored == Spec => []ListIsStored
<1>1. PagesInv => ListIsStored
  <2> SUFFICES ASSUME PagesInv, page.at = "dashboard", ~page.loading,
                      NEW p \in Polls \ touched, ~Pending(p)
               PROVE  page.list[p] = Stored(p)
    BY DEF ListIsStored
  <2>1. ~CloseUnder(p) /\ ~DeleteUnder(p)
    BY DEF Pending, CloseUnder, DeleteUnder, Closing, Deleting
  <2>2. QED
    BY <2>1 DEF PagesInv, CardInv
<1>2. QED
  BY <1>1, PagesInvHolds, PTL

\* No card and no page shows a poll closed that still takes votes: what Close
\* answers stays true until the answer is shown, and after.
THEOREM ShownClosedIsNotOpen == Spec => []ShownClosedIsClosed
<1>1. PagesInv => ShownClosedIsClosed
  BY DEF PagesInv, ShownInv, ShownClosedIsClosed, Over
<1>2. QED
  BY <1>1, PagesInvHolds, PTL

\* handleSubmit of one form makes at most one poll, unless an answer was lost.
THEOREM FormMakesOnePoll == Spec => []OnePollPerForm
<1>1. PagesInv => OnePollPerForm
  BY DEF PagesInv, FormInv, OnePollPerForm
<1>2. QED
  BY <1>1, PagesInvHolds, PTL

\* Validate gives the options of every created poll different texts, and one
\* identifier to two of them only where the suffix of one meets the other's, for
\* every draft.  That it does so is the finding of OptionIdsUnique.
THEOREM CreatedOptionsDiffer == Spec => []OptionsDiffer
<1>1. PagesInv => OptionsDiffer
  <2> SUFFICES ASSUME PagesInv, NEW c \in Slots, MadePoll(c)
               PROVE  NearlyUnique(call[c].draft, call[c].ids)
    BY DEF OptionsDiffer
  <2>1. call[c].ids = Validate(call[c].draft) /\ call[c].draft \in Seq(Text)
    BY CallFacts DEF MadePoll, CallSound, Call
  <2>2. QED
    BY <2>1, ValidateNearlyUnique
<1>2. QED
  BY <1>1, PagesInvHolds, PTL

CrashesOverDeleted ==
    page'.at = "crashed" /\ page.at # "crashed" =>
       \E c \in Slots : InFlight(c) /\ call[c].kind = "close" /\ db[call[c].poll] = "gone"
                         /\ call'[c] = None

\* Dashboard comes down only when the answer to a close is null, and it is null
\* only for a poll that is deleted by then.
THEOREM CrashOnlyOverDeleted == Spec => CrashesOverDeletedPolls
<1>1. PagesInv /\ [Next]_vars => [CrashesOverDeleted]_vars
  <2> SUFFICES ASSUME PagesInv, Next, page'.at = "crashed", page.at # "crashed"
               PROVE  CrashesOverDeleted
    BY DEF CrashesOverDeleted
  <2>1. page \in Page
    BY DEF PagesInv, TypeOK
  <2>2. page' # page
    OBVIOUS
  <2>3. \A at \in {"dashboard", "create", "manage"} : \A p, cs : ~Mount(at, p, cs)
    BY DEF Mount, Fresh
  <2>4. ~CloseShare /\ \A p \in Polls \cup {None}, at \in {"dashboard", "create", "manage"} :
                          ~Visit(at, p)
    BY <2>3 DEF CloseShare, Visit
  <2>5. ~CancelDelete /\ ~AskOnPage /\ ~CancelOnPage
    BY <2>1 DEF CancelDelete, AskOnPage, CancelOnPage, Page
  <2>6. \A p \in Polls : ~AskDelete(p) /\ ~Elsewhere(p)
    BY <2>1, <2>2 DEF AskDelete, Elsewhere, Page
  <2>7. ASSUME NEW c \in Slots
        PROVE  /\ ~ConfirmDelete(c) /\ ~DeleteOnPage(c) /\ ~CloseOnPage(c)
               /\ \A p \in Polls : ~CloseCard(c, p) /\ ~Jump(c, p)
               /\ \A d \in Drafts : ~Submit(c, d)
    BY <2>1 DEF ConfirmDelete, DeleteOnPage, CloseOnPage, CloseCard, Jump, Submit, Page
  <2>8. ASSUME NEW c \in Slots
        PROVE  ~Serve(c)
    <3>1. ~ServeCreate(c) /\ ~AnswerLost(c)
      BY <2>1 DEF ServeCreate, AnswerLost, Page
    <3>2. QED
      BY <2>2, <3>1
      DEF Serve, ServeList, ServeLoad, ServeClose, ServeReload, ServeDelete, CallFails
  <2>9. PICK c \in Slots : Answers(c)
    BY <2>4, <2>5, <2>6, <2>7, <2>8 DEF Next
  <2>10. ~ListAnswers(c) /\ ~LoadAnswers(c) /\ ~CardDeleted(c)
    BY <2>1 DEF ListAnswers, LoadAnswers, Showing, CardDeleted, Page
  <2>11. ~PageClosed(c) /\ ~PageNotDeleted(c) /\ ~Created(c)
    BY <2>1 DEF PageClosed, Showing, PageNotDeleted, Created, Page
  <2>12. ~PageDeleted(c)
    <3>1. \A cs : ~Mount("dashboard", None, cs)
      BY <2>3
    <3>2. QED BY <2>2, <3>1 DEF PageDeleted
  <2>13. CardClosed(c) /\ InFlight(c) /\ call[c].stage = "answered"
    BY <2>2, <2>9, <2>10, <2>11, <2>12 DEF Answers
  <2>14. page' # page /\ ~(\E l : page' = [page EXCEPT !.list = l])
    BY <2>1 DEF Page
  <2>15. call[c].reply = "none" /\ call[c].kind = "close" /\ call'[c] = None
    BY <2>13, <2>14 DEF CardClosed
  <2>16. db[call[c].poll] = "gone"
    BY <2>13, <2>15, CallFacts DEF CallSound
  <2>17. QED
    BY <2>13, <2>15, <2>16 DEF CrashesOverDeleted
<1>2. QED
  BY <1>1, PagesInvHolds, PTL DEF Spec, CrashesOverDeletedPolls, CrashesOverDeleted

=============================================================================
