--------------------------- MODULE Project_proofs ---------------------------
(***************************************************************************)
(* The editor's tools on a project: what they answered of its settings,    *)
(* its files and its checks, and what an interrupted installation leaves   *)
(* behind, for every number of names, paths, calls, children and brokers.  *)
(***************************************************************************)
EXTENDS MCProject, SequenceTheorems, FiniteSetTheorems, WellFoundedInduction, NaturalsInduction, TLAPS

----------------------------------------------------------------------------
(* Numbers and lists. *)

LEMMA LeastOf ==
  ASSUME NEW T \in SUBSET Nat, T # {}
  PROVE  \E i \in T : \A j \in T : i <= j
<1> DEFINE Below == {p \in Nat \X Nat : p[1] < p[2]}
<1>1. IsWellFoundedOn(Below, Nat)
  BY NatLessThanWellFounded DEF OpToRel
<1>2. \A i, j \in Nat : <<j, i>> \notin Below => i <= j
  OBVIOUS
<1> HIDE DEF Below
<1>3. PICK i \in T : \A j \in T : <<j, i>> \notin Below
  BY <1>1, WFMin
<1>4. \A j \in T : i <= j
  BY <1>2, <1>3
<1> QED BY <1>4

LEMMA ToSetIs ==
  ASSUME NEW S, NEW s \in Seq(S), NEW x
  PROVE  x \in ToSet(s) <=> \E i \in 1..Len(s) : s[i] = x
  BY DEF ToSet

LEMMA ToSetOfAppend ==
  ASSUME NEW S, NEW s \in Seq(S), NEW e \in S
  PROVE  Append(s, e) \in Seq(S) /\ ToSet(Append(s, e)) = ToSet(s) \cup {e}
<1>1. /\ Append(s, e) \in Seq(S) /\ Len(Append(s, e)) = Len(s) + 1
      /\ \A i \in 1..Len(s) : Append(s, e)[i] = s[i]
      /\ Append(s, e)[Len(s) + 1] = e
  BY AppendProperties
<1> DEFINE t == Append(s, e)
<1>2. PICK n \in Nat : n = Len(s)
  OBVIOUS
<1> HIDE DEF t
<1>3. t \in Seq(S) /\ Len(t) = n + 1 /\ (\A i \in 1..n : t[i] = s[i]) /\ t[n + 1] = e
  BY <1>1, <1>2 DEF t
<1>4. ASSUME NEW x PROVE (\E i \in 1..(n + 1) : t[i] = x) <=> (\E i \in 1..n : s[i] = x) \/ x = e
  <2>1. ASSUME NEW i \in 1..(n + 1), t[i] = x PROVE (\E j \in 1..n : s[j] = x) \/ x = e
    <3>1. i \in 1..n \/ i = n + 1
      OBVIOUS
    <3> QED BY <1>3, <2>1, <3>1
  <2>2. ASSUME NEW i \in 1..n, s[i] = x PROVE \E j \in 1..(n + 1) : t[j] = x
    <3>1. i \in 1..(n + 1)
      OBVIOUS
    <3> QED BY <1>3, <2>2, <3>1
  <2>3. n + 1 \in 1..(n + 1)
    OBVIOUS
  <2> QED BY <1>3, <2>1, <2>2, <2>3
<1>5. \A x : x \in ToSet(t) <=> x \in ToSet(s) \/ x = e
  BY <1>2, <1>3, <1>4, ToSetIs
<1>6. ToSet(t) = ToSet(s) \cup {e}
  BY <1>5
<1> QED BY <1>3, <1>6 DEF t

\* g holds what is kept of the first elements of s, up to the m-th.
KeptOf(t, e, gone) == IF e \in gone THEN t ELSE Append(t, e)
Keeps(s, gone, m, g) == g = [i \in 0..m |-> IF i = 0 THEN <<>> ELSE IF s[i] \in gone THEN g[i - 1] ELSE Append(g[i - 1], s[i])]

LEMMA KeepsExists ==
  ASSUME NEW S, NEW s \in Seq(S), NEW gone, NEW m \in Nat
  PROVE  \E g : Keeps(s, gone, m, g)
<1> DEFINE Bad == {k \in Nat : ~ \E g : Keeps(s, gone, k, g)}
<1>1. SUFFICES ASSUME Bad # {} PROVE FALSE
  OBVIOUS
<1>2. PICK k \in Bad : \A j \in Bad : k <= j
  <2>1. Bad \in SUBSET Nat
    OBVIOUS
  <2> HIDE DEF Bad
  <2> QED BY <1>1, <2>1, LeastOf
<1>3. k \in Nat
  OBVIOUS
<1>4. CASE k = 0
  <2> DEFINE g == [i \in 0..0 |-> <<>>]
  <2>1. g = [i \in 0..0 |-> IF i = 0 THEN <<>> ELSE IF s[i] \in gone THEN g[i - 1] ELSE Append(g[i - 1], s[i])]
    <3>1. \A i \in 0..0 : i = 0
      OBVIOUS
    <3> QED BY <3>1
  <2>2. Keeps(s, gone, 0, g)
    BY <2>1 DEF Keeps
  <2> QED BY <1>4, <2>2
<1>5. CASE k # 0
  <2>1. k - 1 \in Nat /\ k - 1 \notin Bad
    BY <1>2, <1>3, <1>5
  <2>2. PICK g : Keeps(s, gone, k - 1, g)
    BY <2>1
  <2>3. \A i \in 0..(k - 1) : g[i] = IF i = 0 THEN <<>> ELSE KeptOf(g[i - 1], s[i], gone)
    BY <2>2 DEF Keeps, KeptOf
  <2> DEFINE h == [i \in 0..k |-> IF i = k THEN KeptOf(g[k - 1], s[k], gone) ELSE g[i]]
  <2>4. \A i \in 0..k : h[i] = IF i = 0 THEN <<>> ELSE KeptOf(h[i - 1], s[i], gone)
    <3>1. TAKE i \in 0..k
    <3>2. CASE i = k
      <4>1. i - 1 \in 0..k /\ i - 1 # k /\ i # 0
        BY <1>3, <1>5, <3>2
      <4>2. h[i] = KeptOf(g[k - 1], s[k], gone) /\ h[i - 1] = g[k - 1]
        BY <3>2, <4>1
      <4> QED BY <3>2, <4>1, <4>2
    <3>3. CASE i # k /\ i # 0
      <4>1. i - 1 \in 0..k /\ i - 1 # k /\ i \in 0..(k - 1)
        BY <1>3, <3>3
      <4>2. h[i] = g[i] /\ h[i - 1] = g[i - 1]
        BY <3>3, <4>1
      <4>3. g[i] = KeptOf(g[i - 1], s[i], gone)
        BY <2>3, <3>3, <4>1
      <4> QED BY <3>3, <4>2, <4>3
    <3>4. CASE i # k /\ i = 0
      <4>1. i \in 0..(k - 1)
        BY <1>3, <3>4
      <4> QED BY <2>3, <3>4, <4>1
    <3> QED BY <3>2, <3>3, <3>4
  <2>5. DOMAIN h = 0..k /\ h = [i \in 0..k |-> h[i]]
    OBVIOUS
  <2> HIDE DEF h
  <2>6. Keeps(s, gone, k, h)
    BY <2>4, <2>5 DEF Keeps, KeptOf
  <2> QED BY <2>6
<1> QED BY <1>4, <1>5

LEMMA ToSetOfWithout ==
  ASSUME NEW S, NEW s \in Seq(S), NEW gone
  PROVE  Without(s, gone) \in Seq(S) /\ ToSet(Without(s, gone)) = ToSet(s) \ gone
<1>0. PICK n \in Nat : n = Len(s)
  OBVIOUS
<1>e. PICK g : Keeps(s, gone, n, g)
  BY KeepsExists
<1> DEFINE kept[i \in 0..Len(s)] == IF i = 0 THEN <<>> ELSE IF s[i] \in gone THEN kept[i - 1] ELSE Append(kept[i - 1], s[i])
<1>1. Without(s, gone) = kept[n]
  BY <1>0 DEF Without
<1>2. Keeps(s, gone, n, kept)
  BY <1>0, <1>e DEF Keeps
<1> HIDE DEF kept
<1>3. \A i \in 0..n : kept[i] = IF i = 0 THEN <<>> ELSE KeptOf(kept[i - 1], s[i], gone)
  BY <1>2 DEF Keeps, KeptOf
<1> DEFINE Right(i) == kept[i] \in Seq(S) /\ \A x : x \in ToSet(kept[i]) <=> x \notin gone /\ \E j \in 1..i : s[j] = x
           Bad == {k \in Nat : k <= n /\ ~Right(k)}
<1>4. SUFFICES ASSUME Bad # {} PROVE FALSE
  <2>1. Right(n)
    <3>1. n \notin Bad /\ n <= n
      BY <1>4
    <3> HIDE DEF Right
    <3> QED BY <3>1
  <2>2. \A x : x \in ToSet(kept[n]) <=> x \notin gone /\ x \in ToSet(s)
    BY <1>0, <2>1, ToSetIs
  <2> HIDE DEF Right
  <2>3. ToSet(kept[n]) = ToSet(s) \ gone
    BY <2>2
  <2> QED BY <1>1, <2>1, <2>3 DEF Right
<1>5. PICK k \in Bad : \A j \in Bad : k <= j
  <2>1. Bad \in SUBSET Nat
    OBVIOUS
  <2> HIDE DEF Bad
  <2> QED BY <1>4, <2>1, LeastOf
<1>6. k \in Nat /\ k <= n /\ ~Right(k) /\ k \in 0..n
  OBVIOUS
<1>7. CASE k = 0
  <2>1. kept[0] = <<>>
    BY <1>3, <1>6, <1>7
  <2>2. <<>> \in Seq(S) /\ \A x : x \notin ToSet(<<>>)
    BY DEF ToSet
  <2>3. \A x : ~ \E j \in 1..0 : s[j] = x
    OBVIOUS
  <2> QED BY <1>6, <1>7, <2>1, <2>2, <2>3
<1>8. CASE k # 0
  <2>1. k - 1 \in Nat /\ k - 1 \notin Bad /\ k - 1 <= n /\ k \in 1..n
    BY <1>5, <1>6, <1>8
  <2>2. Right(k - 1)
    BY <2>1
  <2>3. kept[k] = KeptOf(kept[k - 1], s[k], gone) /\ s[k] \in S
    BY <1>0, <1>3, <1>6, <1>8, <2>1
  <2>4. kept[k - 1] \in Seq(S) /\ \A x : x \in ToSet(kept[k - 1]) <=> x \notin gone /\ \E j \in 1..(k - 1) : s[j] = x
    BY <2>2
  <2>5. \A x : (\E j \in 1..k : s[j] = x) <=> (\E j \in 1..(k - 1) : s[j] = x) \/ x = s[k]
    <3>1. TAKE x
    <3>2. ASSUME NEW j \in 1..k, s[j] = x PROVE (\E i \in 1..(k - 1) : s[i] = x) \/ x = s[k]
      <4>1. j = k \/ j \in 1..(k - 1)
        BY <1>6
      <4> QED BY <3>2, <4>1
    <3>3. ASSUME NEW j \in 1..(k - 1), s[j] = x PROVE \E i \in 1..k : s[i] = x
      <4>1. j \in 1..k
        BY <1>6
      <4> QED BY <3>3, <4>1
    <3>4. k \in 1..k
      BY <2>1
    <3> QED BY <3>2, <3>3, <3>4
  <2> DEFINE t == kept[k - 1]
             e == s[k]
  <2>6. CASE e \in gone
    <3>1. kept[k] = t
      BY <2>3, <2>6 DEF KeptOf
    <3>2. Right(k)
      BY <2>4, <2>5, <2>6, <3>1
    <3> QED BY <1>6, <3>2
  <2>7. CASE e \notin gone
    <3>1. kept[k] = Append(t, e)
      BY <2>3, <2>7 DEF KeptOf
    <3>2. kept[k] \in Seq(S) /\ ToSet(kept[k]) = ToSet(t) \cup {e}
      BY <2>3, <2>4, <3>1, ToSetOfAppend
    <3>3. Right(k)
      BY <2>4, <2>5, <2>7, <3>2
    <3> QED BY <1>6, <3>3
  <2> QED BY <2>6, <2>7
<1> QED BY <1>7, <1>8

----------------------------------------------------------------------------
(* The project settings. *)

TextOrNone == Paths \cup {Absent}
Remap == [variant : Paths, locale : Locales]
SettingsRecord ==
  [autoload : [Names -> TextOrNone], action : [Names -> Seq(Events) \cup {Absent}], plugin : SUBSET Names,
   plain : [Names -> TextOrNone], locale : [{"fallback", "test"} -> Locales \cup {Absent}],
   translations : Seq(Paths), remaps : [Paths -> Seq(Remap)]]

\* What the tools answered is kept, which is inductive: a tool that changes
\* memory changes there only what it answers about.
SettingsInv == mem \in SettingsRecord /\ AnswersAreKept

LEMMA ValueIs ==
  ASSUME NEW r
  PROVE  /\ \A n \in Names : /\ Value(r, <<"autoload", n>>) = r.autoload[n]
                            /\ Value(r, <<"action", n>>) = r.action[n]
                            /\ Value(r, <<"plain", n>>) = r.plain[n]
                            /\ Value(r, <<"plugin", n>>) = (n \in r.plugin)
         /\ \A p \in Paths : Value(r, <<"translation", p>>) = (p \in ToSet(r.translations))
         /\ \A p \in Paths, l \in Locales : Value(r, <<"remap", <<p, l>>>>) = Variants(r, p, l)
         /\ \A w \in {"fallback", "test"} : Value(r, <<"locale", w>>) = r.locale[w]
  BY DEF Value

LEMMA SlotIs ==
  ASSUME NEW s \in Slots
  PROVE  \/ \E n \in Names : s \in {<<"autoload", n>>, <<"action", n>>, <<"plain", n>>, <<"plugin", n>>}
         \/ \E p \in Paths : s = <<"translation", p>>
         \/ \E p \in Paths, l \in Locales : s = <<"remap", <<p, l>>>>
         \/ \E w \in {"fallback", "test"} : s = <<"locale", w>>
  BY DEF Slots

\* A save of settings m that agree with those in memory outside slots.
LEMMA Saved ==
  ASSUME SettingsInv, NEW m \in SettingsRecord, NEW slots, SaveSettings(m, slots),
         \A n \in Names : /\ <<"autoload", n>> \in slots \/ m.autoload[n] = mem.autoload[n]
                          /\ <<"action", n>> \in slots \/ m.action[n] = mem.action[n]
                          /\ <<"plain", n>> \in slots \/ m.plain[n] = mem.plain[n]
                          /\ <<"plugin", n>> \in slots \/ (n \in m.plugin <=> n \in mem.plugin),
         \A p \in Paths : \/ <<"translation", p>> \in slots
                          \/ p \in ToSet(m.translations) <=> p \in ToSet(mem.translations),
         \A p \in Paths, l \in Locales : <<"remap", <<p, l>>>> \in slots \/ Variants(m, p, l) = Variants(mem, p, l),
         \A w \in {"fallback", "test"} : <<"locale", w>> \in slots \/ m.locale[w] = mem.locale[w]
  PROVE  SettingsInv'
<1>1. ASSUME NEW s \in Slots, s \notin slots PROVE Value(m, s) = Value(mem, s)
  <2>1. ASSUME NEW n \in Names, s = <<"autoload", n>> \/ s = <<"action", n>> \/ s = <<"plain", n>> PROVE Value(m, s) = Value(mem, s)
    <3>1. CASE s = <<"autoload", n>>
      <4>1. m.autoload[n] = mem.autoload[n]
        BY <1>1, <3>1
      <4>2. Value(m, s) = m.autoload[n] /\ Value(mem, s) = mem.autoload[n]
        BY <3>1, ValueIs
      <4> QED BY <4>1, <4>2
    <3>2. CASE s = <<"action", n>>
      <4>1. m.action[n] = mem.action[n]
        BY <1>1, <3>2
      <4>2. Value(m, s) = m.action[n] /\ Value(mem, s) = mem.action[n]
        BY <3>2, ValueIs
      <4> QED BY <4>1, <4>2
    <3>3. CASE s = <<"plain", n>>
      <4>1. m.plain[n] = mem.plain[n]
        BY <1>1, <3>3
      <4>2. Value(m, s) = m.plain[n] /\ Value(mem, s) = mem.plain[n]
        BY <3>3, ValueIs
      <4> QED BY <4>1, <4>2
    <3> QED BY <2>1, <3>1, <3>2, <3>3
  <2>2. ASSUME NEW n \in Names, s = <<"plugin", n>> PROVE Value(m, s) = Value(mem, s)
    <3>1. n \in m.plugin <=> n \in mem.plugin
      BY <1>1, <2>2
    <3>2. Value(m, s) = (n \in m.plugin) /\ Value(mem, s) = (n \in mem.plugin)
      BY <2>2, ValueIs
    <3>3. (n \in m.plugin) = (n \in mem.plugin)
      BY <3>1
    <3> QED BY <3>2, <3>3
  <2>3. ASSUME NEW p \in Paths, s = <<"translation", p>> PROVE Value(m, s) = Value(mem, s)
    <3>1. p \in ToSet(m.translations) <=> p \in ToSet(mem.translations)
      BY <1>1, <2>3
    <3>2. Value(m, s) = (p \in ToSet(m.translations)) /\ Value(mem, s) = (p \in ToSet(mem.translations))
      BY <2>3, ValueIs
    <3>3. (p \in ToSet(m.translations)) = (p \in ToSet(mem.translations))
      BY <3>1
    <3> QED BY <3>2, <3>3
  <2>4. CASE \E p \in Paths, l \in Locales : s = <<"remap", <<p, l>>>>
    BY <1>1, <2>4, ValueIs
  <2>5. ASSUME NEW w \in {"fallback", "test"}, s = <<"locale", w>> PROVE Value(m, s) = Value(mem, s)
    <3>1. m.locale[w] = mem.locale[w]
      BY <1>1, <2>5
    <3>2. Value(m, s) = m.locale[w] /\ Value(mem, s) = mem.locale[w]
      BY <2>5, ValueIs
    <3> QED BY <3>1, <3>2
  <2> QED BY <2>1, <2>2, <2>3, <2>4, <2>5, SlotIs
<1>2. mem' = m
  BY DEF SaveSettings
<1>3. ASSUME NEW s \in Slots PROVE told'[s] = Unknown \/ (Value(disk', s) = told'[s] /\ Value(m, s) = told'[s])
  <2>1. CASE s \in slots
    BY <2>1 DEF SaveSettings
  <2>2. CASE s \notin slots
    <3>1. told'[s] = told[s] /\ (disk' = m \/ disk' = disk)
      BY <2>2 DEF SaveSettings
    <3>2. Value(m, s) = Value(mem, s)
      BY <1>1, <2>2
    <3>3. told[s] = Unknown \/ (Value(disk, s) = told[s] /\ Value(mem, s) = told[s])
      BY DEF SettingsInv, AnswersAreKept
    <3> QED BY <3>1, <3>2, <3>3
  <2> QED BY <2>1, <2>2
<1>4. AnswersAreKept'
  BY <1>2, <1>3 DEF AnswersAreKept
<1> QED BY <1>2, <1>4 DEF SettingsInv

LEMMA AutoloadKeeps == ASSUME SettingsInv, AutoloadAdd \/ AutoloadRemove PROVE SettingsInv'
<1>1. PICK n \in Names, p \in TextOrNone : SaveSettings([mem EXCEPT !.autoload[n] = p], {<<"autoload", n>>})
  BY DEF AutoloadAdd, AutoloadRemove, TextOrNone
<1> DEFINE m == [mem EXCEPT !.autoload[n] = p]
<1>2. mem \in SettingsRecord
  BY DEF SettingsInv
<1>3. /\ m \in SettingsRecord /\ \A x \in Names : x # n => m.autoload[x] = mem.autoload[x]
      /\ m.action = mem.action /\ m.plain = mem.plain /\ m.plugin = mem.plugin /\ m.translations = mem.translations
      /\ m.remaps = mem.remaps /\ m.locale = mem.locale
  BY <1>2 DEF SettingsRecord
<1>4. SaveSettings(m, {<<"autoload", n>>})
  BY <1>1
<1> HIDE DEF m
<1> QED BY <1>3, <1>4, Saved DEF Variants

LEMMA ActionKeeps ==
  ASSUME SettingsInv, NEW n \in Names, NEW events \in Seq(Events) \cup {Absent}, WriteAction(n, events)
  PROVE  SettingsInv'
<1> DEFINE m == [mem EXCEPT !.action[n] = events]
<1>2. mem \in SettingsRecord
  BY DEF SettingsInv
<1>3. /\ m \in SettingsRecord /\ \A x \in Names : x # n => m.action[x] = mem.action[x]
      /\ m.autoload = mem.autoload /\ m.plain = mem.plain /\ m.plugin = mem.plugin /\ m.translations = mem.translations
      /\ m.remaps = mem.remaps /\ m.locale = mem.locale
  BY <1>2 DEF SettingsRecord
<1>4. SaveSettings(m, {<<"action", n>>})
  BY DEF WriteAction
<1> HIDE DEF m
<1> QED BY <1>3, <1>4, Saved DEF Variants

LEMMA EventsKeep == ASSUME SettingsInv, ActionAdd \/ ActionRemove \/ EventAdd \/ EventRemove PROVE SettingsInv'
<1>1. \A n \in Names : mem.action[n] # Absent => mem.action[n] \in Seq(Events)
  BY DEF SettingsInv, SettingsRecord
<1>2. CASE ActionAdd \/ ActionRemove
  <2>1. <<>> \in Seq(Events)
    OBVIOUS
  <2> QED BY <1>2, <2>1, ActionKeeps DEF ActionAdd, ActionRemove
<1>3. CASE EventAdd
  <2>1. PICK n \in Names, e \in Events : mem.action[n] # Absent /\ WriteAction(n, Append(mem.action[n], e))
    BY <1>3 DEF EventAdd
  <2>2. Append(mem.action[n], e) \in Seq(Events)
    BY <1>1, <2>1
  <2> QED BY <2>1, <2>2, ActionKeeps
<1>4. CASE EventRemove
  <2>1. PICK n \in Names : mem.action[n] # Absent /\ \E i \in DOMAIN mem.action[n] : WriteAction(n, RemoveAt(mem.action[n], i))
    BY <1>4 DEF EventRemove
  <2>2. PICK i \in DOMAIN mem.action[n] : WriteAction(n, RemoveAt(mem.action[n], i))
    BY <2>1
  <2> DEFINE q == mem.action[n]
  <2>3. q \in Seq(Events)
    BY <1>1, <2>1
  <2> HIDE DEF q
  <2>4. i \in 1..Len(q)
    BY <2>2, <2>3 DEF q
  <2>5. SubSeq(q, 1, i - 1) \in Seq(Events) /\ SubSeq(q, i + 1, Len(q)) \in Seq(Events)
    BY <2>3, <2>4
  <2>6. RemoveAt(q, i) \in Seq(Events)
    BY <2>5 DEF RemoveAt
  <2> QED BY <2>2, <2>6, ActionKeeps DEF q
<1> QED BY <1>2, <1>3, <1>4

LEMMA PluginKeeps == ASSUME SettingsInv, PluginSet PROVE SettingsInv'
<1>1. PICK n \in Names, enabled \in BOOLEAN :
        SaveSettings([mem EXCEPT !.plugin = IF enabled THEN @ \cup {n} ELSE @ \ {n}], {<<"plugin", n>>})
  BY DEF PluginSet
<1> DEFINE m == [mem EXCEPT !.plugin = IF enabled THEN @ \cup {n} ELSE @ \ {n}]
<1>2. mem \in SettingsRecord
  BY DEF SettingsInv
<1>3. /\ m \in SettingsRecord /\ \A x \in Names : x # n => (x \in m.plugin <=> x \in mem.plugin)
      /\ m.autoload = mem.autoload /\ m.plain = mem.plain /\ m.action = mem.action /\ m.translations = mem.translations
      /\ m.remaps = mem.remaps /\ m.locale = mem.locale
  BY <1>2 DEF SettingsRecord
<1>4. SaveSettings(m, {<<"plugin", n>>})
  BY <1>1
<1> HIDE DEF m
<1> QED BY <1>3, <1>4, Saved DEF Variants

LEMMA PlainKeeps == ASSUME SettingsInv, SetSetting PROVE SettingsInv'
<1>1. PICK n \in Names, v \in Paths : SaveSettings([mem EXCEPT !.plain[n] = v], {<<"plain", n>>})
  BY DEF SetSetting
<1> DEFINE m == [mem EXCEPT !.plain[n] = v]
<1>2. mem \in SettingsRecord
  BY DEF SettingsInv
<1>3. /\ m \in SettingsRecord /\ \A x \in Names : x # n => m.plain[x] = mem.plain[x]
      /\ m.autoload = mem.autoload /\ m.action = mem.action /\ m.plugin = mem.plugin /\ m.translations = mem.translations
      /\ m.remaps = mem.remaps /\ m.locale = mem.locale
  BY <1>2 DEF SettingsRecord, TextOrNone
<1>4. SaveSettings(m, {<<"plain", n>>})
  BY <1>1
<1> HIDE DEF m
<1> QED BY <1>3, <1>4, Saved DEF Variants

LEMMA TranslationKeeps == ASSUME SettingsInv, TranslationAdd \/ TranslationRemove PROVE SettingsInv'
<1>1. mem \in SettingsRecord /\ mem.translations \in Seq(Paths)
  BY DEF SettingsInv, SettingsRecord
<1>2. \A p \in Paths : Append(mem.translations, p) \in Seq(Paths) /\ ToSet(Append(mem.translations, p)) = ToSet(mem.translations) \cup {p}
  BY <1>1, ToSetOfAppend
<1>3. \A p \in Paths : /\ Without(mem.translations, {p}) \in Seq(Paths)
                       /\ ToSet(Without(mem.translations, {p})) = ToSet(mem.translations) \ {p}
  BY <1>1, ToSetOfWithout
<1>4. ToSet(mem.translations) \subseteq Paths
  BY <1>1, ToSetIs
<1>5. PICK p \in Paths, list \in Seq(Paths) :
        /\ \A q \in Paths : q # p => (q \in ToSet(list) <=> q \in ToSet(mem.translations))
        /\ SaveSettings([mem EXCEPT !.translations = list], {<<"translation", p>>})
  <2>1. CASE TranslationAdd
    <3>1. PICK p \in Paths : SaveSettings([mem EXCEPT !.translations = Append(mem.translations, p)], {<<"translation", p>>})
      BY <1>1, <2>1 DEF TranslationAdd
    <3> DEFINE list == Append(mem.translations, p)
    <3>2. list \in Seq(Paths) /\ \A q \in Paths : q # p => (q \in ToSet(list) <=> q \in ToSet(mem.translations))
      BY <1>2
    <3>3. SaveSettings([mem EXCEPT !.translations = list], {<<"translation", p>>})
      BY <3>1
    <3> HIDE DEF list
    <3> QED BY <3>2, <3>3
  <2>2. CASE TranslationRemove
    <3>1. PICK p \in Paths : SaveSettings([mem EXCEPT !.translations = Without(mem.translations, {p})], {<<"translation", p>>})
      BY <1>1, <1>4, <2>2 DEF TranslationRemove
    <3> DEFINE list == Without(mem.translations, {p})
    <3>2. list \in Seq(Paths) /\ \A q \in Paths : q # p => (q \in ToSet(list) <=> q \in ToSet(mem.translations))
      BY <1>3
    <3>3. SaveSettings([mem EXCEPT !.translations = list], {<<"translation", p>>})
      BY <3>1
    <3> HIDE DEF list
    <3> QED BY <3>2, <3>3
  <2> QED BY <2>1, <2>2
<1> DEFINE m == [mem EXCEPT !.translations = list]
<1>6. /\ m \in SettingsRecord /\ m.translations = list
      /\ m.autoload = mem.autoload /\ m.action = mem.action /\ m.plugin = mem.plugin /\ m.plain = mem.plain
      /\ m.remaps = mem.remaps /\ m.locale = mem.locale
  BY <1>1 DEF SettingsRecord
<1>7. SaveSettings(m, {<<"translation", p>>})
  BY <1>5
<1> HIDE DEF m
<1> QED BY <1>5, <1>6, <1>7, Saved DEF Variants

\* The list of a resource changes in what it has for one locale.
LEMMA RemapKeeps ==
  ASSUME SettingsInv, NEW p \in Paths, NEW l \in Locales, NEW list \in Seq(Remap),
         \A e \in Remap : e.locale # l => (e \in ToSet(list) <=> e \in ToSet(mem.remaps[p])),
         SaveSettings([mem EXCEPT !.remaps[p] = list], {<<"remap", <<p, l>>>>})
  PROVE  SettingsInv'
<1> DEFINE m == [mem EXCEPT !.remaps[p] = list]
<1>1. mem \in SettingsRecord /\ mem.remaps \in [Paths -> Seq(Remap)]
  BY DEF SettingsInv, SettingsRecord
<1>2. /\ m \in SettingsRecord /\ m.remaps[p] = list /\ \A q \in Paths : q # p => m.remaps[q] = mem.remaps[q]
      /\ m.autoload = mem.autoload /\ m.action = mem.action /\ m.plugin = mem.plugin /\ m.plain = mem.plain
      /\ m.translations = mem.translations /\ m.locale = mem.locale
  BY <1>1 DEF SettingsRecord
<1>3. SaveSettings(m, {<<"remap", <<p, l>>>>})
  OBVIOUS
<1> HIDE DEF m
<1>4. \A s \in Seq(Remap) : ToSet(s) \subseteq Remap
  BY ToSetIs
<1>5. ASSUME NEW q \in Paths, NEW k \in Locales, q # p \/ k # l PROVE Variants(m, q, k) = Variants(mem, q, k)
  <2>1. CASE q # p
    BY <1>2, <2>1 DEF Variants
  <2>2. CASE q = p
    <3>1. {f \in ToSet(m.remaps[q]) : f.locale = k} = {f \in ToSet(mem.remaps[q]) : f.locale = k}
      <4>1. ToSet(list) \subseteq Remap /\ ToSet(mem.remaps[p]) \subseteq Remap
        BY <1>1, <1>4
      <4> QED BY <1>2, <1>5, <2>2, <4>1
    <3> QED BY <3>1 DEF Variants
  <2> QED BY <2>1, <2>2
<1>6. \A q \in Paths, k \in Locales : <<"remap", <<q, k>>>> \in {<<"remap", <<p, l>>>>} \/ Variants(m, q, k) = Variants(mem, q, k)
  BY <1>5
<1> QED BY <1>2, <1>3, <1>6, Saved

LEMMA RemapsKeep == ASSUME SettingsInv, RemapAdd \/ RemapRemove PROVE SettingsInv'
<1>1. mem \in SettingsRecord /\ mem.remaps \in [Paths -> Seq(Remap)]
  BY DEF SettingsInv, SettingsRecord
<1>2. CASE RemapAdd
  <2>1. PICK p \in Paths, v \in Paths, l \in Locales :
          SaveSettings([mem EXCEPT !.remaps[p] = Append(mem.remaps[p], [variant |-> v, locale |-> l])], {<<"remap", <<p, l>>>>})
    BY <1>1, <1>2 DEF RemapAdd
  <2> DEFINE e == [variant |-> v, locale |-> l]
             list == Append(mem.remaps[p], e)
  <2>2. e \in Remap /\ e.locale = l /\ mem.remaps[p] \in Seq(Remap)
    BY <1>1 DEF Remap
  <2>3. list \in Seq(Remap) /\ ToSet(list) = ToSet(mem.remaps[p]) \cup {e}
    BY <2>2, ToSetOfAppend
  <2>4. SaveSettings([mem EXCEPT !.remaps[p] = list], {<<"remap", <<p, l>>>>})
    BY <2>1
  <2> HIDE DEF list, e
  <2> QED BY <2>2, <2>3, <2>4, RemapKeeps
<1>3. CASE RemapRemove
  <2> DEFINE Gone(l) == [variant : Paths, locale : {l}]
  <2>1. PICK p \in Paths, l \in Locales :
          SaveSettings([mem EXCEPT !.remaps[p] = Without(mem.remaps[p], Gone(l))], {<<"remap", <<p, l>>>>})
    BY <1>1, <1>3 DEF RemapRemove
  <2> DEFINE list == Without(mem.remaps[p], Gone(l))
  <2>2. mem.remaps[p] \in Seq(Remap)
    BY <1>1
  <2>3. \A e \in Gone(l) : e.locale = l
    OBVIOUS
  <2>4. SaveSettings([mem EXCEPT !.remaps[p] = list], {<<"remap", <<p, l>>>>})
    BY <2>1
  <2> HIDE DEF Gone
  <2>5. list \in Seq(Remap) /\ ToSet(list) = ToSet(mem.remaps[p]) \ Gone(l)
    BY <2>2, ToSetOfWithout
  <2> HIDE DEF list
  <2> QED BY <2>3, <2>4, <2>5, RemapKeeps
<1> QED BY <1>2, <1>3

LEMMA LocaleKeeps == ASSUME SettingsInv, SetLocale PROVE SettingsInv'
<1>1. mem \in SettingsRecord /\ mem.locale \in [{"fallback", "test"} -> Locales \cup {Absent}]
  BY DEF SettingsInv, SettingsRecord
<1>2. PICK which \in SUBSET {"fallback", "test"}, l \in Locales :
        SaveSettings([mem EXCEPT !.locale = [w \in DOMAIN @ |-> IF w \in which THEN l ELSE @[w]]], {"locale"} \X which)
  BY DEF SetLocale
<1> DEFINE to == [w \in {"fallback", "test"} |-> IF w \in which THEN l ELSE mem.locale[w]]
           m == [mem EXCEPT !.locale = to]
<1>3. SaveSettings(m, {"locale"} \X which)
  BY <1>1, <1>2
<1>4. to \in [{"fallback", "test"} -> Locales \cup {Absent}] /\ \A w \in {"fallback", "test"} : w \notin which => to[w] = mem.locale[w]
  BY <1>1
<1> HIDE DEF to
<1>5. /\ m \in SettingsRecord /\ m.locale = to
      /\ m.autoload = mem.autoload /\ m.action = mem.action /\ m.plugin = mem.plugin /\ m.plain = mem.plain
      /\ m.translations = mem.translations /\ m.remaps = mem.remaps
  BY <1>1, <1>4 DEF SettingsRecord
<1> HIDE DEF m
<1>6. \A w \in {"fallback", "test"} : <<"locale", w>> \in {"locale"} \X which \/ m.locale[w] = mem.locale[w]
  BY <1>4, <1>5
<1> QED BY <1>3, <1>5, <1>6, Saved DEF Variants

LEMMA SettingsStep == ASSUME SettingsInv, [SettingsNext]_settingsVars PROVE SettingsInv'
<1>1. CASE UNCHANGED settingsVars
  BY <1>1 DEF settingsVars, SettingsInv, AnswersAreKept
<1> QED BY <1>1, AutoloadKeeps, EventsKeep, PluginKeeps, PlainKeeps, TranslationKeeps, RemapsKeep, LocaleKeeps
    DEF SettingsNext

LEMMA SettingsStart == SettingsInit => SettingsInv
<1> SUFFICES ASSUME SettingsInit PROVE SettingsInv
  OBVIOUS
<1>1. Blank \in SettingsRecord
  <2>1. <<>> \in Seq(Paths) /\ <<>> \in Seq(Remap)
    OBVIOUS
  <2> QED BY <2>1 DEF Blank, SettingsRecord, TextOrNone
<1> QED BY <1>1 DEF SettingsInit, SettingsInv, AnswersAreKept

----------------------------------------------------------------------------
(* Files and the editor's index of them. *)

CallRecord == [st : {"new", "scan", "opening", "done", "error"}, file : Files \cup {NoFile}, ver : Nat, uid : Nat,
               own : BOOLEAN, open : BOOLEAN, left : Nat]

FilesTyped ==
  /\ files \subseteq Files /\ unread \subseteq Files /\ scanning \in BOOLEAN
  /\ ver \in [Files -> Nat] /\ uid \in [Files -> Nat] /\ nextUid \in Nat
  /\ index \in [Files -> [ver : Nat, uid : Nat]]
  /\ fcalls \in [FileCalls -> CallRecord]

\* The editor sees no change before it is made.
IndexIsBehind == \A f \in Files : index[f].ver <= ver[f]

\* A call that started its scan, or that moved a file, is about a path.
CallsAreOfFiles ==
  \A c \in FileCalls :
    /\ fcalls[c].own \/ fcalls[c].uid # 0 => fcalls[c].file \in Files /\ fcalls[c].ver <= ver[fcalls[c].file]
    /\ fcalls[c].st = "opening" => ~fcalls[c].own

\* The change of a call that started its scan is seen, or the scan has yet to see it.
OwnScanSees ==
  \A c \in FileCalls :
    fcalls[c].own =>
      \/ index[fcalls[c].file].ver >= fcalls[c].ver
      \/ scanning /\ fcalls[c].file \in unread

\* A path that nothing changed since a file was moved there has the file, and its uid.
MovedIsThere ==
  \A c \in FileCalls :
    LET f == fcalls[c].file IN
    fcalls[c].uid # 0 /\ kind # "asset" /\ ver[f] = fcalls[c].ver =>
      f \in files /\ uid[f] = fcalls[c].uid /\ (index[f].ver = ver[f] => index[f].uid = fcalls[c].uid)

FilesInv == FilesTyped /\ IndexIsBehind /\ CallsAreOfFiles /\ OwnScanSees /\ MovedIsThere /\ AnsweredIsKnown

LEMMA FreshIs ==
  /\ Fresh = [st |-> "new", file |-> NoFile, ver |-> 0, uid |-> 0, own |-> FALSE, open |-> FALSE, left |-> 0]
  /\ Fresh \in CallRecord /\ ~Fresh.own /\ Fresh.uid = 0 /\ Fresh.st = "new"
  BY DEF Fresh, CallRecord

LEMMA FilesStart == FilesInit => FilesInv
<1> SUFFICES ASSUME FilesInit PROVE FilesInv
  OBVIOUS
<1>1. \A c \in FileCalls : fcalls[c] = Fresh
  BY DEF FilesInit
<1>2. FilesTyped
  <2>1. files \subseteq Files /\ unread = {} /\ scanning = FALSE /\ ver \in [Files -> Nat] /\ nextUid \in Nat
    BY DEF FilesInit
  <2>2. uid \in [Files -> Nat]
    BY DEF FilesInit
  <2>3. index \in [Files -> [ver : Nat, uid : Nat]]
    BY <2>2 DEF FilesInit
  <2>4. fcalls \in [FileCalls -> CallRecord]
    BY FreshIs DEF FilesInit
  <2> QED BY <2>1, <2>2, <2>3, <2>4 DEF FilesTyped
<1>3. IndexIsBehind
  BY DEF FilesInit, IndexIsBehind
<1> QED BY <1>1, <1>2, <1>3, FreshIs DEF FilesInv, CallsAreOfFiles, OwnScanSees, MovedIsThere, AnsweredIsKnown

\* A call that makes changes at the paths fs, and may ask for a scan.
LEMMA Called ==
  ASSUME FilesInv, NEW c \in FileCalls, NEW fs \in SUBSET Files, NEW r \in CallRecord,
         fcalls' = [fcalls EXCEPT ![c] = r],
         ver' = [f \in Files |-> IF f \in fs THEN ver[f] + 1 ELSE ver[f]],
         files' \subseteq Files, uid' \in [Files -> Nat], nextUid' \in Nat,
         \A f \in Files \ fs : (f \in files' <=> f \in files) /\ uid'[f] = uid[f],
         UNCHANGED <<kind, index>>,
         unread' \subseteq Files, scanning' \in BOOLEAN, scanning => scanning' /\ unread \subseteq unread',
         r.own \/ r.uid # 0 => r.file \in Files /\ r.ver <= ver'[r.file],
         r.own => scanning' /\ unread' = Files /\ r.st = "scan",
         r.uid # 0 /\ kind # "asset" => r.file \in fs /\ r.file \in files' /\ uid'[r.file] = r.uid
  PROVE  FilesInv'
<1>0. FilesTyped /\ IndexIsBehind /\ CallsAreOfFiles /\ OwnScanSees /\ MovedIsThere /\ AnsweredIsKnown
  BY DEF FilesInv
<1>1. fcalls \in [FileCalls -> CallRecord] /\ ver \in [Files -> Nat] /\ \A f \in Files : index[f].ver \in Nat
  BY <1>0 DEF FilesTyped
<1>2. fcalls'[c] = r /\ \A d \in FileCalls : d # c => fcalls'[d] = fcalls[d]
  BY <1>1
<1>3. /\ ver' \in [Files -> Nat]
      /\ \A f \in Files : ver'[f] >= ver[f] /\ (f \in fs => ver'[f] = ver[f] + 1) /\ (f \notin fs => ver'[f] = ver[f])
  BY <1>1
<1>4. FilesTyped'
  BY <1>0, <1>1, <1>3 DEF FilesTyped
<1>5. IndexIsBehind'
  BY <1>0, <1>1, <1>3 DEF IndexIsBehind
<1>6. ASSUME NEW d \in FileCalls
      PROVE  /\ fcalls'[d].own \/ fcalls'[d].uid # 0 => fcalls'[d].file \in Files /\ fcalls'[d].ver <= ver'[fcalls'[d].file]
             /\ fcalls'[d].st = "opening" => ~fcalls'[d].own
             /\ fcalls'[d].own => \/ index'[fcalls'[d].file].ver >= fcalls'[d].ver
                                  \/ scanning' /\ fcalls'[d].file \in unread'
             /\ fcalls'[d].st = "done" /\ fcalls'[d].own => index'[fcalls'[d].file].ver >= fcalls'[d].ver
  <2>1. CASE d = c
    BY <1>2, <2>1
  <2>2. CASE d # c
    <3>1. fcalls'[d] = fcalls[d] /\ fcalls[d] \in CallRecord
      BY <1>1, <1>2, <2>2
    <3>2. fcalls[d].ver \in Nat
      BY <3>1 DEF CallRecord
    <3>3. fcalls[d].own \/ fcalls[d].uid # 0 => fcalls[d].file \in Files /\ fcalls[d].ver <= ver'[fcalls[d].file]
      BY <1>0, <1>1, <1>3, <3>2 DEF CallsAreOfFiles
    <3> QED BY <1>0, <3>1, <3>3 DEF CallsAreOfFiles, OwnScanSees, AnsweredIsKnown
  <2> QED BY <2>1, <2>2
<1>7. ASSUME NEW d \in FileCalls, fcalls'[d].uid # 0, kind # "asset", ver'[fcalls'[d].file] = fcalls'[d].ver
      PROVE  LET f == fcalls'[d].file IN
             f \in files' /\ uid'[f] = fcalls'[d].uid /\ (index'[f].ver = ver'[f] => index'[f].uid = fcalls'[d].uid)
  <2>1. CASE d = c
    <3>1. r.file \in fs /\ r.file \in Files
      BY <1>2, <1>7, <2>1
    <3>2. index[r.file].ver # ver'[r.file]
      BY <1>0, <1>1, <1>3, <3>1 DEF IndexIsBehind
    <3> QED BY <1>2, <1>7, <2>1, <3>2
  <2>2. CASE d # c
    <3>1. fcalls'[d] = fcalls[d] /\ fcalls[d] \in CallRecord
      BY <1>1, <1>2, <2>2
    <3>2. fcalls[d].ver \in Nat
      BY <3>1 DEF CallRecord
    <3>3. fcalls[d].file \in Files /\ fcalls[d].ver <= ver[fcalls[d].file]
      BY <1>0, <1>7, <3>1 DEF CallsAreOfFiles
    <3>4. fcalls[d].file \notin fs /\ ver'[fcalls[d].file] = ver[fcalls[d].file]
      BY <1>1, <1>3, <1>7, <3>1, <3>2, <3>3
    <3> QED BY <1>0, <1>7, <3>1, <3>3, <3>4 DEF MovedIsThere
  <2> QED BY <2>1, <2>2
<1>8. CallsAreOfFiles' /\ OwnScanSees' /\ AnsweredIsKnown'
  BY <1>6 DEF CallsAreOfFiles, OwnScanSees, AnsweredIsKnown
<1>9. MovedIsThere'
  BY <1>7 DEF MovedIsThere
<1> QED BY <1>4, <1>5, <1>8, <1>9 DEF FilesInv

\* The same when the call waits for a scan.
LEMMA Rescanned ==
  ASSUME FilesInv, NEW c \in FileCalls, NEW fs \in SUBSET Files, NEW f \in Files, NEW u \in Nat, NEW open \in BOOLEAN,
         TriggerRescan(c, f, u, open), Changed(fs),
         files' \subseteq Files, uid' \in [Files -> Nat], nextUid' \in Nat,
         \A g \in Files \ fs : (g \in files' <=> g \in files) /\ uid'[g] = uid[g],
         UNCHANGED <<kind, index>>,
         u # 0 /\ kind # "asset" => f \in fs /\ f \in files' /\ uid'[f] = u
  PROVE  FilesInv'
<1> DEFINE r == [st |-> "scan", file |-> f, ver |-> ver'[f], uid |-> u, own |-> ~scanning, open |-> open, left |-> ScanDeadline]
<1>1. ver \in [Files -> Nat] /\ scanning \in BOOLEAN /\ unread \subseteq Files
  BY DEF FilesInv, FilesTyped
<1>2. ver' = [g \in Files |-> IF g \in fs THEN ver[g] + 1 ELSE ver[g]] /\ ver'[f] \in Nat
  BY <1>1 DEF Changed
<1>3. fcalls' = [fcalls EXCEPT ![c] = r] /\ scanning' = TRUE /\ unread' = IF scanning THEN unread ELSE Files
  BY DEF TriggerRescan
<1>4. /\ r \in CallRecord /\ r.st = "scan" /\ r.file = f /\ r.ver = ver'[f] /\ r.uid = u
      /\ r.own = ~scanning
  BY <1>1, <1>2, FilesAssumption DEF CallRecord
<1> HIDE DEF r
<1>5. unread' \subseteq Files /\ (scanning => scanning' /\ unread \subseteq unread') /\ (r.own => unread' = Files)
  BY <1>1, <1>3, <1>4
<1>6. r.ver <= ver'[r.file]
  BY <1>2, <1>4
<1> QED BY <1>2, <1>3, <1>4, <1>5, <1>6, Called

\* The same for a path that is written.
LEMMA Wrote ==
  ASSUME FilesInv, NEW c \in FileCalls, NEW f \in Files, NEW open \in BOOLEAN, Written(f), TriggerRescan(c, f, 0, open),
         UNCHANGED <<kind, index>>
  PROVE  FilesInv'
<1>1. files \subseteq Files /\ uid \in [Files -> Nat] /\ nextUid \in Nat
  BY DEF FilesInv, FilesTyped
<1>2. files' = files \cup {f} /\ Changed({f})
  BY DEF Written
<1>3. uid' \in [Files -> Nat] /\ nextUid' \in Nat /\ \A g \in Files \ {f} : uid'[g] = uid[g]
  BY <1>1 DEF Written
<1>4. files' \subseteq Files /\ \A g \in Files \ {f} : g \in files' <=> g \in files
  BY <1>1, <1>2
<1> QED BY <1>2, <1>3, <1>4, Rescanned

LEMMA WritesKeep ==
  ASSUME FilesInv, SceneCreate \/ ScriptCreate \/ ResourceCreate \/ AssetAdd \/ ResourceSetProperty \/ ResourceCallMethod
  PROVE  FilesInv'
<1>1. CASE SceneCreate
  BY <1>1, Wrote DEF SceneCreate
<1>2. CASE ScriptCreate \/ ResourceCreate \/ AssetAdd
  BY <1>2, Wrote DEF ScriptCreate, ResourceCreate, AssetAdd, Create
<1>3. CASE ResourceSetProperty \/ ResourceCallMethod
  <2>1. files \subseteq Files
    BY DEF FilesInv, FilesTyped
  <2> QED BY <1>3, <2>1, Wrote DEF ResourceSetProperty, ResourceCallMethod, ResourceSave
<1> QED BY <1>1, <1>2, <1>3

LEMMA ImportSet == ASSUME FilesInv, ImportSettingsSet PROVE FilesInv'
<1>1. PICK c \in FileCalls, f \in Files, reimport \in BOOLEAN :
        /\ NextCall(c) /\ kind = "asset" /\ uid[f] # 0
        /\ Changed({f})
        /\ IF reimport
           THEN TriggerRescan(c, f, 0, FALSE)
           ELSE /\ fcalls' = [fcalls EXCEPT ![c] = [Fresh EXCEPT !.st = "done", !.file = f, !.ver = ver'[f]]]
                /\ UNCHANGED <<scanning, unread>>
        /\ UNCHANGED <<kind, files, uid, index, edited, opening, nextUid, engineScans>>
  BY DEF ImportSettingsSet
<1>2. /\ files \subseteq Files /\ uid \in [Files -> Nat] /\ nextUid \in Nat /\ ver \in [Files -> Nat]
      /\ scanning \in BOOLEAN /\ unread \subseteq Files
  BY DEF FilesInv, FilesTyped
<1>3. CASE reimport
  BY <1>1, <1>2, <1>3, Rescanned
<1>4. CASE ~reimport
  <2> DEFINE r == [Fresh EXCEPT !.st = "done", !.file = f, !.ver = ver'[f]]
  <2>1. fcalls' = [fcalls EXCEPT ![c] = r] /\ UNCHANGED <<scanning, unread>>
    BY <1>1, <1>4
  <2>2. ver' = [g \in Files |-> IF g \in {f} THEN ver[g] + 1 ELSE ver[g]] /\ ver'[f] \in Nat
    BY <1>1, <1>2 DEF Changed
  <2>3. r \in CallRecord /\ ~r.own /\ r.uid = 0 /\ r.st = "done"
    <3> DEFINE r1 == [Fresh EXCEPT !.st = "done"]
               r2 == [r1 EXCEPT !.file = f]
    <3>1. r = [r2 EXCEPT !.ver = ver'[f]]
      OBVIOUS
    <3> HIDE DEF r
    <3>2. r1 \in CallRecord /\ ~r1.own /\ r1.uid = 0 /\ r1.st = "done"
      BY FreshIs DEF CallRecord
    <3> HIDE DEF r1
    <3>3. r2 \in CallRecord /\ ~r2.own /\ r2.uid = 0 /\ r2.st = "done"
      BY <3>2 DEF CallRecord
    <3> HIDE DEF r2
    <3> QED BY <2>2, <3>1, <3>3 DEF CallRecord
  <2> HIDE DEF r
  <2>4. /\ {f} \in SUBSET Files /\ files' \subseteq Files /\ uid' \in [Files -> Nat] /\ nextUid' \in Nat
        /\ \A g \in Files \ {f} : (g \in files' <=> g \in files) /\ uid'[g] = uid[g]
        /\ UNCHANGED <<kind, index>>
    BY <1>1, <1>2
  <2>5. unread' \subseteq Files /\ scanning' \in BOOLEAN /\ (scanning => scanning' /\ unread \subseteq unread')
    BY <1>2, <2>1
  <2> QED BY <2>1, <2>2, <2>3, <2>4, <2>5, Called
<1> QED BY <1>3, <1>4

LEMMA Reimported == ASSUME FilesInv, Reimport PROVE FilesInv'
<1>1. PICK c \in FileCalls, f \in Files :
        /\ UNCHANGED <<kind, files, uid, ver, index, nextUid>>
        /\ TriggerRescan(c, f, 0, FALSE)
  BY DEF Reimport
<1>2. files \subseteq Files /\ uid \in [Files -> Nat] /\ nextUid \in Nat /\ ver \in [Files -> Nat]
  BY DEF FilesInv, FilesTyped
<1>3. Changed({})
  BY <1>1, <1>2 DEF Changed
<1> QED BY <1>1, <1>2, <1>3, Rescanned

LEMMA Moved == ASSUME FilesInv, FileMove PROVE FilesInv'
<1>1. PICK c \in FileCalls, f \in files, g \in Files \ files, failed \in BOOLEAN :
        /\ files' = (files \ {f}) \cup {g}
        /\ Changed({f, g})
        /\ IF failed THEN kind = "script" /\ UNCHANGED uid ELSE Carry(f, g)
        /\ TriggerRescan(c, g, IF failed THEN 0 ELSE uid[f], FALSE)
        /\ UNCHANGED <<kind, index, nextUid>>
  BY DEF FileMove
<1>2. files \subseteq Files /\ uid \in [Files -> Nat] /\ nextUid \in Nat /\ f \in Files /\ g \in Files /\ f # g
  BY DEF FilesInv, FilesTyped
<1> DEFINE u == IF failed THEN 0 ELSE uid[f]
<1>3. uid' \in [Files -> Nat] /\ \A h \in Files \ {f, g} : uid'[h] = uid[h]
  BY <1>1, <1>2 DEF Carry
<1>4. u \in Nat /\ (u # 0 /\ kind # "asset" => uid'[g] = u)
  BY <1>1, <1>2 DEF Carry
<1>5. files' \subseteq Files /\ g \in files' /\ \A h \in Files \ {f, g} : h \in files' <=> h \in files
  BY <1>1, <1>2
<1>6. TriggerRescan(c, g, u, FALSE)
  BY <1>1
<1> HIDE DEF u
<1>7. {f, g} \in SUBSET Files /\ g \in {f, g}
  BY <1>2
<1> QED BY <1>1, <1>2, <1>3, <1>4, <1>5, <1>6, <1>7, Rescanned

LEMMA Deleted == ASSUME FilesInv, FileDelete PROVE FilesInv'
<1>1. PICK c \in FileCalls, f \in files :
        /\ files' = files \ {f} /\ uid' = [uid EXCEPT ![f] = 0] /\ Changed({f})
        /\ TriggerRescan(c, f, 0, FALSE)
        /\ UNCHANGED <<kind, index, nextUid>>
  BY DEF FileDelete
<1>2. files \subseteq Files /\ uid \in [Files -> Nat] /\ nextUid \in Nat /\ f \in Files
  BY DEF FilesInv, FilesTyped
<1>3. /\ uid' \in [Files -> Nat] /\ files' \subseteq Files
      /\ \A h \in Files \ {f} : (h \in files' <=> h \in files) /\ uid'[h] = uid[h]
  BY <1>1, <1>2
<1> QED BY <1>1, <1>2, <1>3, Rescanned

LEMMA OpenAsked == ASSUME FilesInv, SceneOpen PROVE FilesInv'
<1>1. PICK c \in FileCalls, f \in Files :
        /\ fcalls' = [fcalls EXCEPT ![c] = [Fresh EXCEPT !.st = "opening", !.file = f, !.left = ScanDeadline]]
        /\ UNCHANGED <<kind, files, uid, ver, index, unread, scanning, nextUid>>
  BY DEF SceneOpen
<1>2. /\ files \subseteq Files /\ uid \in [Files -> Nat] /\ nextUid \in Nat /\ ver \in [Files -> Nat]
      /\ scanning \in BOOLEAN /\ unread \subseteq Files
  BY DEF FilesInv, FilesTyped
<1> DEFINE r == [Fresh EXCEPT !.st = "opening", !.file = f, !.left = ScanDeadline]
<1>3. r \in CallRecord /\ ~r.own /\ r.uid = 0
  <2> DEFINE r1 == [Fresh EXCEPT !.st = "opening"]
             r2 == [r1 EXCEPT !.file = f]
  <2>1. r = [r2 EXCEPT !.left = ScanDeadline]
    OBVIOUS
  <2> HIDE DEF r
  <2>2. r1 \in CallRecord /\ ~r1.own /\ r1.uid = 0
    BY FreshIs DEF CallRecord
  <2> HIDE DEF r1
  <2>3. r2 \in CallRecord /\ ~r2.own /\ r2.uid = 0
    BY <2>2 DEF CallRecord
  <2> HIDE DEF r2
  <2> QED BY <2>1, <2>3, FilesAssumption DEF CallRecord
<1>4. fcalls' = [fcalls EXCEPT ![c] = r]
  BY <1>1
<1> HIDE DEF r
<1>5. ver' = [g \in Files |-> IF g \in {} THEN ver[g] + 1 ELSE ver[g]]
  BY <1>1, <1>2
<1>6. /\ {} \in SUBSET Files /\ files' \subseteq Files /\ uid' \in [Files -> Nat] /\ nextUid' \in Nat
      /\ \A g \in Files \ {} : (g \in files' <=> g \in files) /\ uid'[g] = uid[g]
      /\ UNCHANGED <<kind, index>>
  BY <1>1, <1>2
<1>7. unread' \subseteq Files /\ scanning' \in BOOLEAN /\ (scanning => scanning' /\ unread \subseteq unread')
  BY <1>1, <1>2
<1> QED BY <1>3, <1>4, <1>5, <1>6, <1>7, Called

\* What a poll may change of a call.
LEMMA PolledIs ==
  ASSUME NEW call \in CallRecord
  PROVE  /\ Polled(call) \in CallRecord
         /\ Polled(call).file = call.file /\ Polled(call).ver = call.ver /\ Polled(call).uid = call.uid
         /\ Polled(call).own = call.own
         /\ Polled(call).st = "opening" => call.st = "opening"
         /\ Polled(call).st = "done" => call.st = "done" \/ call.st = "opening" \/ ~scanning
<1>1. /\ Late(call) \in CallRecord
      /\ Late(call).file = call.file /\ Late(call).ver = call.ver /\ Late(call).uid = call.uid /\ Late(call).own = call.own
      /\ Late(call).st = call.st \/ Late(call).st = "error"
  <2>1. CASE call.left > 1
    BY <2>1 DEF Late, CallRecord
  <2>2. CASE ~(call.left > 1)
    BY <2>2 DEF Late, CallRecord
  <2> QED BY <2>1, <2>2
<1> DEFINE over == [call EXCEPT !.st = "done"]
<1>2. /\ over \in CallRecord
      /\ over.file = call.file /\ over.ver = call.ver /\ over.uid = call.uid /\ over.own = call.own /\ over.st = "done"
  BY DEF CallRecord
<1> HIDE DEF over
<1>3. CASE call.st = "scan"
  BY <1>1, <1>2, <1>3 DEF Polled, over
<1>4. CASE call.st = "opening"
  BY <1>1, <1>2, <1>4 DEF Polled, over
<1>5. CASE call.st \notin {"scan", "opening"}
  BY <1>5 DEF Polled
<1> QED BY <1>3, <1>4, <1>5

LEMMA FrameKeeps == ASSUME FilesInv, Frame PROVE FilesInv'
<1>1. fcalls' = [c \in FileCalls |-> Polled(fcalls[c])] /\ UNCHANGED <<kind, files, uid, ver, index, unread, scanning, nextUid>>
  BY DEF Frame
<1>2. ASSUME NEW c \in FileCalls
      PROVE  /\ fcalls[c] \in CallRecord /\ fcalls'[c] \in CallRecord
             /\ fcalls'[c].file = fcalls[c].file /\ fcalls'[c].ver = fcalls[c].ver /\ fcalls'[c].uid = fcalls[c].uid
             /\ fcalls'[c].own = fcalls[c].own
             /\ fcalls'[c].st = "opening" => fcalls[c].st = "opening"
             /\ fcalls'[c].st = "done" => fcalls[c].st = "done" \/ fcalls[c].st = "opening" \/ ~scanning
  <2>1. fcalls[c] \in CallRecord
    BY DEF FilesInv, FilesTyped
  <2>2. fcalls'[c] = Polled(fcalls[c])
    BY <1>1
  <2> QED BY <2>1, <2>2, PolledIs
<1>3. FilesTyped'
  BY <1>1, <1>2 DEF FilesInv, FilesTyped
<1>4. IndexIsBehind' /\ CallsAreOfFiles' /\ OwnScanSees'
  BY <1>1, <1>2 DEF FilesInv, IndexIsBehind, CallsAreOfFiles, OwnScanSees
<1>5. AnsweredIsKnown'
  BY <1>1, <1>2 DEF FilesInv, AnsweredIsKnown, CallsAreOfFiles, OwnScanSees
<1>6. MovedIsThere'
  BY <1>1, <1>2 DEF FilesInv, MovedIsThere
<1> QED BY <1>3, <1>4, <1>5, <1>6 DEF FilesInv

LEMMA ReadKeeps == ASSUME FilesInv, ScanReads PROVE FilesInv'
<1>1. PICK f \in unread :
        /\ unread' = unread \ {f}
        /\ IF f \in files /\ uid[f] = 0
           THEN uid' = [uid EXCEPT ![f] = nextUid] /\ nextUid' = nextUid + 1
           ELSE UNCHANGED <<uid, nextUid>>
        /\ index' = [index EXCEPT ![f] = [ver |-> ver[f], uid |-> IF f \in files THEN uid'[f] ELSE 0]]
        /\ UNCHANGED <<kind, files, ver, scanning, fcalls>>
  BY DEF ScanReads
<1>2. /\ files \subseteq Files /\ uid \in [Files -> Nat] /\ nextUid \in Nat /\ f \in Files /\ unread \subseteq Files
      /\ ver \in [Files -> Nat] /\ index \in [Files -> [ver : Nat, uid : Nat]] /\ fcalls \in [FileCalls -> CallRecord]
      /\ scanning \in BOOLEAN
  BY DEF FilesInv, FilesTyped
<1>3. uid' \in [Files -> Nat] /\ nextUid' \in Nat /\ \A g \in Files : uid[g] # 0 => uid'[g] = uid[g]
  BY <1>1, <1>2
<1> DEFINE seen == [ver |-> ver[f], uid |-> IF f \in files THEN uid'[f] ELSE 0]
<1>4. /\ seen \in [ver : Nat, uid : Nat] /\ seen.ver = ver[f] /\ (f \in files => seen.uid = uid'[f])
      /\ index' = [index EXCEPT ![f] = seen]
  BY <1>1, <1>2, <1>3
<1> HIDE DEF seen
<1>5. /\ index' \in [Files -> [ver : Nat, uid : Nat]] /\ index'[f] = seen
      /\ \A g \in Files : g # f => index'[g] = index[g]
  BY <1>2, <1>4
<1>6. /\ \A g \in Files : index[g].ver \in Nat /\ index'[g].ver \in Nat /\ ver[g] \in Nat /\ index[g].ver <= ver[g]
      /\ \A g \in Files : index'[g].ver >= index[g].ver /\ index'[g].ver <= ver[g]
  <2>1. \A g \in Files : index[g].ver \in Nat /\ index'[g].ver \in Nat /\ ver[g] \in Nat /\ index[g].ver <= ver[g]
    BY <1>2, <1>5 DEF FilesInv, IndexIsBehind
  <2> QED BY <1>4, <1>5, <2>1
<1>7. FilesTyped' /\ IndexIsBehind'
  <2>1. IndexIsBehind'
    BY <1>1, <1>6 DEF IndexIsBehind
  <2> QED BY <1>1, <1>2, <1>3, <1>5, <2>1 DEF FilesTyped
<1>8. CallsAreOfFiles'
  BY <1>1 DEF FilesInv, CallsAreOfFiles
<1>9. ASSUME NEW c \in FileCalls, fcalls[c].own
      PROVE  /\ \/ index'[fcalls[c].file].ver >= fcalls[c].ver
                \/ scanning' /\ fcalls[c].file \in unread'
             /\ fcalls[c].st = "done" => index'[fcalls[c].file].ver >= fcalls[c].ver
  <2>1. fcalls[c].file \in Files /\ fcalls[c].ver <= ver[fcalls[c].file] /\ fcalls[c].ver \in Nat
    BY <1>2, <1>9 DEF FilesInv, CallsAreOfFiles, CallRecord
  <2>2. CASE fcalls[c].file = f
    BY <1>4, <1>5, <2>1, <2>2
  <2>3. CASE fcalls[c].file # f
    <3>1. index'[fcalls[c].file] = index[fcalls[c].file]
      BY <1>5, <2>1, <2>3
    <3> QED BY <1>1, <1>9, <2>3, <3>1 DEF FilesInv, OwnScanSees, AnsweredIsKnown
  <2> QED BY <2>2, <2>3
<1>10. OwnScanSees' /\ AnsweredIsKnown'
  BY <1>1, <1>9 DEF OwnScanSees, AnsweredIsKnown
<1>11. ASSUME NEW c \in FileCalls, fcalls[c].uid # 0, kind # "asset", ver[fcalls[c].file] = fcalls[c].ver
       PROVE  LET g == fcalls[c].file IN
              g \in files /\ uid'[g] = fcalls[c].uid /\ (index'[g].ver = ver[g] => index'[g].uid = fcalls[c].uid)
  <2> DEFINE g == fcalls[c].file
  <2>1. g \in files /\ uid[g] = fcalls[c].uid /\ (index[g].ver = ver[g] => index[g].uid = fcalls[c].uid)
    BY <1>11 DEF FilesInv, MovedIsThere
  <2>2. g \in Files /\ uid'[g] = uid[g]
    BY <1>2, <1>3, <1>11, <2>1
  <2> QED BY <1>4, <1>5, <2>1, <2>2
<1>12. MovedIsThere'
  BY <1>1, <1>11 DEF MovedIsThere
<1> QED BY <1>7, <1>8, <1>10, <1>12 DEF FilesInv

LEMMA EndKeeps == ASSUME FilesInv, ScanEnds PROVE FilesInv'
<1>1. /\ unread = {} /\ scanning' = FALSE
      /\ UNCHANGED <<kind, files, uid, ver, index, unread, nextUid, fcalls>>
  BY DEF ScanEnds
<1> QED BY <1>1 DEF FilesInv, FilesTyped, IndexIsBehind, CallsAreOfFiles, OwnScanSees, MovedIsThere, AnsweredIsKnown

LEMMA BeginKeeps == ASSUME FilesInv, EditorScans PROVE FilesInv'
<1>1. /\ ~scanning /\ scanning' = TRUE /\ unread' = Files
      /\ UNCHANGED <<kind, files, uid, ver, index, nextUid, fcalls>>
  BY DEF EditorScans
<1> QED BY <1>1 DEF FilesInv, FilesTyped, IndexIsBehind, CallsAreOfFiles, OwnScanSees, MovedIsThere, AnsweredIsKnown

LEMMA SameFiles == ASSUME FilesInv, SceneOpens \/ UNCHANGED fileVars PROVE FilesInv'
<1>1. UNCHANGED <<kind, files, uid, ver, index, unread, scanning, nextUid, fcalls>>
  BY DEF SceneOpens, fileVars
<1> QED BY <1>1 DEF FilesInv, FilesTyped, IndexIsBehind, CallsAreOfFiles, OwnScanSees, MovedIsThere, AnsweredIsKnown

LEMMA FilesStep == ASSUME FilesInv, [FilesNext]_fileVars PROVE FilesInv'
  BY WritesKeep, ImportSet, Reimported, Moved, Deleted, OpenAsked, FrameKeeps, ReadKeeps, EndKeeps, BeginKeeps, SameFiles
     DEF FilesNext

LEMMA FilesAreKnown == ASSUME FilesInv PROVE MovedIsKnown
  BY DEF FilesInv, MovedIsThere, MovedIsKnown, MoveKeepsUid

----------------------------------------------------------------------------
(* Checks in a child process. *)

Lines == {"noise", "error", "begin", "end", "missing", "other"}
CheckStates == {"new", "running", "exited", "settled"}
CheckRecord == [st : CheckStates, tool : Tools, broken : BOOLEAN, out : Seq(Lines), ok : BOOLEAN,
                verdict : {"none", "valid", "invalid", "failed"}, cut : BOOLEAN, unread : BOOLEAN]
ScratchFiles == {"log", "driver", "runtime"}

ChecksTyped ==
  /\ checks \in [CheckIds -> CheckRecord]
  /\ scratch \subseteq CheckIds \X ScratchFiles
  /\ artifact \in BOOLEAN

\* What a child printed of broken code: after BEGIN, unless it died there, or for a
\* script anywhere, there is a diagnostic; and an export of it fails.
SaysItIsBroken(check) ==
  /\ check.tool = "script" => ~check.ok \/ (~HonestExit /\ \E i \in 1..Len(check.out) : check.out[i] = "error")
  /\ check.tool = "shader" /\ ~check.cut =>
       \A i \in 1..Len(check.out) : check.out[i] = "begin" => i < Len(check.out) /\ check.out[i + 1] = "error"
  /\ check.tool = "export" => ~check.ok

\* Not broken, or one of the two that pass.
Excused(check) ==
  \/ ~check.broken
  \/ check.tool = "script" /\ ~HonestExit /\ check.unread
  \/ check.tool = "shader" /\ check.cut

BrokenIsSaid == \A c \in CheckIds : checks[c].st = "exited" /\ checks[c].broken => SaysItIsBroken(checks[c])
OnlySettledIsJudged == \A c \in CheckIds : checks[c].st # "settled" => checks[c].verdict = "none"

ChecksInv == ChecksTyped /\ BrokenIsSaid /\ OnlySettledIsJudged /\ ChecksAreSound

LEMMA PreparedFiles == ASSUME NEW tool \in Tools PROVE ToSet(Prepared[tool]) \ {"handle"} \subseteq ScratchFiles
<1>1. ToSet(<<"log", "handle">>) = {"log", "handle"}
  BY DEF ToSet
<1>2. ToSet(<<"driver", "log", "handle">>) = {"driver", "log", "handle"}
  BY DEF ToSet
<1>3. ToSet(<<"log", "handle", "runtime">>) = {"log", "handle", "runtime"}
  BY DEF ToSet
<1>4. /\ Prepared["script"] = <<"log", "handle">> /\ Prepared["shader"] = <<"driver", "log", "handle">>
      /\ Prepared["export"] = <<"log", "handle", "runtime">>
  BY DEF Prepared
<1> QED BY <1>1, <1>2, <1>3, <1>4 DEF Tools, ScratchFiles

LEMMA NoiseIs ==
  ASSUME NEW a \in Noise
  PROVE  a \in Seq(Lines) /\ \A i \in 1..Len(a) : a[i] = "noise"
<1>1. PICK n \in 0..MaxNoise : a = [i \in 1..n |-> "noise"]
  BY DEF Noise
<1>2. n \in Nat
  BY ChecksAssumption
<1> QED BY <1>1, <1>2 DEF Lines

LEMMA BodyIs ==
  ASSUME NEW tool \in Tools, NEW broken \in BOOLEAN, NEW b \in Bodies(tool, broken)
  PROVE  /\ b \in Seq(Lines)
         /\ broken /\ tool = "script" => Len(b) = 1 /\ b[1] = "error"
         /\ broken /\ tool = "shader" => \A i \in 1..Len(b) : b[i] = "begin" => i < Len(b) /\ b[i + 1] = "error"
<1> DEFINE diagnosed == IF broken THEN <<"error">> ELSE <<>>
           said == <<"begin">> \o diagnosed
           both == said \o <<"end">>
<1>1. diagnosed \in Seq(Lines) /\ (broken => Len(diagnosed) = 1 /\ diagnosed[1] = "error")
  <2>1. <<"error">> \in Seq(Lines) /\ Len(<<"error">>) = 1 /\ <<"error">>[1] = "error"
    BY DEF Lines
  <2>2. <<>> \in Seq(Lines)
    OBVIOUS
  <2> QED BY <2>1, <2>2
<1>2. <<"begin">> \in Seq(Lines) /\ Len(<<"begin">>) = 1 /\ <<"begin">>[1] = "begin"
  BY DEF Lines
<1> HIDE DEF diagnosed
<1>21. <<"end">> \in Seq(Lines) /\ Len(<<"end">>) = 1 /\ <<"end">>[1] = "end"
  BY DEF Lines
<1>22. /\ said \in Seq(Lines) /\ Len(said) = 1 + Len(diagnosed)
       /\ \A i \in 1..(1 + Len(diagnosed)) : said[i] = IF i <= 1 THEN <<"begin">>[i] ELSE diagnosed[i - 1]
  BY <1>1, <1>2, ConcatProperties
<1> HIDE DEF said
<1>3. /\ both \in Seq(Lines) /\ Len(both) = Len(said) + 1
      /\ \A i \in 1..(Len(said) + 1) : both[i] = IF i <= Len(said) THEN said[i] ELSE <<"end">>[i - Len(said)]
  BY <1>21, <1>22, ConcatProperties
<1> HIDE DEF both
<1>4. CASE tool # "shader"
  <2>1. b = diagnosed
    BY <1>4 DEF Bodies, diagnosed
  <2> QED BY <1>1, <1>4, <2>1
<1>5. CASE tool = "shader"
  <2>1. b = <<"missing">> \/ b = <<"other">> \/ b = <<>> \/ b = both
    BY <1>5 DEF Bodies, both, said, diagnosed
  <2>2. CASE b = <<"missing">>
    BY <1>5, <2>2 DEF Lines
  <2>3. CASE b = <<"other">>
    BY <1>5, <2>3 DEF Lines
  <2>4. CASE b = <<>>
    BY <1>5, <2>4 DEF Lines
  <2>5. CASE b = both
    <3>1. ASSUME broken, NEW i \in 1..Len(b), b[i] = "begin" PROVE i < Len(b) /\ b[i + 1] = "error"
      <4>1. Len(diagnosed) = 1 /\ diagnosed[1] = "error"
        BY <1>1, <3>1
      <4>2. Len(both) = 3 /\ both[1] = "begin" /\ both[2] = "error" /\ both[3] = "end"
        <5>1. 1 \in 1..(1 + Len(diagnosed)) /\ 2 \in 1..(1 + Len(diagnosed)) /\ ~(2 <= 1) /\ 2 - 1 = 1
          BY <4>1
        <5>2. Len(said) = 2 /\ said[1] = "begin" /\ said[2] = "error"
          BY <1>2, <1>22, <4>1, <5>1
        <5> QED BY <1>3, <1>21, <5>2
      <4>3. i = 1 \/ i = 2 \/ i = 3
        BY <2>5, <3>1, <4>2
      <4>4. i = 1
        BY <2>5, <3>1, <4>2, <4>3
      <4> QED BY <2>5, <4>2, <4>4
    <3> QED BY <1>3, <1>5, <2>5, <3>1
  <2> QED BY <2>1, <2>2, <2>3, <2>4, <2>5
<1> QED BY <1>4, <1>5

LEMMA JoinsAre ==
  ASSUME NEW A, NEW B, NEW x \in {a \o b : a \in A, b \in B}
  PROVE  \E a \in A, b \in B : x = a \o b
  OBVIOUS

LEMMA OutputIs ==
  ASSUME NEW tool \in Tools, NEW broken \in BOOLEAN, NEW out \in Outputs(tool, broken)
  PROVE  /\ out \in Seq(Lines)
         /\ broken /\ tool = "script" => \E i \in 1..Len(out) : out[i] = "error"
         /\ broken /\ tool = "shader" => \A i \in 1..Len(out) : out[i] = "begin" => i < Len(out) /\ out[i + 1] = "error"
<1>0. PICK ab \in Begun(tool, broken), e \in Noise : out = ab \o e
  <2>1. Outputs(tool, broken) = {a \o b : a \in Begun(tool, broken), b \in Noise}
    BY DEF Outputs
  <2>2. QED
    BY <2>1, JoinsAre
<1> DEFINE A == Noise \cup {<<"error">>}
           B == Bodies(tool, broken)
<1>01. Begun(tool, broken) = {a \o b : a \in A, b \in B}
  BY DEF Begun
<1> HIDE DEF A, B
<1>02. \E a \in A, b \in B : ab = a \o b
  BY <1>01, JoinsAre
<1>1. PICK a \in Noise \cup {<<"error">>}, b \in Bodies(tool, broken) : ab = a \o b
  BY <1>02 DEF A, B
<1>2. a \in Seq(Lines) /\ \A i \in 1..Len(a) : a[i] # "begin"
  <2>1. CASE a \in Noise
    BY <2>1, NoiseIs
  <2>2. CASE a = <<"error">>
    BY <2>2 DEF Lines
  <2> QED BY <1>1, <2>1, <2>2
<1>3. b \in Seq(Lines)
  BY BodyIs
<1>4. e \in Seq(Lines) /\ \A i \in 1..Len(e) : e[i] # "begin"
  BY NoiseIs
<1>5. PICK la \in Nat, lb \in Nat, le \in Nat : la = Len(a) /\ lb = Len(b) /\ le = Len(e)
  BY <1>2, <1>3, <1>4
<1>6. /\ ab \in Seq(Lines) /\ Len(ab) = la + lb
      /\ \A i \in 1..(la + lb) : ab[i] = IF i <= la THEN a[i] ELSE b[i - la]
  BY <1>1, <1>2, <1>3, <1>5, ConcatProperties
<1>7. /\ out \in Seq(Lines) /\ Len(out) = la + lb + le
      /\ \A i \in 1..(la + lb + le) : out[i] = IF i <= la + lb THEN ab[i] ELSE e[i - (la + lb)]
  <2>1. PICK lab \in Nat : lab = Len(ab) /\ lab = la + lb
    BY <1>6
  <2>2. /\ ab \o e \in Seq(Lines) /\ Len(ab \o e) = Len(ab) + Len(e)
        /\ \A i \in 1..(Len(ab) + Len(e)) : (ab \o e)[i] = IF i <= Len(ab) THEN ab[i] ELSE e[i - Len(ab)]
    BY <1>4, <1>6, ConcatProperties
  <2>3. /\ out \in Seq(Lines) /\ Len(out) = Len(ab) + Len(e)
        /\ \A i \in 1..(Len(ab) + Len(e)) : out[i] = IF i <= Len(ab) THEN ab[i] ELSE e[i - Len(ab)]
    BY <1>0, <2>2
  <2> QED BY <1>5, <1>6, <2>3
<1>8. ASSUME NEW i \in 1..(la + lb + le)
      PROVE  /\ i <= la => i \in 1..la /\ out[i] = a[i]
             /\ i > la /\ i <= la + lb => i - la \in 1..lb /\ out[i] = b[i - la]
             /\ i > la + lb => i - (la + lb) \in 1..le /\ out[i] = e[i - (la + lb)]
  <2>1. CASE i <= la
    <3>1. i \in 1..(la + lb) /\ i \in 1..la /\ i <= la + lb
      BY <2>1
    <3> QED BY <1>6, <1>7, <2>1, <3>1
  <2>2. CASE i > la /\ i <= la + lb
    <3>1. i \in 1..(la + lb) /\ i - la \in 1..lb /\ ~(i <= la)
      BY <2>2
    <3> QED BY <1>6, <1>7, <2>2, <3>1
  <2>3. CASE i > la + lb
    <3>1. i - (la + lb) \in 1..le /\ ~(i <= la + lb) /\ ~(i <= la)
      BY <2>3
    <3> QED BY <1>7, <2>3, <3>1
  <2> QED BY <2>1, <2>2, <2>3
<1>9. ASSUME broken, tool = "script" PROVE \E i \in 1..Len(out) : out[i] = "error"
  <2>1. lb = 1 /\ b[1] = "error"
    BY <1>5, <1>9, BodyIs
  <2>2. la + 1 \in 1..(la + lb + le) /\ la + 1 > la /\ la + 1 <= la + lb /\ la + 1 - la = 1
    BY <2>1
  <2>3. out[la + 1] = b[1]
    BY <1>8, <2>2
  <2> QED BY <1>7, <2>1, <2>2, <2>3
<1>10. ASSUME broken, tool = "shader", NEW i \in 1..Len(out), out[i] = "begin"
       PROVE  i < Len(out) /\ out[i + 1] = "error"
  <2>0. i \in 1..(la + lb + le)
    BY <1>7
  <2>1. i > la /\ i <= la + lb /\ i - la \in 1..lb /\ b[i - la] = "begin"
    BY <1>2, <1>4, <1>5, <1>8, <1>10, <2>0
  <2>2. i - la < lb /\ b[(i - la) + 1] = "error"
    BY <1>5, <1>10, <2>1, BodyIs
  <2>3. i + 1 \in 1..(la + lb + le) /\ i + 1 > la /\ i + 1 <= la + lb /\ (i + 1) - la = (i - la) + 1
    BY <2>0, <2>1, <2>2
  <2>4. out[i + 1] = b[(i + 1) - la]
    BY <1>8, <2>3
  <2> QED BY <1>7, <2>2, <2>3, <2>4
<1> QED BY <1>7, <1>9, <1>10

\* The tail that is read is all of the output, or its last lines.
LEMMA KeptIs ==
  ASSUME NEW out \in Seq(Lines)
  PROVE  /\ Kept(out) \in Seq(Lines)
         /\ ~(Len(out) > TailLines) => Kept(out) = out
         /\ \E m, n \in Nat : /\ m = Len(Kept(out)) /\ Len(out) = n + m
                              /\ \A i \in 1..m : Kept(out)[i] = out[n + i]
<1>1. PICK l \in Nat, t \in Nat : l = Len(out) /\ t = TailLines
  BY ChecksAssumption
<1>2. CASE l > t
  <2> DEFINE tail == SubSeq(out, l - t + 1, l)
  <2>1. Kept(out) = tail
    BY <1>1, <1>2 DEF Kept
  <2>2. TailLines \in Nat /\ Len(out) \in Nat /\ Len(out) > TailLines
    BY <1>1, <1>2
  <2>3. /\ SubSeq(out, Len(out) - TailLines + 1, Len(out)) \in Seq(Lines)
        /\ Len(SubSeq(out, Len(out) - TailLines + 1, Len(out))) = TailLines
        /\ \A i \in 1..TailLines : SubSeq(out, Len(out) - TailLines + 1, Len(out))[i] = out[Len(out) - TailLines + i]
    BY <2>2
  <2>4. tail \in Seq(Lines) /\ Len(tail) = t /\ \A i \in 1..t : tail[i] = out[l - t + i]
    BY <1>1, <2>3
  <2> HIDE DEF tail
  <2>5. PICK n \in Nat : n = l - t
    BY <1>2
  <2>6. t = Len(tail) /\ Len(out) = n + t /\ \A i \in 1..t : tail[i] = out[n + i]
    BY <1>1, <2>4, <2>5
  <2> QED BY <1>1, <1>2, <2>1, <2>4, <2>6
<1>3. CASE ~(l > t)
  <2>1. Kept(out) = out
    BY <1>1, <1>3 DEF Kept
  <2>2. l = Len(out) /\ Len(out) = 0 + l /\ \A i \in 1..l : out[i] = out[0 + i]
    BY <1>1
  <2> QED BY <1>1, <2>1, <2>2
<1> QED BY <1>2, <1>3

LEMMA ChecksStart == ChecksInit => ChecksInv
<1> SUFFICES ASSUME ChecksInit PROVE ChecksInv
  OBVIOUS
<1>1. NoCheck \in CheckRecord
  BY DEF NoCheck, CheckRecord, CheckStates, Tools
<1>2. \A c \in CheckIds : checks[c] = NoCheck
  BY DEF ChecksInit
<1>3. \A c \in CheckIds : checks[c].st = "new" /\ checks[c].verdict = "none"
  BY <1>2 DEF NoCheck
<1>4. ChecksTyped
  BY <1>1 DEF ChecksInit, ChecksTyped
<1> QED BY <1>3, <1>4 DEF ChecksInit, ChecksInv, BrokenIsSaid, OnlySettledIsJudged, ChecksAreSound, VerdictIsSound, NoScratchLeft

\* A step that changes one call, to r.
LEMMA OneCheck ==
  ASSUME ChecksInv, NEW c \in CheckIds, NEW r \in CheckRecord, checks' = [checks EXCEPT ![c] = r],
         r.st = "exited" /\ r.broken => SaysItIsBroken(r),
         r.st # "settled" => r.verdict = "none",
         r.verdict = "valid" => Excused(r),
         scratch' \subseteq CheckIds \X ScratchFiles, artifact' \in BOOLEAN,
         \A x \in scratch' : x \in scratch \/ x[1] = c,
         r.st \in {"running", "exited"} \/ \A x \in scratch' : x[1] # c
  PROVE  ChecksInv'
<1>1. checks \in [CheckIds -> CheckRecord]
  BY DEF ChecksInv, ChecksTyped
<1>2. checks'[c] = r /\ \A d \in CheckIds : d # c => checks'[d] = checks[d]
  BY <1>1
<1>3. ChecksTyped'
  BY <1>1 DEF ChecksTyped
<1>4. BrokenIsSaid'
  BY <1>2 DEF ChecksInv, BrokenIsSaid, SaysItIsBroken
<1>5. OnlySettledIsJudged'
  BY <1>2 DEF ChecksInv, OnlySettledIsJudged
<1>6. VerdictIsSound'
  BY <1>2 DEF ChecksInv, ChecksAreSound, VerdictIsSound, Excused
<1>7. NoScratchLeft'
  <2> SUFFICES ASSUME NEW x \in scratch' PROVE checks'[x[1]].st \in {"running", "exited"}
    BY DEF NoScratchLeft
  <2>1. x[1] \in CheckIds
    OBVIOUS
  <2>2. CASE x[1] = c
    BY <1>2, <2>2
  <2>3. CASE x[1] # c
    BY <1>2, <2>1, <2>3 DEF ChecksInv, ChecksAreSound, NoScratchLeft
  <2> QED BY <2>2, <2>3
<1> QED BY <1>3, <1>4, <1>5, <1>6, <1>7 DEF ChecksInv, ChecksAreSound

LEMMA Prepare ==
  ASSUME ChecksInv, NEW c \in CheckIds, NEW tool \in Tools, NextCheck(c), PrepareFails(c, tool) \/ Spawn(c, tool)
  PROVE  ChecksInv'
<1>0. scratch \subseteq CheckIds \X ScratchFiles /\ artifact \in BOOLEAN /\ \A x \in scratch : x[1] # c
  BY DEF ChecksInv, ChecksTyped, ChecksAreSound, NoScratchLeft, NextCheck
<1>n. /\ NoCheck = [st |-> "new", tool |-> "script", broken |-> FALSE, out |-> <<>>, ok |-> TRUE,
                     verdict |-> "none", cut |-> FALSE, unread |-> FALSE]
      /\ NoCheck \in CheckRecord
  <2>1. <<>> \in Seq(Lines)
    OBVIOUS
  <2> QED BY <2>1 DEF NoCheck, CheckRecord, CheckStates, Tools
<1>1. CASE PrepareFails(c, tool)
  <2> DEFINE r == [NoCheck EXCEPT !.st = "settled", !.tool = tool, !.verdict = "failed"]
  <2>1. checks' = [checks EXCEPT ![c] = r] /\ scratch' = scratch /\ artifact' = artifact
    BY <1>1 DEF PrepareFails, LeftByFailure
  <2>3. r \in CheckRecord /\ r.st = "settled" /\ r.verdict = "failed"
    <3> DEFINE r1 == [NoCheck EXCEPT !.st = "settled"]
               r2 == [r1 EXCEPT !.tool = tool]
    <3>1. r1 \in CheckRecord /\ r1.st = "settled"
      BY <1>n DEF CheckRecord, CheckStates
    <3>2. r = [r2 EXCEPT !.verdict = "failed"]
      OBVIOUS
    <3> HIDE DEF r1, r
    <3>3. r2 \in CheckRecord /\ r2.st = "settled"
      BY <3>1 DEF CheckRecord
    <3> HIDE DEF r2
    <3> QED BY <3>2, <3>3 DEF CheckRecord
  <2> HIDE DEF r
  <2> QED BY <1>0, <2>1, <2>3, OneCheck
<1>2. CASE Spawn(c, tool)
  <2>1. PICK broken \in BOOLEAN :
          /\ checks' = [checks EXCEPT ![c] = [NoCheck EXCEPT !.st = "running", !.tool = tool, !.broken = broken]]
          /\ scratch' = scratch \cup Scratch(c, ToSet(Prepared[tool])) /\ artifact' = artifact
    BY <1>2 DEF Spawn
  <2> DEFINE r == [NoCheck EXCEPT !.st = "running", !.tool = tool, !.broken = broken]
  <2>3. r \in CheckRecord /\ r.st = "running" /\ r.verdict = "none"
    <3> DEFINE r1 == [NoCheck EXCEPT !.st = "running"]
               r2 == [r1 EXCEPT !.tool = tool]
    <3>1. r1 \in CheckRecord /\ r1.st = "running" /\ r1.verdict = "none"
      BY <1>n DEF CheckRecord, CheckStates
    <3>2. r = [r2 EXCEPT !.broken = broken]
      OBVIOUS
    <3> HIDE DEF r1, r
    <3>3. r2 \in CheckRecord /\ r2.st = "running" /\ r2.verdict = "none"
      BY <3>1 DEF CheckRecord
    <3> HIDE DEF r2
    <3> QED BY <3>2, <3>3 DEF CheckRecord
  <2>4. checks' = [checks EXCEPT ![c] = r]
    BY <2>1
  <2> HIDE DEF r
  <2>5. \A x \in Scratch(c, ToSet(Prepared[tool])) : x[1] = c /\ x \in CheckIds \X ScratchFiles
    BY PreparedFiles DEF Scratch
  <2>6. scratch' \subseteq CheckIds \X ScratchFiles /\ \A x \in scratch' : x \in scratch \/ x[1] = c
    BY <1>0, <2>1, <2>5
  <2> QED BY <1>0, <2>1, <2>3, <2>4, <2>6, OneCheck
<1> QED BY <1>1, <1>2

LEMMA Exits == ASSUME ChecksInv, ChildExits PROVE ChecksInv'
<1>1. PICK c \in CheckIds : 
        /\ checks[c].st = "running"
        /\ \E out \in Outputs(checks[c].tool, checks[c].broken), ok \in BOOLEAN :
             /\ checks[c].tool = "script" => ok = ~(HonestExit /\ checks[c].broken)
             /\ checks[c].tool = "export" => ok # checks[c].broken
             /\ checks' = [checks EXCEPT ![c].st = "exited", ![c].out = out, ![c].ok = ok]
        /\ artifact' = (artifact \/ (checks[c].tool = "export" /\ ~checks[c].broken))
        /\ UNCHANGED scratch
  BY DEF ChildExits
<1>2. PICK out \in Outputs(checks[c].tool, checks[c].broken), ok \in BOOLEAN :
        /\ checks[c].tool = "script" => ok = ~(HonestExit /\ checks[c].broken)
        /\ checks[c].tool = "export" => ok # checks[c].broken
        /\ checks' = [checks EXCEPT ![c].st = "exited", ![c].out = out, ![c].ok = ok]
  BY <1>1
<1> DEFINE r == [checks[c] EXCEPT !.st = "exited", !.out = out, !.ok = ok]
<1>3. /\ checks[c] \in CheckRecord /\ checks[c].tool \in Tools /\ checks[c].broken \in BOOLEAN
      /\ checks[c].verdict = "none" /\ checks \in [CheckIds -> CheckRecord] /\ scratch \subseteq CheckIds \X ScratchFiles
      /\ artifact \in BOOLEAN
  BY <1>1 DEF ChecksInv, ChecksTyped, CheckRecord, OnlySettledIsJudged
<1>4. checks' = [checks EXCEPT ![c] = r]
  BY <1>2, <1>3
<1>5. /\ out \in Seq(Lines)
      /\ checks[c].broken /\ checks[c].tool = "script" => \E i \in 1..Len(out) : out[i] = "error"
      /\ checks[c].broken /\ checks[c].tool = "shader" =>
           \A i \in 1..Len(out) : out[i] = "begin" => i < Len(out) /\ out[i + 1] = "error"
  BY <1>3, OutputIs
<1>6. /\ r \in CheckRecord /\ r.st = "exited" /\ r.out = out /\ r.ok = ok /\ r.tool = checks[c].tool
      /\ r.broken = checks[c].broken /\ r.verdict = "none"
  BY <1>3, <1>5 DEF CheckRecord, CheckStates
<1> HIDE DEF r
<1>7. r.broken => SaysItIsBroken(r)
  BY <1>2, <1>3, <1>5, <1>6 DEF SaysItIsBroken
<1>8. artifact' \in BOOLEAN /\ scratch' = scratch
  BY <1>1, <1>3
<1> QED BY <1>3, <1>4, <1>6, <1>7, <1>8, OneCheck

\* The start of an output with BEGIN in it has the diagnostic too, or lacks it.
LEMMA StartIs ==
  ASSUME NEW out \in Seq(Lines), NEW k \in 0..Len(out)
  PROVE  /\ SubSeq(out, 1, k) \in Seq(Lines)
         /\ Len(SubSeq(out, 1, k)) = k
         /\ \A i \in 1..k : SubSeq(out, 1, k)[i] = out[i]
  OBVIOUS

LEMMA Dies == ASSUME ChecksInv, ChildDies PROVE ChecksInv'
<1>1. PICK c \in CheckIds :
        /\ checks[c].st = "running"
        /\ \E out \in Outputs(checks[c].tool, checks[c].broken) : \E k \in 0..Len(out) :
             checks' = [checks EXCEPT ![c].st = "exited", ![c].out = SubSeq(out, 1, k), ![c].ok = FALSE,
                                      ![c].cut = \E i \in (k + 1)..Len(out) : out[i] = "error"]
        /\ artifact' \in {artifact, artifact \/ checks[c].tool = "export"}
        /\ UNCHANGED scratch
  BY DEF ChildDies
<1>2. PICK out \in Outputs(checks[c].tool, checks[c].broken) : \E k \in 0..Len(out) :
        checks' = [checks EXCEPT ![c].st = "exited", ![c].out = SubSeq(out, 1, k), ![c].ok = FALSE,
                                 ![c].cut = \E i \in (k + 1)..Len(out) : out[i] = "error"]
  BY <1>1
<1>3. PICK k \in 0..Len(out) :
        checks' = [checks EXCEPT ![c].st = "exited", ![c].out = SubSeq(out, 1, k), ![c].ok = FALSE,
                                 ![c].cut = \E i \in (k + 1)..Len(out) : out[i] = "error"]
  BY <1>2
<1>4. PICK cut \in BOOLEAN : cut = (\E i \in (k + 1)..Len(out) : out[i] = "error")
  OBVIOUS
<1>5. PICK said : said = SubSeq(out, 1, k)
  OBVIOUS
<1> DEFINE r == [checks[c] EXCEPT !.st = "exited", !.out = said, !.ok = FALSE, !.cut = cut]
<1>6. /\ checks[c] \in CheckRecord /\ checks[c].tool \in Tools /\ checks[c].broken \in BOOLEAN
      /\ checks[c].verdict = "none" /\ checks \in [CheckIds -> CheckRecord] /\ scratch \subseteq CheckIds \X ScratchFiles
      /\ artifact \in BOOLEAN
  BY <1>1 DEF ChecksInv, ChecksTyped, CheckRecord, OnlySettledIsJudged
<1>7. checks' = [checks EXCEPT ![c] = r]
  BY <1>3, <1>4, <1>5, <1>6
<1>8. /\ out \in Seq(Lines)
      /\ checks[c].broken /\ checks[c].tool = "shader" =>
           \A i \in 1..Len(out) : out[i] = "begin" => i < Len(out) /\ out[i + 1] = "error"
  BY <1>6, OutputIs
<1>9. said \in Seq(Lines) /\ Len(said) = k /\ \A i \in 1..k : said[i] = out[i]
  BY <1>5, <1>8, StartIs
<1>10. /\ r \in CheckRecord /\ r.st = "exited" /\ r.out = said /\ r.ok = FALSE /\ r.tool = checks[c].tool
       /\ r.broken = checks[c].broken /\ r.verdict = "none" /\ r.cut = cut
  BY <1>6, <1>9 DEF CheckRecord, CheckStates
<1> HIDE DEF r
<1>11. ASSUME r.broken, r.tool = "shader", ~r.cut, NEW i \in 1..Len(said), said[i] = "begin"
       PROVE  i < Len(said) /\ said[i + 1] = "error"
  <2>1. i \in 1..Len(out) /\ i \in 1..k /\ out[i] = "begin"
    BY <1>8, <1>9, <1>11
  <2>2. i + 1 \in 1..Len(out) /\ out[i + 1] = "error"
    BY <1>8, <1>10, <1>11, <2>1
  <2>3. i + 1 \notin (k + 1)..Len(out)
    BY <1>4, <1>10, <1>11, <2>2
  <2>4. i + 1 \in 1..k
    BY <1>8, <2>1, <2>2, <2>3
  <2> QED BY <1>9, <2>2, <2>4
<1>12. r.broken => SaysItIsBroken(r)
  BY <1>10, <1>11 DEF SaysItIsBroken
<1>13. artifact' \in BOOLEAN /\ scratch' = scratch
  BY <1>1, <1>6
<1> QED BY <1>6, <1>7, <1>10, <1>12, <1>13, OneCheck

\* A verdict, and the scratch files are gone.
LEMMA Settles ==
  ASSUME ChecksInv, NEW c \in CheckIds, NEW text, NEW verdict \in {"valid", "invalid", "failed"}, Settle(c, text, verdict),
         verdict = "valid" /\ checks[c].broken =>
           \/ checks[c].tool = "script" /\ ~HonestExit /\ text # checks[c].out
           \/ checks[c].tool = "shader" /\ checks[c].cut
  PROVE  ChecksInv'
<1> DEFINE partRead == (text # checks[c].out)
           r == [checks[c] EXCEPT !.st = "settled", !.verdict = verdict, !.ok = TRUE, !.out = <<>>, !.unread = partRead]
<1>1. /\ checks[c] \in CheckRecord /\ checks \in [CheckIds -> CheckRecord] /\ scratch \subseteq CheckIds \X ScratchFiles
      /\ artifact \in BOOLEAN
  BY DEF ChecksInv, ChecksTyped
<1>2. checks' = [checks EXCEPT ![c] = r] /\ scratch' = scratch \ ({c} \X {"log", "driver", "runtime"}) /\ artifact' = artifact
  BY <1>1 DEF Settle
<1>3. /\ r \in CheckRecord /\ r.st = "settled" /\ r.verdict = verdict /\ r.broken = checks[c].broken
      /\ r.tool = checks[c].tool /\ r.unread = partRead /\ r.cut = checks[c].cut
  <2>1. partRead \in BOOLEAN /\ <<>> \in Seq(Lines)
    OBVIOUS
  <2> DEFINE r1 == [checks[c] EXCEPT !.st = "settled"]
             r2 == [r1 EXCEPT !.verdict = verdict]
             r3 == [r2 EXCEPT !.ok = TRUE]
             r4 == [r3 EXCEPT !.out = <<>>]
  <2>2. r = [r4 EXCEPT !.unread = partRead]
    OBVIOUS
  <2> HIDE DEF r, partRead
  <2>3. r1 \in CheckRecord /\ r1.st = "settled" /\ r1.broken = checks[c].broken /\ r1.tool = checks[c].tool
        /\ r1.cut = checks[c].cut
    BY <1>1 DEF CheckRecord, CheckStates
  <2> HIDE DEF r1
  <2>4. /\ r2 \in CheckRecord /\ r2.st = "settled" /\ r2.broken = checks[c].broken /\ r2.tool = checks[c].tool
        /\ r2.verdict = verdict /\ r2.cut = checks[c].cut
    BY <2>3 DEF CheckRecord
  <2> HIDE DEF r2
  <2>5. /\ r3 \in CheckRecord /\ r3.st = "settled" /\ r3.broken = checks[c].broken /\ r3.tool = checks[c].tool
        /\ r3.verdict = verdict /\ r3.cut = checks[c].cut
    BY <2>4 DEF CheckRecord
  <2> HIDE DEF r3
  <2>6. /\ r4 \in CheckRecord /\ r4.st = "settled" /\ r4.broken = checks[c].broken /\ r4.tool = checks[c].tool
        /\ r4.verdict = verdict /\ r4.cut = checks[c].cut
    BY <2>1, <2>5 DEF CheckRecord
  <2> HIDE DEF r4
  <2> QED BY <2>1, <2>2, <2>6 DEF CheckRecord
<1> HIDE DEF r
<1>4. scratch' \subseteq CheckIds \X ScratchFiles /\ scratch' \subseteq scratch /\ \A x \in scratch' : x[1] # c
  BY <1>1, <1>2 DEF ScratchFiles
<1>5. r.verdict = "valid" => Excused(r)
  BY <1>3 DEF Excused
<1> QED BY <1>1, <1>2, <1>3, <1>4, <1>5, OneCheck

LEMMA ScriptJudged == ASSUME ChecksInv, ScriptPolled PROVE ChecksInv'
<1>1. PICK c \in CheckIds : checks[c].st = "exited" /\ checks[c].tool = "script" /\ \E text \in ReadBack(checks[c].out) :
        Settle(c, text, IF checks[c].ok /\ ~HasErrors(text) THEN "valid" ELSE "invalid")
  BY DEF ScriptPolled, Exited
<1>2. PICK text \in ReadBack(checks[c].out) :
        Settle(c, text, IF checks[c].ok /\ ~HasErrors(text) THEN "valid" ELSE "invalid")
  BY <1>1
<1> DEFINE verdict == IF checks[c].ok /\ ~HasErrors(text) THEN "valid" ELSE "invalid"
<1>3. checks[c].out \in Seq(Lines) /\ checks[c].ok \in BOOLEAN
  BY DEF ChecksInv, ChecksTyped, CheckRecord
<1>4. ASSUME verdict = "valid", checks[c].broken PROVE ~HonestExit /\ text # checks[c].out
  <2>1. checks[c].ok /\ ~HasErrors(text)
    BY <1>4
  <2>2. ~HonestExit /\ \E i \in 1..Len(checks[c].out) : checks[c].out[i] = "error"
    BY <1>1, <1>4, <2>1 DEF ChecksInv, BrokenIsSaid, SaysItIsBroken
  <2>3. HasErrors(checks[c].out)
    BY <1>3, <2>2, ToSetIs DEF HasErrors
  <2> QED BY <2>1, <2>2, <2>3
<1> QED BY <1>1, <1>2, <1>4, Settles

\* BEGIN stands in what was read, hence the diagnostic that follows it does.
LEMMA ShaderJudged == ASSUME ChecksInv, ShaderPolled PROVE ChecksInv'
<1>1. PICK c \in CheckIds : checks[c].st = "exited" /\ checks[c].tool = "shader" /\
        \E text \in ReadBack(checks[c].out) : Settle(c, text, Interpret(text))
  BY DEF ShaderPolled, Exited
<1>2. PICK text \in ReadBack(checks[c].out) : Settle(c, text, Interpret(text))
  BY <1>1
<1> DEFINE out == checks[c].out
<1>3. out \in Seq(Lines)
  BY DEF ChecksInv, ChecksTyped, CheckRecord
<1>4. /\ Interpret(text) \in {"valid", "invalid", "failed"}
      /\ Interpret(text) = "valid" => "begin" \in ToSet(text) /\ ~HasErrors(text)
  BY DEF Interpret
<1>5. ASSUME Interpret(text) = "valid", checks[c].broken, ~checks[c].cut PROVE FALSE
  <2>1. text \in Seq(Lines)
    <3>1. Kept(out) \in Seq(Lines)
      BY <1>3, KeptIs
    <3>2. <<>> \in Seq(Lines)
      OBVIOUS
    <3>3. text = Kept(out) \/ text = <<>>
      BY <1>2 DEF ReadBack
    <3> QED BY <3>1, <3>2, <3>3
  <2>2. PICK i \in 1..Len(text) : text[i] = "begin"
    BY <1>4, <1>5, <2>1, ToSetIs
  <2>3. text = Kept(out)
    BY <2>1, <2>2 DEF ReadBack
  <2>4. PICK m \in Nat, n \in Nat : m = Len(text) /\ Len(out) = n + m /\ \A j \in 1..m : text[j] = out[n + j]
    BY <1>3, <2>3, KeptIs
  <2>5. \A j \in 1..Len(out) : out[j] = "begin" => j < Len(out) /\ out[j + 1] = "error"
    BY <1>1, <1>5 DEF ChecksInv, BrokenIsSaid, SaysItIsBroken
  <2> HIDE DEF out
  <2>6. i \in 1..m /\ n + i \in 1..Len(out) /\ out[n + i] = "begin"
    BY <2>2, <2>4
  <2>7. n + i < Len(out) /\ out[(n + i) + 1] = "error"
    BY <2>5, <2>6
  <2>8. i + 1 \in 1..m /\ n + (i + 1) = (n + i) + 1
    BY <2>4, <2>6, <2>7
  <2>9. text[i + 1] = "error"
    BY <2>4, <2>7, <2>8
  <2>10. HasErrors(text)
    BY <2>1, <2>4, <2>8, <2>9, ToSetIs DEF HasErrors
  <2> QED BY <1>4, <1>5, <2>10
<1> QED BY <1>1, <1>2, <1>4, <1>5, Settles

LEMMA ExportJudged == ASSUME ChecksInv, ExportPolled PROVE ChecksInv'
<1>1. PICK c \in CheckIds :
        /\ checks[c].st = "exited" /\ checks[c].tool = "export"
        /\ Settle(c, checks[c].out, IF checks[c].ok /\ artifact THEN "valid" ELSE "failed")
  BY DEF ExportPolled, Exited
<1>2. checks[c].broken => ~checks[c].ok
  BY <1>1 DEF ChecksInv, BrokenIsSaid, SaysItIsBroken
<1>3. CASE checks[c].ok /\ artifact
  BY <1>1, <1>2, <1>3, Settles
<1>4. CASE ~(checks[c].ok /\ artifact)
  BY <1>1, <1>4, Settles
<1> QED BY <1>3, <1>4

LEMMA ChecksStep == ASSUME ChecksInv, [ChecksNext]_checkVars PROVE ChecksInv'
<1>1. CASE ScriptValidate \/ ShaderValidate \/ ExportProject
  BY <1>1, Prepare DEF ScriptValidate, ShaderValidate, ExportProject, Tools
<1>2. CASE WaitFails
  BY <1>2, Settles DEF WaitFails
<1>3. CASE ArtifactRemoved
  BY <1>3 DEF ArtifactRemoved, ChecksInv, ChecksTyped, BrokenIsSaid, OnlySettledIsJudged, ChecksAreSound, VerdictIsSound,
     NoScratchLeft
<1>4. CASE UNCHANGED checkVars
  BY <1>4 DEF checkVars, ChecksInv, ChecksTyped, BrokenIsSaid, OnlySettledIsJudged, ChecksAreSound, VerdictIsSound,
     NoScratchLeft
<1> QED BY <1>1, <1>2, <1>3, <1>4, Exits, Dies, ScriptJudged, ShaderJudged, ExportJudged DEF ChecksNext

----------------------------------------------------------------------------
(* Installations. *)

Steps == {"idle", "fetching", "staging", "removing", "renaming", "marking", "cleaning", "autoload", "saving", "entering"}
Texts == [user : BOOLEAN, auto : BOOLEAN]
Released == Payload(1) \cup Payload(2)
Records == [step : Steps, forced : BOOLEAN, todo : SUBSET Released, read : Texts]

----------------------------------------------------------------------------
(* The inductive invariant. *)

Types ==
  /\ release \in [Installers -> {1, 2}]
  /\ install \in [Installers -> Records]
  /\ project \in Texts /\ backup \in Texts
  /\ damaged \in BOOLEAN /\ overlapped \in BOOLEAN /\ relapsed \in BOOLEAN

Alone == \A b, c \in Writing : b = c

\* What is staged, and to be staged, makes the release.
StagedIsWhole ==
  \A b \in Installers :
    /\ install[b].step = "staging" =>
         install[b].todo \subseteq Payload(release[b]) /\ staging = Payload(release[b]) \ install[b].todo
    /\ b \in Swapping => staging = Payload(release[b])

\* What is in place before the rename, and after it.
PlaceIsReady ==
  \A b \in Installers :
    /\ install[b].step = "renaming" => dest = {}
    /\ install[b].step = "marking" => dest = Payload(release[b])

\* A copy put there by hand is not added to, and every install under way that
\* finds it was forced.
HandPlacedIsKnown ==
  /\ (\E f \in dest : f[2] = 0) => dest \subseteq Payload(0)
  /\ \A b \in Installers : install[b].step # "idle" /\ dest = Payload(0) => install[b].forced

\* The text that is written back is the user's.
TextIsRead ==
  \A b \in Installers :
    /\ install[b].step = "saving" => project.user \/ relapsed
    /\ install[b].step \in {"saving", "entering"} => install[b].read.user \/ relapsed

Sound ==
  /\ Alone /\ StagedIsWhole /\ PlaceIsReady /\ HandPlacedIsKnown /\ TextIsRead
  /\ InstalledIsWhole /\ ProjectIsKept

InstallsInv == Types /\ (overlapped \/ Sound)

----------------------------------------------------------------------------
(* Releases. *)

\* The files of a release have different names, none that of the marker, and are
\* of no other release.
LEMMA PayloadFacts ==
  ASSUME NEW v \in 0..2
  PROVE  /\ \A f, g \in Payload(v) : f[1] = g[1] => f = g
         /\ \A f \in Payload(v) : f[1] # "marker" /\ f[2] = v
         /\ <<"main", v>> \in Payload(v)
  BY DEF Payload

\* Writing a file of a release adds it.
LEMMA FileIsAdded ==
  ASSUME NEW v \in {1, 2}, NEW todo \in SUBSET Payload(v), NEW f \in todo
  PROVE  Over(Payload(v) \ todo, f) = Payload(v) \ (todo \ {f})
  BY PayloadFacts DEF Over

\* Writing the marker of a release leaves its files.
LEMMA MarkerIsAdded ==
  ASSUME NEW v \in {1, 2}
  PROVE  /\ Over(Payload(v), Marker(v)) = Payload(v) \cup {Marker(v)}
         /\ Over(Payload(v), Marker(v)) \ {Marker(v)} = Payload(v)
         /\ Marker(v)[2] = v
  <1>1. Marker(v)[1] = "marker" /\ Marker(v)[2] = v
    BY DEF Marker
  <1>2. \A f \in Payload(v) : f[1] # "marker"
    BY PayloadFacts
  <1>3. Over(Payload(v), Marker(v)) = Payload(v) \cup {Marker(v)}
    BY <1>1, <1>2 DEF Over
  <1>4. Marker(v) \notin Payload(v)
    BY <1>1, <1>2
  <1>5. QED
    BY <1>1, <1>3, <1>4

\* A copy put there by hand has no marker.
LEMMA HandPlacedIsUnmanaged ==
  ASSUME dest = Payload(0), NEW v
  PROVE  Detected(v) = "unmanaged"
  <1>1. Has(dest, "main") /\ ~Has(dest, "marker")
    BY PayloadFacts DEF Has
  <1>2. QED
    BY <1>1 DEF Detected

----------------------------------------------------------------------------
(* The start. *)

\* No install is under way, and what is in the place was put there by hand.
LEMMA InitInstalls == InstallsInit => InstallsInv
  <1> SUFFICES ASSUME InstallsInit PROVE Types /\ Sound
    BY DEF InstallsInv
  <1>a. install = [b \in Installers |-> Idle]
    BY DEF InstallsInit
  <1>b. Idle \in Records /\ Idle.step = "idle"
    BY DEF Idle, NoText, Records, Steps, Texts
  <1>2. \A b \in Installers : install[b].step = "idle"
    BY <1>a, <1>b
  <1>c. release \in [Installers -> {1, 2}]
    BY DEF InstallsInit
  <1>3. Types
    BY <1>a, <1>b, <1>c DEF InstallsInit, Types, Texts, NoText
  <1>4. Writing = {} /\ Swapping = {}
    BY <1>2 DEF Writing, Swapping
  <1>5. dest = {} \/ dest = Payload(0)
    BY DEF InstallsInit
  <1>6. InstalledIsWhole
    <2>1. CASE dest = {}
      BY <2>1 DEF InstalledIsWhole
    <2>2. CASE dest = Payload(0)
      <3>1. Marker(0) \notin Payload(0)
        BY PayloadFacts DEF Marker
      <3>2. dest \ {Marker(0)} = Payload(0)
        BY <2>2, <3>1
      <3>3. QED
        BY <3>2 DEF InstalledIsWhole
    <2>3. QED
      BY <1>5, <2>1, <2>2
  <1>7. ProjectIsKept
    BY DEF InstallsInit, ProjectIsKept
  <1>8. QED
    BY <1>2, <1>3, <1>4, <1>5, <1>6, <1>7
       DEF Sound, Alone, StagedIsWhole, PlaceIsReady, HandPlacedIsKnown, TextIsRead, Swapping

----------------------------------------------------------------------------
(* What a step makes of the installs. *)

\* A step of one broker changes its own install only.
Only(b) == install' \in [Installers -> Records] /\ \A c \in Installers \ {b} : install'[c] = install[c]

LEMMA GoesOn ==
  ASSUME Types, NEW b \in Installers, NEW step \in Steps, GoesTo(b, step)
  PROVE  Only(b) /\ install'[b] = [install[b] EXCEPT !.step = step]
  BY DEF Types, GoesTo, Only, Records

LEMMA Becomes ==
  ASSUME Types, NEW b \in Installers, NEW r \in Records, install' = [install EXCEPT ![b] = r]
  PROVE  Only(b) /\ install'[b] = r
  BY DEF Types, Only

LEMMA IdleIsTyped == Idle \in Records /\ Idle.step = "idle" /\ [Idle EXCEPT !.step = "autoload"] \in Records
  BY DEF Idle, NoText, Records, Steps, Texts

\* What each step makes of the install.
LEMMA Effects ==
  ASSUME Types, NEW b \in Installers
  PROVE  /\ InstallAsked(b) => Only(b) /\ install'[b].step = "fetching"
         /\ Fetched(b) => Only(b) /\ install'[b] = [install[b] EXCEPT !.step = "staging", !.todo = Payload(release[b])]
         /\ RemoveOld(b) => Only(b) /\ install'[b] = [install[b] EXCEPT !.step = IF dest = {} THEN "renaming" ELSE "removing"]
         /\ SwapIn(b) => Only(b) /\ install'[b] = [install[b] EXCEPT !.step = "marking"]
         /\ CleanUp(b) => Only(b) /\ install'[b] = Idle
         /\ WriteMarker(b) => Only(b) /\ install'[b].step \in {"idle", "autoload"}
         /\ ReadProject(b) => Only(b) /\ install'[b] \in {[install[b] EXCEPT !.step = "saving", !.read = project], Idle}
         /\ WriteBackup(b) => Only(b) /\ install'[b] = [install[b] EXCEPT !.step = "entering"]
         /\ WithAutoload(b) => Only(b) /\ install'[b] = Idle
         /\ StepFails(b) => Only(b) /\ install'[b] \in {[install[b] EXCEPT !.step = "cleaning"], Idle}
         /\ BrokerDies(b) => Only(b) /\ install'[b] = Idle
  <1> USE DEF Steps
  <1>1. install[b] \in Records /\ release[b] \in {1, 2} /\ install \in [Installers -> Records]
    BY DEF Types
  <1>2. ASSUME InstallAsked(b) PROVE Only(b) /\ install'[b].step = "fetching"
    <2>1. PICK force \in BOOLEAN : install' = [install EXCEPT ![b].step = "fetching", ![b].forced = force]
      BY <1>2 DEF InstallAsked
    <2>2. [install[b] EXCEPT !.step = "fetching", !.forced = force] \in Records
      BY <1>1 DEF Records
    <2>3. QED
      BY <1>1, <2>1, <2>2 DEF Only, Records
  <1>3. ASSUME Fetched(b)
        PROVE  Only(b) /\ install'[b] = [install[b] EXCEPT !.step = "staging", !.todo = Payload(release[b])]
    <2>1. Payload(release[b]) \subseteq Released
      BY <1>1 DEF Released
    <2>2. QED
      BY <1>1, <1>3, <2>1 DEF Fetched, Only, Records
  <1>4. ASSUME RemoveOld(b)
        PROVE  Only(b) /\ install'[b] = [install[b] EXCEPT !.step = IF dest = {} THEN "renaming" ELSE "removing"]
    <2>1. CASE dest = {}
      BY <1>4, <2>1, GoesOn DEF RemoveOld
    <2>2. CASE dest # {}
      BY <1>1, <1>4, <2>2 DEF RemoveOld, Only, Records
    <2>3. QED
      BY <2>1, <2>2
  <1>5. SwapIn(b) => Only(b) /\ install'[b] = [install[b] EXCEPT !.step = "marking"]
    BY GoesOn DEF SwapIn
  <1>6. CleanUp(b) => Only(b) /\ install'[b] = Idle
    BY Becomes, IdleIsTyped DEF CleanUp
  <1>7. ASSUME WriteMarker(b)
        PROVE  Only(b) /\ install'[b].step \in {"idle", "autoload"}
    <2>1. PICK r \in {Idle, [Idle EXCEPT !.step = "autoload"]} : install' = [install EXCEPT ![b] = r]
      BY <1>7 DEF WriteMarker
    <2>2. Only(b) /\ install'[b] = r
      BY <2>1, Becomes, IdleIsTyped
    <2>3. QED
      BY <2>1, <2>2 DEF Idle
  <1>8. ASSUME ReadProject(b)
        PROVE  Only(b) /\ install'[b] \in {[install[b] EXCEPT !.step = "saving", !.read = project], Idle}
    <2>1. CASE install' = [install EXCEPT ![b].step = "saving", ![b].read = project]
      BY <1>1, <2>1 DEF Only, Records, Types
    <2>2. CASE install' = [install EXCEPT ![b] = Idle]
      BY <2>2, Becomes, IdleIsTyped
    <2>3. QED
      BY <1>8, <2>1, <2>2 DEF ReadProject
  <1>9. WriteBackup(b) => Only(b) /\ install'[b] = [install[b] EXCEPT !.step = "entering"]
    BY GoesOn DEF WriteBackup
  <1>10. WithAutoload(b) => Only(b) /\ install'[b] = Idle
    BY Becomes, IdleIsTyped DEF WithAutoload
  <1>11. StepFails(b) => Only(b) /\ install'[b] \in {[install[b] EXCEPT !.step = "cleaning"], Idle}
    <2>1. StepFails(b) => GoesTo(b, "cleaning") \/ install' = [install EXCEPT ![b] = Idle]
      BY DEF StepFails
    <2>2. GoesTo(b, "cleaning") => Only(b) /\ install'[b] = [install[b] EXCEPT !.step = "cleaning"]
      BY GoesOn
    <2>3. install' = [install EXCEPT ![b] = Idle] => Only(b) /\ install'[b] = Idle
      BY Becomes, IdleIsTyped
    <2>4. QED
      BY <2>1, <2>2, <2>3
  <1>12. BrokerDies(b) => Only(b) /\ install'[b] = Idle
    BY Becomes, IdleIsTyped DEF BrokerDies
  <1>13. QED
    BY <1>2, <1>3, <1>4, <1>5, <1>6, <1>7, <1>8, <1>9, <1>10, <1>11, <1>12

\* A file is staged.
LEMMA StagedEffect ==
  ASSUME Types, NEW b \in Installers, WriteStaged(b)
  PROVE  /\ Only(b)
         /\ \E f \in install[b].todo :
              /\ staging' = Over(staging, f)
              /\ install'[b] = [install[b] EXCEPT !.todo = @ \ {f}, !.step = IF install[b].todo = {f} THEN "removing" ELSE "staging"]
  <1>1. install[b] \in Records /\ install \in [Installers -> Records]
    BY DEF Types
  <1>2. PICK f \in install[b].todo :
          /\ staging' = Over(staging, f)
          /\ install' = [install EXCEPT ![b].todo = install[b].todo \ {f},
                                       ![b].step = IF install[b].todo \ {f} = {} THEN "removing" ELSE "staging"]
    BY DEF WriteStaged
  <1>3. install[b].todo \ {f} = {} <=> install[b].todo = {f}
    OBVIOUS
  <1>4. QED
    BY <1>1, <1>2, <1>3 DEF Only, Records, Steps

----------------------------------------------------------------------------
(* Types. *)

LEMMA TypesKept == Types /\ InstallsNext => Types'
  <1> SUFFICES ASSUME Types, InstallsNext PROVE Types'
    OBVIOUS
  <1>1. PICK b \in Installers :
          \/ InstallAsked(b) \/ Fetched(b) \/ WriteStaged(b) \/ RemoveOld(b) \/ SwapIn(b) \/ CleanUp(b)
          \/ WriteMarker(b) \/ ReadProject(b) \/ WriteBackup(b) \/ WithAutoload(b)
          \/ StepFails(b) \/ BrokerDies(b)
    BY DEF InstallsNext
  <1>2. install' \in [Installers -> Records]
    BY <1>1, Effects, StagedEffect DEF Only
  <1>3. install[b].read \in Texts
    BY DEF Types, Records
  <1>4. UNCHANGED release
    BY <1>1 DEF InstallAsked, Fetched, WriteStaged, RemoveOld, SwapIn, CleanUp, WriteMarker, ReadProject, WriteBackup,
                WithAutoload, StepFails, BrokerDies, Same
  <1>5. damaged' \in BOOLEAN /\ overlapped' \in BOOLEAN
    BY <1>1 DEF Types, InstallAsked, Fetched, WriteStaged, RemoveOld, SwapIn, CleanUp, WriteMarker, ReadProject, WriteBackup,
                WithAutoload, StepFails, BrokerDies, Same, placeVars
  <1>6. project' \in Texts /\ backup' \in Texts /\ relapsed' \in BOOLEAN
    <2>1. CASE ReadProject(b)
      <3>1. project' = project /\ backup' \in {NoText, backup}
        BY <2>1 DEF ReadProject
      <3>2. relapsed' \in {relapsed, relapsed \/ ~project.user}
        BY <2>1 DEF ReadProject
      <3>3. NoText \in Texts
        BY DEF NoText, Texts
      <3>4. QED
        BY <3>1, <3>2, <3>3 DEF Types
    <2>2. CASE WriteBackup(b)
      BY <2>2, <1>3 DEF WriteBackup, Types, Texts, NoText
    <2>3. CASE WithAutoload(b)
      BY <2>3, <1>3 DEF WithAutoload, Types, Texts
    <2>4. CASE UNCHANGED projectVars
      BY <2>4 DEF projectVars, Types
    <2>5. QED
      BY <1>1, <2>1, <2>2, <2>3, <2>4 DEF InstallAsked, Fetched, WriteStaged, RemoveOld, SwapIn, CleanUp, WriteMarker,
                                          StepFails, BrokerDies
  <1>7. QED
    BY <1>2, <1>4, <1>5, <1>6 DEF Types

----------------------------------------------------------------------------
(* The steps of a broker that installs alone. *)

\* Where one broker writes, every other is idle or waits for its download.
LEMMA Elsewhere ==
  ASSUME Types, Alone, NEW b \in Writing, Only(b)
  PROVE  /\ b \in Installers /\ install[b] \in Records /\ install'[b] \in Records
         /\ \A c \in Installers \ {b} : install'[c] = install[c] /\ install[c].step \in {"idle", "fetching"}
         /\ Alone' /\ Swapping \subseteq {b} /\ Swapping' \subseteq {b}
  BY DEF Types, Alone, Writing, Only, Swapping, Records

LEMMA AskedKeeps ==
  ASSUME Types, Sound, NEW b \in Installers, InstallAsked(b)
  PROVE  Sound'
  <1>1. UNCHANGED <<release, dest, staging, damaged, project, backup, relapsed>> /\ install[b].step = "idle"
    BY DEF InstallAsked, placeVars, projectVars
  <1>2. Only(b) /\ install'[b].step = "fetching" /\ install[b] \in Records
    BY Effects DEF Types
  <1>3. Writing' = Writing /\ Swapping' = Swapping
    BY <1>1, <1>2 DEF Writing, Swapping, Only
  <1>4. dest = Payload(0) => install'[b].forced
    <2>1. PICK force \in BOOLEAN :
            /\ force \/ Detected(release[b]) \in {"missing", "stale"}
            /\ install' = [install EXCEPT ![b].step = "fetching", ![b].forced = force]
      BY DEF InstallAsked
    <2>2. install'[b].forced = force
      BY <2>1, <1>2 DEF Types, Records
    <2>3. dest = Payload(0) => force
      BY <2>1, HandPlacedIsUnmanaged
    <2>4. QED
      BY <2>2, <2>3
  <1>5. HandPlacedIsKnown'
    BY <1>1, <1>2, <1>4 DEF Sound, HandPlacedIsKnown, Only
  <1>6. StagedIsWhole' /\ PlaceIsReady' /\ TextIsRead'
    BY <1>1, <1>2, <1>3 DEF Sound, StagedIsWhole, PlaceIsReady, TextIsRead, Only
  <1>7. Alone' /\ InstalledIsWhole' /\ ProjectIsKept'
    BY <1>1, <1>3 DEF Sound, Alone, InstalledIsWhole, ProjectIsKept
  <1>8. QED
    BY <1>5, <1>6, <1>7 DEF Sound

LEMMA FetchedKeeps ==
  ASSUME Types, Sound, NEW b \in Installers, Fetched(b), ~overlapped'
  PROVE  Sound'
  <1>1. /\ UNCHANGED <<release, dest, damaged, project, backup, relapsed>> /\ install[b].step = "fetching"
        /\ staging' = {} /\ Writing \ {b} = {}
    BY DEF Fetched, ClearedStaging, projectVars
  <1>2. Only(b) /\ install'[b] = [install[b] EXCEPT !.step = "staging", !.todo = Payload(release[b])] /\ install[b] \in Records
    BY Effects DEF Types
  <1>3. install'[b].step = "staging" /\ install'[b].todo = Payload(release[b]) /\ install'[b].forced = install[b].forced
    BY <1>2 DEF Records
  <1>4. \A c \in Installers \ {b} : install'[c] = install[c] /\ install[c].step \in {"idle", "fetching"}
    BY <1>1, <1>2 DEF Only, Writing
  <1>5. Alone' /\ Swapping' = {} /\ Swapping = {}
    BY <1>1, <1>3, <1>4 DEF Alone, Writing, Swapping
  <1>6. StagedIsWhole' /\ PlaceIsReady' /\ TextIsRead'
    BY <1>1, <1>3, <1>4, <1>5 DEF StagedIsWhole, PlaceIsReady, TextIsRead, Swapping
  <1>7. HandPlacedIsKnown'
    BY <1>1, <1>3, <1>4 DEF Sound, HandPlacedIsKnown
  <1>8. InstalledIsWhole' /\ ProjectIsKept'
    BY <1>1, <1>5 DEF Sound, InstalledIsWhole, ProjectIsKept
  <1>9. QED
    BY <1>5, <1>6, <1>7, <1>8 DEF Sound

LEMMA StagedKeeps ==
  ASSUME Types, Sound, NEW b \in Installers, WriteStaged(b)
  PROVE  Sound'
  <1>1. UNCHANGED <<release, dest, damaged, project, backup, relapsed>> /\ install[b].step = "staging" /\ b \in Writing
    BY DEF WriteStaged, Same, projectVars, Writing
  <1>2. PICK f \in install[b].todo :
          /\ staging' = Over(staging, f)
          /\ install'[b] = [install[b] EXCEPT !.todo = @ \ {f}, !.step = IF install[b].todo = {f} THEN "removing" ELSE "staging"]
    BY StagedEffect
  <1>3. /\ \A c \in Installers \ {b} : install'[c] = install[c] /\ install[c].step \in {"idle", "fetching"}
        /\ Alone' /\ Swapping \subseteq {b} /\ Swapping' \subseteq {b} /\ install[b] \in Records
    BY <1>1, Elsewhere, StagedEffect DEF Sound
  <1>4. /\ install'[b].todo = install[b].todo \ {f} /\ install'[b].forced = install[b].forced
        /\ install'[b].step = IF install[b].todo = {f} THEN "removing" ELSE "staging"
    BY <1>2, <1>3 DEF Records
  <1>5. staging' = Payload(release[b]) \ install'[b].todo /\ install'[b].todo \subseteq Payload(release[b])
    <2>1. install[b].todo \in SUBSET Payload(release[b]) /\ staging = Payload(release[b]) \ install[b].todo
      BY <1>1 DEF Sound, StagedIsWhole
    <2>2. release[b] \in {1, 2}
      BY DEF Types
    <2>3. QED
      BY <1>2, <1>4, <2>1, <2>2, FileIsAdded
  <1>6. StagedIsWhole'
    <2>1. install'[b].step = "removing" => install'[b].todo = {}
      BY <1>4
    <2>2. QED
      BY <1>1, <1>3, <1>4, <1>5, <2>1 DEF StagedIsWhole, Swapping
  <1>7. PlaceIsReady' /\ TextIsRead'
    BY <1>1, <1>3, <1>4 DEF PlaceIsReady, TextIsRead
  <1>8. HandPlacedIsKnown'
    BY <1>1, <1>3, <1>4 DEF Sound, HandPlacedIsKnown
  <1>9. Swapping = {}
    BY <1>1, <1>3 DEF Swapping
  <1>10. InstalledIsWhole' /\ ProjectIsKept'
    BY <1>1, <1>9 DEF Sound, InstalledIsWhole, ProjectIsKept
  <1>11. QED
    BY <1>3, <1>6, <1>7, <1>8, <1>10 DEF Sound

LEMMA RemovedKeeps ==
  ASSUME Types, Sound, NEW b \in Installers, RemoveOld(b)
  PROVE  Sound'
  <1>1. /\ UNCHANGED <<release, staging, damaged, project, backup, relapsed>>
        /\ install[b].step = "removing" /\ b \in Writing
        /\ dest' = dest \/ \E f \in dest : dest' = dest \ {f}
    BY DEF RemoveOld, Same, projectVars, Writing
  <1>2. /\ Only(b) /\ install[b] \in Records
        /\ install'[b] = [install[b] EXCEPT !.step = IF dest = {} THEN "renaming" ELSE "removing"]
    BY Effects DEF Types
  <1>3. /\ \A c \in Installers \ {b} : install'[c] = install[c] /\ install[c].step \in {"idle", "fetching"}
        /\ Alone'
    BY <1>1, <1>2, Elsewhere DEF Sound
  <1>4. /\ install'[b].step = (IF dest = {} THEN "renaming" ELSE "removing")
        /\ install'[b].forced = install[b].forced
    BY <1>2 DEF Records
  <1>5. b \in Swapping /\ b \in Swapping'
    BY <1>1, <1>4 DEF Swapping
  <1>6. StagedIsWhole' /\ TextIsRead'
    BY <1>1, <1>3, <1>4, <1>5 DEF Sound, StagedIsWhole, TextIsRead, Swapping
  <1>7. PlaceIsReady'
    BY <1>1, <1>3, <1>4 DEF PlaceIsReady
  <1>8. dest' = Payload(0) => dest = Payload(0)
    <2>1. SUFFICES ASSUME NEW f \in dest, dest' = dest \ {f}, dest' = Payload(0) PROVE FALSE
      BY <1>1
    <2>2. <<"main", 0>> \in dest /\ <<"main", 0>>[2] = 0
      BY <2>1, PayloadFacts
    <2>3. dest \subseteq Payload(0)
      BY <2>2 DEF Sound, HandPlacedIsKnown
    <2>4. QED
      BY <2>1, <2>3
  <1>9. HandPlacedIsKnown'
    BY <1>1, <1>3, <1>4, <1>8 DEF Sound, HandPlacedIsKnown
  <1>10. InstalledIsWhole' /\ ProjectIsKept'
    BY <1>1, <1>5 DEF Sound, InstalledIsWhole, ProjectIsKept
  <1>11. QED
    BY <1>3, <1>6, <1>7, <1>9, <1>10 DEF Sound

LEMMA SwappedKeeps ==
  ASSUME Types, Sound, NEW b \in Installers, SwapIn(b)
  PROVE  Sound'
  <1>1. /\ UNCHANGED <<release, project, backup, relapsed>> /\ install[b].step = "renaming" /\ b \in Writing
        /\ dest' = staging
    BY DEF SwapIn, Same, projectVars, Writing
  <1>2. Only(b) /\ install'[b] = [install[b] EXCEPT !.step = "marking"] /\ install[b] \in Records /\ release[b] \in {1, 2}
    BY Effects DEF Types
  <1>3. /\ \A c \in Installers \ {b} : install'[c] = install[c] /\ install[c].step \in {"idle", "fetching"}
        /\ Alone' /\ Swapping' \subseteq {b}
    BY <1>1, <1>2, Elsewhere DEF Sound
  <1>4. install'[b].step = "marking"
    BY <1>2 DEF Records
  <1>5. dest' = Payload(release[b])
    BY <1>1 DEF Sound, StagedIsWhole, Swapping
  <1>6. StagedIsWhole' /\ PlaceIsReady' /\ TextIsRead'
    BY <1>1, <1>3, <1>4, <1>5 DEF StagedIsWhole, PlaceIsReady, TextIsRead, Swapping
  <1>7. \A f \in dest' : f[2] # 0
    BY <1>2, <1>5, PayloadFacts
  <1>8. dest' # Payload(0)
    <2>1. <<"main", 0>> \in Payload(0) /\ <<"main", 0>>[2] = 0
      BY PayloadFacts
    <2>2. QED
      BY <1>7, <2>1
  <1>9. HandPlacedIsKnown'
    BY <1>7, <1>8 DEF HandPlacedIsKnown
  <1>10. Marker(release[b]) \notin Payload(release[b])
    BY <1>2, PayloadFacts DEF Marker
  <1>11. InstalledIsWhole'
    BY <1>2, <1>5, <1>10 DEF InstalledIsWhole
  <1>12. ProjectIsKept'
    BY <1>1 DEF Sound, ProjectIsKept
  <1>13. QED
    BY <1>3, <1>6, <1>9, <1>11, <1>12 DEF Sound

LEMMA MarkedKeeps ==
  ASSUME Types, Sound, NEW b \in Installers, WriteMarker(b)
  PROVE  Sound'
  <1>1. /\ UNCHANGED <<release, staging, damaged, project, backup, relapsed>> /\ install[b].step = "marking" /\ b \in Writing
        /\ dest' = Over(dest, Marker(release[b]))
    BY DEF WriteMarker, Same, projectVars, Writing
  <1>2. Only(b) /\ install'[b].step \in {"idle", "autoload"} /\ release[b] \in {1, 2}
    BY Effects DEF Types
  <1>3. /\ \A c \in Installers \ {b} : install'[c] = install[c] /\ install[c].step \in {"idle", "fetching"}
        /\ Alone'
    BY <1>1, <1>2, Elsewhere DEF Sound
  <1>4. dest = Payload(release[b])
    BY <1>1 DEF Sound, PlaceIsReady
  <1>5. dest' = Payload(release[b]) \cup {Marker(release[b])} /\ dest' \ {Marker(release[b])} = Payload(release[b])
    BY <1>1, <1>2, <1>4, MarkerIsAdded
  <1>6. StagedIsWhole' /\ PlaceIsReady' /\ TextIsRead'
    BY <1>1, <1>2, <1>3 DEF StagedIsWhole, PlaceIsReady, TextIsRead, Swapping
  <1>7. \A f \in dest' : f[2] # 0
    BY <1>2, <1>5, PayloadFacts, MarkerIsAdded
  <1>8. dest' # Payload(0)
    <2>1. <<"main", 0>> \in Payload(0) /\ <<"main", 0>>[2] = 0
      BY PayloadFacts
    <2>2. QED
      BY <1>7, <2>1
  <1>9. HandPlacedIsKnown'
    BY <1>7, <1>8 DEF HandPlacedIsKnown
  <1>10. InstalledIsWhole'
    BY <1>2, <1>5 DEF InstalledIsWhole
  <1>11. ProjectIsKept'
    BY <1>1 DEF Sound, ProjectIsKept
  <1>12. QED
    BY <1>3, <1>6, <1>9, <1>10, <1>11 DEF Sound

\* Steps after which the broker has nothing to write in the place, and before
\* which the place was as it is, or was being swapped.
LEMMA LeavingKeeps ==
  ASSUME Types, Sound, NEW b \in Installers, Only(b), install'[b].step \in {"idle", "cleaning"},
         UNCHANGED <<release, dest>>, install[b].step # "idle",
         install'[b].step = "cleaning" => install'[b].forced = install[b].forced /\ b \in Writing,
         damaged => damaged', b \in Swapping => damaged', b \notin Writing => UNCHANGED staging
  PROVE  /\ Alone' /\ StagedIsWhole' /\ PlaceIsReady' /\ HandPlacedIsKnown' /\ InstalledIsWhole'
  <1>1. \A c \in Installers \ {b} : install'[c] = install[c]
    BY DEF Only
  <1>2. \A c, d \in Writing : c = d
    BY DEF Sound, Alone
  <1>3. Writing' \subseteq Writing
    BY <1>1 DEF Writing
  <1>4. Alone'
    BY <1>2, <1>3 DEF Alone
  <1>5. StagedIsWhole'
    <2>1. SUFFICES ASSUME NEW c \in Installers \ {b}, c \in Writing
                   PROVE  /\ install'[c].step = "staging" =>
                               install'[c].todo \subseteq Payload(release'[c]) /\ staging' = Payload(release'[c]) \ install'[c].todo
                          /\ c \in Swapping' => staging' = Payload(release'[c])
      BY <1>1 DEF StagedIsWhole, Writing, Swapping
    <2>2. b \notin Writing
      BY <1>2, <2>1
    <2>3. QED
      BY <1>1, <2>1, <2>2 DEF Sound, StagedIsWhole, Swapping
  <1>6. PlaceIsReady'
    BY <1>1 DEF Sound, PlaceIsReady
  <1>7. HandPlacedIsKnown'
    BY <1>1 DEF Sound, HandPlacedIsKnown
  <1>8. InstalledIsWhole'
    <2>1. Swapping \subseteq Swapping' \cup {b}
      BY <1>1 DEF Swapping
    <2>2. Swapping # {} => Swapping' # {} \/ damaged'
      BY <2>1
    <2>3. QED
      BY <2>2 DEF Sound, InstalledIsWhole
  <1>9. QED
    BY <1>4, <1>5, <1>6, <1>7, <1>8

LEMMA LeftKeeps ==
  ASSUME Types, Sound, NEW b \in Installers, CleanUp(b) \/ StepFails(b) \/ BrokerDies(b)
  PROVE  Sound'
  <1>1. UNCHANGED <<release, dest, project, backup, relapsed>> /\ install[b].step # "idle"
    BY DEF CleanUp, StepFails, BrokerDies, Same, projectVars
  <1>2. /\ Only(b) /\ install[b] \in Records
        /\ install'[b] \in {[install[b] EXCEPT !.step = "cleaning"], Idle}
    BY Effects DEF Types
  <1>3. install'[b].step \in {"idle", "cleaning"}
    BY <1>2 DEF Records, Idle
  <1>4. damaged => damaged'
    BY DEF CleanUp, StepFails, BrokerDies
  <1>5. b \in Swapping => damaged'
    BY DEF CleanUp, StepFails, BrokerDies, Swapping
  <1>6. b \notin Writing => UNCHANGED staging
    BY DEF CleanUp, StepFails, BrokerDies, Writing
  <1>7. install'[b].step = "cleaning" => install'[b].forced = install[b].forced /\ b \in Writing
    <2>1. SUFFICES ASSUME install'[b].step = "cleaning"
                   PROVE  install'[b].forced = install[b].forced /\ b \in Writing
      OBVIOUS
    <2>2. install'[b] # Idle
      BY <2>1 DEF Idle
    <2>3. install'[b] = [install[b] EXCEPT !.step = "cleaning"]
      BY <1>2, <2>2
    <2>4. StepFails(b)
      BY <2>2, Effects
    <2>5. b \in Writing
      <3>1. CASE install[b].step \in {"staging", "removing", "renaming"}
        BY <3>1 DEF Writing
      <3>2. CASE install[b].step \notin {"staging", "removing", "renaming"}
        <4>1. install' = [install EXCEPT ![b] = Idle]
          BY <2>4, <3>2 DEF StepFails
        <4>2. QED
          BY <2>2, <4>1, Becomes, IdleIsTyped
      <3>3. QED
        BY <3>1, <3>2
    <2>6. QED
      BY <1>2, <2>3, <2>5 DEF Records
  <1>8. Alone' /\ StagedIsWhole' /\ PlaceIsReady' /\ HandPlacedIsKnown' /\ InstalledIsWhole'
    BY <1>1, <1>2, <1>3, <1>4, <1>5, <1>6, <1>7, LeavingKeeps
  <1>9. TextIsRead' /\ ProjectIsKept'
    BY <1>1, <1>2, <1>3 DEF Sound, TextIsRead, ProjectIsKept, Only
  <1>10. QED
    BY <1>8, <1>9 DEF Sound

\* The autoload leaves the place alone.
LEMMA ProjectKeeps ==
  ASSUME Types, Sound, NEW b \in Installers, ReadProject(b) \/ WriteBackup(b) \/ WithAutoload(b)
  PROVE  Sound'
  <1>1. /\ UNCHANGED <<release, dest, staging, damaged>>
        /\ install[b].step \in {"autoload", "saving", "entering"} /\ b \in Writing
    BY DEF ReadProject, WriteBackup, WithAutoload, Same, placeVars, Writing
  <1>2. Only(b) /\ install[b] \in Records
    BY Effects DEF Types
  <1>3. /\ \A c \in Installers \ {b} : install'[c] = install[c] /\ install[c].step \in {"idle", "fetching"}
        /\ Alone'
    BY <1>1, <1>2, Elsewhere DEF Sound
  <1>4. /\ install'[b].step \in {"idle", "saving", "entering"}
        /\ install'[b].step # "idle" => install'[b].forced = install[b].forced
    <2>1. CASE ReadProject(b)
      <3>1. install'[b] \in {[install[b] EXCEPT !.step = "saving", !.read = project], Idle}
        BY <2>1, Effects
      <3>2. QED
        BY <1>2, <3>1, IdleIsTyped DEF Records
    <2>2. CASE WriteBackup(b)
      BY <1>2, <2>2, Effects DEF Records
    <2>3. CASE WithAutoload(b)
      BY <2>3, Effects, IdleIsTyped
    <2>4. QED
      BY <2>1, <2>2, <2>3
  <1>5. Swapping = {} /\ Swapping' = {}
    BY <1>1, <1>3, <1>4 DEF Swapping
  <1>6. StagedIsWhole' /\ PlaceIsReady'
    BY <1>1, <1>3, <1>4, <1>5 DEF StagedIsWhole, PlaceIsReady
  <1>7. HandPlacedIsKnown'
    BY <1>1, <1>3, <1>4 DEF Sound, HandPlacedIsKnown
  <1>8. InstalledIsWhole'
    BY <1>1, <1>5 DEF Sound, InstalledIsWhole
  <1>9. TextIsRead' /\ ProjectIsKept'
    <2>1. CASE ReadProject(b)
      <3>1. CASE install' = [install EXCEPT ![b] = Idle] /\ UNCHANGED <<project, backup, relapsed>>
        <4>1. install'[b].step = "idle"
          BY <3>1, Becomes, IdleIsTyped
        <4>2. QED
          BY <1>3, <3>1, <4>1 DEF Sound, TextIsRead, ProjectIsKept
      <3>2. CASE /\ install' = [install EXCEPT ![b].step = "saving", ![b].read = project]
                 /\ relapsed' = (relapsed \/ ~project.user) /\ UNCHANGED project
        <4>1. install'[b].read = project
          BY <1>2, <3>2 DEF Types, Records
        <4>2. project.user \/ relapsed'
          BY <3>2
        <4>3. QED
          BY <1>3, <3>2, <4>1, <4>2 DEF TextIsRead, ProjectIsKept
      <3>3. QED
        BY <2>1, <3>1, <3>2 DEF ReadProject
    <2>2. CASE WriteBackup(b)
      <3>1. install'[b].read = install[b].read /\ install'[b].step = "entering"
        <4>1. install'[b] = [install[b] EXCEPT !.step = "entering"]
          BY <1>2, <2>2, Effects
        <4>2. install[b] \in Records
          BY <1>2 DEF Types
        <4>3. QED
          BY <4>1, <4>2 DEF Records
      <3>2. (install[b].read.user \/ relapsed) /\ backup' = install[b].read /\ UNCHANGED relapsed
        BY <2>2 DEF Sound, TextIsRead, WriteBackup
      <3>3. QED
        BY <1>3, <3>1, <3>2 DEF TextIsRead, ProjectIsKept
    <2>3. CASE WithAutoload(b)
      <3>1. install'[b].step = "idle"
        BY <2>3, Effects, IdleIsTyped
      <3>2. (install[b].read.user \/ relapsed) /\ UNCHANGED relapsed /\ project' = [install[b].read EXCEPT !.auto = TRUE]
        BY <2>3 DEF Sound, TextIsRead, WithAutoload
      <3>3. project'.user = install[b].read.user
        BY <1>2, <3>2 DEF Records, Texts
      <3>4. QED
        BY <1>3, <3>1, <3>2, <3>3 DEF TextIsRead, ProjectIsKept
    <2>4. QED
      BY <2>1, <2>2, <2>3
  <1>10. QED
    BY <1>3, <1>6, <1>7, <1>8, <1>9 DEF Sound

----------------------------------------------------------------------------

LEMMA StepInstalls == InstallsInv /\ [InstallsNext]_installVars => InstallsInv'
  <1> SUFFICES ASSUME InstallsInv, [InstallsNext]_installVars PROVE InstallsInv'
    OBVIOUS
  <1>1. CASE UNCHANGED installVars
    BY <1>1 DEF installVars, placeVars, projectVars, InstallsInv, Types, Sound, Alone, StagedIsWhole, PlaceIsReady,
               HandPlacedIsKnown, TextIsRead, InstalledIsWhole, ProjectIsKept, Writing, Swapping
  <1>2. CASE InstallsNext
    <2>1. Types /\ Types'
      BY <1>2, TypesKept DEF InstallsInv
    <2>2. PICK b \in Installers :
            \/ InstallAsked(b) \/ Fetched(b) \/ WriteStaged(b) \/ RemoveOld(b) \/ SwapIn(b) \/ CleanUp(b)
            \/ WriteMarker(b) \/ ReadProject(b) \/ WriteBackup(b) \/ WithAutoload(b)
            \/ StepFails(b) \/ BrokerDies(b)
      BY <1>2 DEF InstallsNext
    <2>3. overlapped => overlapped'
      BY <2>2 DEF InstallAsked, Fetched, WriteStaged, RemoveOld, SwapIn, CleanUp, WriteMarker, ReadProject, WriteBackup,
                  WithAutoload, StepFails, BrokerDies, Same
    <2>4. CASE overlapped'
      BY <2>1, <2>4 DEF InstallsInv
    <2>5. CASE ~overlapped'
      <3>1. Sound
        BY <2>3, <2>5 DEF InstallsInv
      <3>2. Sound'
        BY <2>1, <2>2, <2>5, <3>1, AskedKeeps, FetchedKeeps, StagedKeeps, RemovedKeeps, SwappedKeeps, MarkedKeeps,
           LeftKeeps, ProjectKeeps
      <3>3. QED
        BY <2>1, <3>2 DEF InstallsInv
    <2>6. QED
      BY <2>4, <2>5
  <1>3. QED
    BY <1>1, <1>2

----------------------------------------------------------------------------
(* A session: the groups of tools run apart. *)

SessionInv == SettingsInv /\ FilesInv /\ ChecksInv /\ InstallsInv

LEMMA SessionStarts == Init => SessionInv
  BY SettingsStart, FilesStart, ChecksStart, InitInstalls DEF Init, SessionInv

LEMMA SessionRuns == SessionInv /\ [Next]_vars => SessionInv'
<1>1. [Next]_vars => [SettingsNext]_settingsVars /\ [FilesNext]_fileVars /\ [ChecksNext]_checkVars /\ [InstallsNext]_installVars
  BY DEF Next, vars
<1> QED BY <1>1, SettingsStep, FilesStep, ChecksStep, StepInstalls DEF SessionInv

\* The scene behaves in a session as it does alone, so what EditedScene_proofs
\* shows of it holds there.
THEOREM SceneRunsAlone == Spec => SceneSpec
<1>1. [Next]_vars => [SceneNext]_sceneVars
  BY DEF Next, vars
<1>2. Init => SceneInit
  BY DEF Init
<1> QED BY <1>1, <1>2, PTL DEF Spec, SceneSpec

\* Whatever the tools write, fail to save and save later, what a tool answered of a
\* setting is in memory and in project.godot until a call about the same setting:
\* each save writes the whole of memory, and a tool changes only its own part of it.
THEOREM AnswersSurvive == Spec => []AnswersAreKept
<1>1. SessionInv => AnswersAreKept
  BY DEF SessionInv, SettingsInv
<1> QED BY SessionStarts, SessionRuns, <1>1, PTL DEF Spec

\* A tool that waited for the scan it started answers once the editor has seen its
\* change, and a moved file is known under the uid it had: the scan that starts with
\* the call has every path before it, so the change is seen or still to be read.
THEOREM AnswersAreSeen == Spec => []MovedIsKnown
<1>1. SessionInv => MovedIsKnown
  BY FilesAreKnown DEF SessionInv
<1> QED BY SessionStarts, SessionRuns, <1>1, PTL DEF Spec

\* Nothing broken is called valid, although only the tail of a child's output is
\* read (the diagnostic follows the marker that is looked for), and a call that has
\* answered has no scratch file.
THEOREM VerdictsHold == Spec => []ChecksAreSound
<1>1. SessionInv => ChecksAreSound
  BY DEF SessionInv, ChecksInv
<1> QED BY SessionStarts, SessionRuns, <1>1, PTL DEF Spec

\* Whoever dies or fails at whatever step of an install, what is in the place is one
\* whole release or is known not to be, a copy put there by hand is replaced only if
\* that was forced, and the user's project.godot survives; for any number of brokers.
THEOREM InstallsSurvive == Spec => []InstallsAreWhole
<1>1. SessionInv => InstallsAreWhole
  <2>1. Sound => HandPlacedIsSpared
    BY DEF Sound, HandPlacedIsKnown, HandPlacedIsSpared, Writing
  <2> QED BY <2>1 DEF SessionInv, InstallsInv, InstallsAreWhole, Sound
<1> QED BY SessionStarts, SessionRuns, <1>1, PTL DEF Spec
=============================================================================
