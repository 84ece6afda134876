--------------------------- MODULE SettingsProofs ---------------------------
(***************************************************************************)
(* The migration of llm-stack.env is a rename, for any file.  It writes    *)
(* the canonical names of the older spellings that are there, each with    *)
(* what is read for it, and drops those spellings; what is read before and *)
(* after is compared reading by reading, in the order of the code.  A bare *)
(* CHAT key that goes with them is one slot A has of its own, so that its  *)
(* fallback is not asked.                                                  *)
(*                                                                         *)
(* Files are built line after line by recursive functions; what holds of   *)
(* every such file is proved by its first line that would break it.        *)
(***************************************************************************)
EXTENDS Settings, FiniteSetTheorems, WellFoundedInduction, TLAPS

\* Every set of numbers has a least one.
LEMMA LeastOfSome ==
  ASSUME NEW T \in SUBSET Nat, T # {} PROVE \E m \in T : \A k \in T : m <= k
<1>1. PICK m \in T : \A k \in T : ~(<<k, m>> \in OpToRel(<, Nat))
  BY WFMin, NatLessThanWellFounded
<1>2. \A k, h \in Nat : k < h => <<k, h>> \in OpToRel(<, Nat) BY DEF OpToRel
<1>3. \A k \in T : ~(k < m)
  <2> SUFFICES ASSUME NEW k \in T PROVE ~(k < m) OBVIOUS
  <2>1. k \in Nat /\ m \in Nat BY <1>1
  <2> QED BY <2>1, <1>1, <1>2, Zenon
<1> QED BY <1>3

------------------------------------------------------------------------------
(* The names of settings *)

SlotNames == {"LLM_A", "LLM_B"}
OldNames == {"CHAT_DENSE", "CHAT_PRIMARY", "CHAT2", "CHAT"}

\* An older name is one of its canonical name's spellings; a canonical name has no other.
LEMMA CanonicalNames ==
  ASSUME NEW key, IsKey(key)
  PROVE  /\ IsKey(Canonical(key))
         /\ Canonical(key) # key => /\ Canonical(key)[1] \in SlotNames /\ key[1] \in OldNames \ {"CHAT"}
                                    /\ key \in Spellings(Canonical(key))
         /\ Canonical(Canonical(key)) = Canonical(key)
<1>0. key = <<key[1], key[2]>> BY DEF IsKey
<1>1. CASE \E e \in LegacyMap : e.old = key
  <2>1. Canonical(key) = (CHOOSE e \in LegacyMap : e.old = key).new BY <1>1 DEF Canonical
  <2>2. PICK e \in LegacyMap : e.old = key /\ Canonical(key) = e.new BY <1>1, <2>1
  <2>3. e.new \in {<<"LLM_A", "ctx">>, <<"LLM_A", "gpu">>} /\ e.old[1] \in {"CHAT_DENSE", "CHAT_PRIMARY"}
    BY <2>2 DEF LegacyMap, LegacyOrder
  <2>4. IsKey(e.new) BY <2>3 DEF IsKey
  <2>5. key \in Spellings(Canonical(key)) BY <2>2 DEF Spellings, DeclaredSpellings
  <2>6. Canonical(e.new) = e.new
    <3>1. \A o \in LegacyMap : o.old # e.new BY <2>3 DEF LegacyMap, LegacyOrder
    <3>2. e.new[1] \notin DOMAIN RenamedSlot BY <2>3 DEF RenamedSlot
    <3> QED BY <3>1, <3>2 DEF Canonical
  <2> QED BY <2>2, <2>3, <2>4, <2>5, <2>6 DEF SlotNames, OldNames
<1>2. CASE (\A e \in LegacyMap : e.old # key) /\ key \notin Exempt /\ key[1] \in DOMAIN RenamedSlot
  <2> DEFINE c == <<RenamedSlot[key[1]], key[2]>>
  <2>1. Canonical(key) = c BY <1>2 DEF Canonical
  <2>2. key[1] \in {"CHAT_PRIMARY", "CHAT2"} /\ RenamedSlot[key[1]] \in SlotNames BY <1>2 DEF RenamedSlot, SlotNames
  <2>3. IsKey(c) /\ c[1] = RenamedSlot[key[1]] /\ c[2] = key[2] BY DEF IsKey
  <2>4. key[1] \in OldPrefixes(c[1]) BY <1>2, <2>3 DEF OldPrefixes
  <2>5. key \in Spellings(c) BY <1>0, <1>2, <2>3, <2>4 DEF Spellings
  <2>6. Canonical(c) = c
    <3>1. \A e \in LegacyMap : e.old # c BY <2>2, <2>3 DEF LegacyMap, LegacyOrder, SlotNames
    <3>2. c[1] \notin DOMAIN RenamedSlot BY <2>2, <2>3 DEF RenamedSlot, SlotNames
    <3> QED BY <3>1, <3>2 DEF Canonical
  <2> QED BY <2>1, <2>2, <2>3, <2>5, <2>6 DEF SlotNames, OldNames
<1>3. CASE (\A e \in LegacyMap : e.old # key) /\ ~(key \notin Exempt /\ key[1] \in DOMAIN RenamedSlot)
  <2>1. Canonical(key) = key BY <1>3 DEF Canonical
  <2> QED BY <2>1
<1> QED BY <1>1, <1>2, <1>3

\* Only a slot's keys have older spellings, and a bare one is of slot A's key of the same suffix.
LEMMA OldSpellings ==
  ASSUME NEW key, IsKey(key), NEW old \in Spellings(key)
  PROVE  old[1] \in OldNames /\ (old[1] = "CHAT" => key = <<"LLM_A", old[2]>>)
<1>0. key = <<key[1], key[2]>> BY DEF IsKey
<1>1. CASE old \in DeclaredSpellings(key)
  <2>1. PICK e \in LegacyMap : old = e.old BY <1>1 DEF DeclaredSpellings
  <2> QED BY <2>1 DEF LegacyMap, LegacyOrder, OldNames
<1>2. CASE old \notin DeclaredSpellings(key)
  <2>1. PICK p \in OldPrefixes(key[1]) : old = <<p, key[2]>> BY <1>2 DEF Spellings
  <2>2. p \in {"CHAT_PRIMARY", "CHAT2", "CHAT"} BY DEF OldPrefixes, RenamedSlot, ShadowedSlot
  <2>3. p = "CHAT" => key[1] = "LLM_A" BY DEF OldPrefixes, RenamedSlot, ShadowedSlot
  <2>4. old[1] = p /\ old[2] = key[2] BY <2>1
  <2> QED BY <1>0, <2>2, <2>3, <2>4 DEF OldNames
<1> QED BY <1>1, <1>2
------------------------------------------------------------------------------
(* What is read of a file *)

\* Two readings agree on a key.
Same(a, b, key) == (key \in DOMAIN a <=> key \in DOMAIN b) /\ (key \in DOMAIN b => a[key] = b[key])

\* Of two lists of settings the first one wins.
LEMMA WithKeeps ==
  ASSUME NEW read, NEW more
  PROVE  /\ DOMAIN With(read, more) = DOMAIN read \union DOMAIN more
         /\ \A k \in DOMAIN read : With(read, more)[k] = read[k]
         /\ \A k \in DOMAIN more \ DOMAIN read : With(read, more)[k] = more[k]
         /\ \A k : k \notin DOMAIN more => Same(With(read, more), read, k)
BY DEF With, Same

\* A default is only taken by a key that is not there.
LEMMA DefaultKeeps ==
  ASSUME NEW read, NEW key, NEW value
  PROVE  /\ \A k : k # key => Same(Default(read, key, value), read, k)
         /\ key \in DOMAIN read => Same(Default(read, key, value), read, key)
         /\ key \in DOMAIN Default(read, key, value)
         /\ key \notin DOMAIN read => Default(read, key, value)[key] = value
<1>1. DOMAIN [k \in {key} |-> value] = {key} OBVIOUS
<1> QED BY <1>1, WithKeeps DEF Default, Same, With

\* The last readings leave the slots and the personas alone.
LEMMA LastReadings ==
  ASSUME NEW file, NEW k, k[1] \in {"LLM_A", "LLM_B", "THINK", "NOTHINK"}
  PROVE  Same(Read(file), Personas(SharedDefaults(SlotA(Implied(Renamed(file))))), k)
<1> DEFINE a == Personas(SharedDefaults(SlotA(Implied(Renamed(file)))))
           b == TaskCache(a)
           c == Ocr(b)
           d == ServiceDefaults(c)
           e == ApiDefaults(d)
           g == EngineNames(e)
<1>1. Read(file) = Asr(g) BY DEF Read
<1> HIDE DEF a, b, c, d, e, g
<1>2. k # <<"TASK", "cache">> /\ k # <<"OCR", "gpu">> /\ k # <<"GLMOCR", "workers">> /\ k # <<"LLM_API", "port">>
      /\ k # <<"ASR", "gpu">> /\ k \notin EngineModels
  BY DEF EngineModels
<1>3. Same(b, a, k) BY <1>2, DefaultKeeps DEF b, TaskCache
<1>4. Same(c, b, k) BY <1>2, DefaultKeeps DEF c, Ocr
<1>5. Same(d, c, k) BY <1>2, DefaultKeeps DEF d, ServiceDefaults
<1>6. Same(e, d, k) BY <1>2, DefaultKeeps DEF e, ApiDefaults
<1>7. Same(g, e, k) BY <1>2 DEF g, EngineNames, Same
<1>8. Same(Asr(g), g, k) BY <1>2, DefaultKeeps DEF Asr
<1>9. Same(Asr(g), a, k) BY <1>3, <1>4, <1>5, <1>6, <1>7, <1>8 DEF Same
<1> QED BY <1>1, <1>9 DEF a

\* The canonical names of what a file has.
Meant(file) == {Canonical(k) : k \in DOMAIN file}

\* The first readings take in the canonical names of what is there, and change nothing that is.
LEMMA FirstReadings ==
  ASSUME NEW file, IsFile(file)
  PROVE  /\ DOMAIN Implied(Renamed(file)) = DOMAIN file \union Meant(file)
         /\ \A k \in DOMAIN file : Implied(Renamed(file))[k] = file[k]
<1> DEFINE r == Renamed(file)
           new == {e.new : e \in {e \in LegacyMap : e.old \in DOMAIN file}}
<1>1. DOMAIN r = DOMAIN file \union new /\ \A k \in DOMAIN file : r[k] = file[k] BY WithKeeps DEF Renamed
<1>2. \A e \in LegacyMap : Canonical(e.old) = e.new
  <2> TAKE e \in LegacyMap
  <2>1. \A o \in LegacyMap : o.old = e.old => o = e BY DEF LegacyMap, LegacyOrder
  <2> QED BY <2>1 DEF Canonical
<1>3. new \subseteq Meant(file) BY <1>2 DEF Meant
<1>4. \A k \in DOMAIN file : Canonical(Canonical(k)) = Canonical(k) BY CanonicalNames DEF IsFile
<1>5. {Canonical(k) : k \in DOMAIN r} = Meant(file) BY <1>1, <1>3, <1>4 DEF Meant
<1> HIDE DEF r, new
<1>6. DOMAIN Implied(r) = DOMAIN r \union Meant(file) /\ \A k \in DOMAIN r : Implied(r)[k] = r[k]
  BY <1>5, WithKeeps DEF Implied
<1> QED BY <1>1, <1>3, <1>6 DEF r
------------------------------------------------------------------------------
(* What is written to a file *)

\* A finite set is listed without repetition, all of it.
LEMMA SetListed ==
  ASSUME NEW S, IsFiniteSet(S)
  PROVE  LET s == SetToSeq(S)
         IN  /\ s \in [1..Cardinality(S) -> S] /\ Cardinality(S) \in Nat
             /\ \A x \in S : \E i \in 1..Cardinality(S) : s[i] = x
<1> DEFINE n == Cardinality(S)
           s == SetToSeq(S)
<1>1. n \in Nat BY FS_CardinalityType
<1>2. IsFiniteSet(1..n) /\ Cardinality(1..n) = n BY <1>1, FS_Interval
<1>3. ExistsBijection(1..n, S) BY <1>2, FS_SameCardinalityBij
<1>4. \E f \in [1..n -> S] : IsInjective(f) BY <1>3 DEF ExistsBijection, Bijection, Injection
<1>5. s \in [1..n -> S] /\ IsInjective(s) BY <1>4 DEF SetToSeq
<1> HIDE DEF s
<1>6. s \in Injection(1..n, S) BY <1>5 DEF Injection
<1>7. s \in Surjection(1..n, S) BY <1>2, <1>6, FS_Injection
<1>8. \A x \in S : \E i \in 1..n : s[i] = x BY <1>7 DEF Surjection
<1> QED BY <1>1, <1>5, <1>8 DEF s

\* g: the files written, line after line.
Written(file, updates, order, n, g) ==
  g = [i \in 0..n |->
         IF i = 0 THEN file
         ELSE IF IsDue(order, updates, i) THEN Put(g[i - 1], order[i], updates[order[i]])
         ELSE g[i - 1]]

\* There are such files, for any number of lines.
LEMMA WrittenExists ==
  ASSUME NEW file, NEW updates, NEW order, NEW n \in Nat
  PROVE  \E g : Written(file, updates, order, n, g)
<1> DEFINE T == {k \in Nat : ~\E g : Written(file, updates, order, k, g)}
           Next1(before, i) ==
             IF IsDue(order, updates, i)
             THEN Put(before, order[i], updates[order[i]]) ELSE before
<1>1. SUFFICES ASSUME T # {} PROVE FALSE OBVIOUS
<1>2. PICK m \in T : \A k \in T : m <= k BY <1>1, LeastOfSome
<1>3. CASE m = 0
  <2>1. Written(file, updates, order, 0, [i \in 0..0 |-> file]) BY DEF Written
  <2> QED BY <2>1, <1>2, <1>3
<1>4. CASE m # 0
  <2>1. m - 1 \in Nat /\ m - 1 \notin T BY <1>2, <1>4
  <2>2. PICK h : Written(file, updates, order, m - 1, h) BY <2>1
  <2> DEFINE g == [i \in 0..m |-> IF i = m THEN Next1(h[m - 1], m) ELSE h[i]]
  <2>3. \A i \in 0..(m - 1) : h[i] = IF i = 0 THEN file ELSE Next1(h[i - 1], i) BY <2>2 DEF Written
  <2> HIDE DEF Next1
  <2>4. \A i \in 0..m : g[i] = IF i = 0 THEN file ELSE Next1(g[i - 1], i) BY <2>3, <1>4
  <2>5. g = [i \in 0..m |-> IF i = 0 THEN file ELSE Next1(g[i - 1], i)] BY <2>4
  <2> HIDE DEF g
  <2>6. Written(file, updates, order, m, g) BY <2>5 DEF Written, Next1
  <2> QED BY <2>6, <1>2
<1> QED BY <1>3, <1>4

\* The file that is written is the last of the files written line after line.
LEMMA LastWritten ==
  ASSUME NEW file, NEW updates, NEW keys, NEW order,
         order = InOrder(updates, keys), Len(order) \in Nat
  PROVE  \E g : /\ WriteEnv(file, updates, keys) = g[Len(order)]
                /\ g[0] = file
                /\ \A i \in 1..Len(order) :
                     g[i] = IF IsDue(order, updates, i)
                            THEN Put(g[i - 1], order[i], updates[order[i]]) ELSE g[i - 1]
<1> DEFINE g == CHOOSE g : Written(file, updates, order, Len(order), g)
<1>1. Written(file, updates, order, Len(order), g) BY WrittenExists
<1>2. WriteEnv(file, updates, keys) = g[Len(order)] BY DEF WriteEnv, Written
<1> HIDE DEF g
<1>3. \A i \in 0..Len(order) : g[i] = IF i = 0 THEN file
        ELSE IF IsDue(order, updates, i)
             THEN Put(g[i - 1], order[i], updates[order[i]]) ELSE g[i - 1]
  BY <1>1 DEF Written
<1>a. 0 \in 0..Len(order) OBVIOUS
<1>4. g[0] = file BY <1>3, <1>a
<1>5. \A i \in 1..Len(order) : i \in 0..Len(order) /\ i # 0 OBVIOUS
<1>6. \A i \in 1..Len(order) :
        g[i] = IF IsDue(order, updates, i)
               THEN Put(g[i - 1], order[i], updates[order[i]]) ELSE g[i - 1]
  BY <1>3, <1>5
<1> QED BY <1>2, <1>4, <1>6
\* f is the file with the key's line written, and those of its older spellings gone.
IsPut(f, file, key, value) ==
  /\ DOMAIN f = (DOMAIN file \ Spellings(key)) \union {key}
  /\ f[key] = value
  /\ \A k \in DOMAIN f : k # key => f[k] = file[k]

\* That is what writing one key does.
LEMMA PutIs ==
  ASSUME NEW file, NEW key, NEW value
  PROVE  IsPut(Put(file, key, value), file, key, value)
<1> DEFINE rest == Restrict(file, DOMAIN file \ Spellings(key))
           one == [k \in {key} |-> value]
           f == Put(file, key, value)
<1>1. DOMAIN rest = DOMAIN file \ Spellings(key) /\ \A k \in DOMAIN rest : rest[k] = file[k] BY DEF Restrict
<1>2. DOMAIN one = {key} /\ one[key] = value OBVIOUS
<1>3. f = With(one, rest) BY DEF Put, Set
<1> HIDE DEF rest, one, f
<1>4. IsPut(f, file, key, value) BY <1>1, <1>2, <1>3 DEF With, IsPut
<1> QED BY <1>4 DEF f

LEMMA PutIsAFile ==
  ASSUME NEW file, IsFile(file), NEW key, IsKey(key), NEW value
  PROVE  IsFile(Put(file, key, value))
<1>0. PICK f : f = Put(file, key, value) OBVIOUS
<1>1. DOMAIN f = (DOMAIN file \ Spellings(key)) \union {key} BY <1>0, PutIs DEF IsPut
<1>2. IsFiniteSet(DOMAIN file \ Spellings(key)) BY FS_Subset DEF IsFile
<1>3. IsFiniteSet(DOMAIN f) BY <1>1, <1>2, FS_AddElement
<1>4. \A k \in DOMAIN f : IsKey(k) BY <1>1 DEF IsFile
<1>5. IsFile(f) BY <1>1, <1>3, <1>4 DEF IsFile
<1> QED BY <1>0, <1>5

\* Writing settings leaves a file.
LEMMA WriteLeavesAFile ==
  ASSUME NEW file, IsFile(file), NEW updates, IsFile(updates), NEW S, NEW keys \in Seq(S)
  PROVE  IsFile(WriteEnv(file, updates, keys))
<1> DEFINE rest == DOMAIN updates \ {keys[i] : i \in DOMAIN keys}
           order == InOrder(updates, keys)
<1>1. IsFiniteSet(rest) BY FS_Subset DEF IsFile
<1>2. SetToSeq(rest) \in [1..Cardinality(rest) -> rest] /\ Cardinality(rest) \in Nat BY <1>1, SetListed
<1>3. SetToSeq(rest) \in Seq(rest)
  <2>1. \A A : \A n \in Nat : \A q \in [1..n -> A] : q \in Seq(A) OBVIOUS
  <2> QED BY <1>2, <2>1
<1>4. Len(order) \in Nat
  <2>1. order = keys \o SetToSeq(rest) BY DEF InOrder
  <2>2. \A A, B : \A q \in Seq(A), s \in Seq(B) : Len(q \o s) \in Nat OBVIOUS
  <2> HIDE DEF rest, order
  <2> QED BY <1>3, <2>1, <2>2
<1>5. order = InOrder(updates, keys) OBVIOUS
<1> HIDE DEF order, rest
<1>6. PICK g : /\ WriteEnv(file, updates, keys) = g[Len(order)]
               /\ g[0] = file
               /\ \A i \in 1..Len(order) :
                    g[i] = IF IsDue(order, updates, i)
                           THEN Put(g[i - 1], order[i], updates[order[i]]) ELSE g[i - 1]
  BY <1>4, <1>5, LastWritten
<1> DEFINE T == {i \in 0..Len(order) : ~IsFile(g[i])}
<1>7. T = {}
  <2> SUFFICES ASSUME T # {} PROVE FALSE OBVIOUS
  <2>1. T \in SUBSET Nat BY <1>4
  <2>2. PICK m \in T : \A k \in T : m <= k BY <2>1, LeastOfSome
  <2>3. m # 0 BY <1>6, <2>2
  <2>4. m \in 1..Len(order) /\ m - 1 \in 0..Len(order) /\ m - 1 \notin T BY <1>4, <2>2, <2>3
  <2>5. IsFile(g[m - 1]) BY <2>4
  <2>6. g[m] = g[m - 1] \/ (order[m] \in DOMAIN updates /\ g[m] = Put(g[m - 1], order[m], updates[order[m]]))
    BY <1>6, <2>4 DEF IsDue
  <2>7. order[m] \in DOMAIN updates => IsKey(order[m]) BY DEF IsFile
  <2>8. IsFile(g[m]) BY <2>5, <2>6, <2>7, PutIsAFile
  <2> QED BY <2>2, <2>8
<1>8. Len(order) \in 0..Len(order) BY <1>4
<1> QED BY <1>6, <1>7, <1>8

Gone(keys) == UNION {Spellings(c) : c \in keys}

\* f is the file with these keys written to it, and no older spelling of them left.
IsWritten(f, file, updates, keys) ==
  /\ DOMAIN f = keys \union (DOMAIN file \ Gone(keys))
  /\ \A k \in DOMAIN f : f[k] = IF k \in keys THEN updates[k] ELSE file[k]

\* What a file is after the canonical names of updates, none of them an older spelling, are written.
LEMMA WriteOfCanonical ==
  ASSUME NEW file, NEW updates, IsFiniteSet(DOMAIN updates),
         \A c, d \in DOMAIN updates : c \notin Spellings(d)
  PROVE  IsWritten(WriteEnv(file, updates, <<>>), file, updates, DOMAIN updates)
<1> DEFINE D == DOMAIN updates
           n == Cardinality(D)
           order == SetToSeq(D)
           W(i) == {order[j] : j \in 1..i}
           Is(f, C) == IsWritten(f, file, updates, C)
<1>1. order \in [1..n -> D] /\ n \in Nat /\ \A x \in D : \E i \in 1..n : order[i] = x BY SetListed
<1>2. Len(order) = n /\ order \in Seq(D) BY <1>1
<1>3. order = InOrder(updates, <<>>)
  <2>0. DOMAIN <<>> = {} OBVIOUS
  <2>1. DOMAIN updates \ {<<>>[i] : i \in DOMAIN <<>>} = D BY <2>0
  <2>2. \A A : \A q \in Seq(A) : <<>> \o q = q OBVIOUS
  <2>3. <<>> \o order = order BY <1>2, <2>2
  <2> QED BY <2>1, <2>3 DEF InOrder
<1> HIDE DEF order, n
<1>4. PICK g : /\ WriteEnv(file, updates, <<>>) = g[Len(order)]
               /\ g[0] = file
               /\ \A i \in 1..Len(order) :
                    g[i] = IF IsDue(order, updates, i)
                           THEN Put(g[i - 1], order[i], updates[order[i]]) ELSE g[i - 1]
  <2>1. Len(order) \in Nat BY <1>1, <1>2
  <2> QED BY <1>3, <2>1, LastWritten
<1> DEFINE T == {i \in 0..n : ~Is(g[i], W(i))}
<1>5. T = {}
  <2> SUFFICES ASSUME T # {} PROVE FALSE OBVIOUS
  <2>1. T \in SUBSET Nat BY <1>1
  <2>2. PICK m \in T : \A k \in T : m <= k BY <2>1, LeastOfSome
  <2>3. m # 0
    <3>1. W(0) = {} OBVIOUS
    <3>2. Is(g[0], W(0)) BY <1>4, <3>1 DEF IsWritten, Gone
    <3> QED BY <2>2, <3>2
  <2>a. m \in 0..n BY <2>2
  <2>b. m \in 1..n /\ m - 1 \in 0..n /\ ~(m <= m - 1) BY <1>1, <2>a, <2>3
  <2>4. m \in 1..n /\ m - 1 \in 0..n /\ m - 1 \notin T BY <2>2, <2>b
  <2>5. Is(g[m - 1], W(m - 1)) BY <2>4
  <2>6. order[m] \in D BY <1>1, <2>4
  <2>7. W(m) = W(m - 1) \union {order[m]}
    <3>1. \A j \in 1..m : j \in 1..(m - 1) \/ j = m BY <2>4
    <3>2. \A j \in 1..(m - 1) : j \in 1..m BY <2>4
    <3>3. m \in 1..m BY <2>4
    <3> QED BY <3>1, <3>2, <3>3
  <2>8. W(m - 1) \subseteq D
    <3>1. \A j \in 1..(m - 1) : j \in 1..n BY <1>1, <2>4
    <3> QED BY <1>1, <3>1
  <2>9. CASE order[m] \in W(m - 1)
    <3>1. W(m) = W(m - 1) BY <2>7, <2>9
    <3>2. g[m] = g[m - 1] BY <1>2, <1>4, <2>4, <2>9 DEF IsDue
    <3> HIDE DEF W, Is
    <3> QED BY <2>2, <2>5, <3>1, <3>2
  <2>10. CASE order[m] \notin W(m - 1)
    <3> DEFINE c == order[m]
               before == g[m - 1]
               V == W(m - 1)
    <3>1. g[m] = Put(before, c, updates[c]) BY <1>2, <1>4, <2>4, <2>6, <2>10 DEF IsDue
    <3>2. Is(before, V) /\ V \subseteq D /\ c \in D /\ W(m) = V \union {c} BY <2>5, <2>6, <2>7, <2>8
    <3> HIDE DEF c, before, V, W, T
    <3>3. /\ DOMAIN g[m] = (DOMAIN before \ Spellings(c)) \union {c}
          /\ g[m][c] = updates[c] /\ \A k \in DOMAIN g[m] : k # c => g[m][k] = before[k]
      <4>1. IsPut(g[m], before, c, updates[c]) BY <3>1, PutIs
      <4> QED BY <4>1 DEF IsPut
    <3>4. V \intersect Spellings(c) = {} BY <3>2
    <3>5. Gone(V \union {c}) = Gone(V) \union Spellings(c) BY DEF Gone
    <3>6. Is(g[m], V \union {c}) BY <3>2, <3>3, <3>4, <3>5 DEF IsWritten
    <3>7. m \notin T BY <3>2, <3>6 DEF T
    <3> QED BY <2>2, <3>7
  <2> QED BY <2>9, <2>10
<1>6. n \in 0..n BY <1>1
<1>7. W(n) = D BY <1>1
<1>8. Is(g[n], D) BY <1>5, <1>6, <1>7
<1> QED BY <1>2, <1>4, <1>8

------------------------------------------------------------------------------
(* What a save writes *)

\* One key of a request is taken, or left for a spelling of it that counts more.
Takes(before, x) ==
  IF Canonical(x.key) \in DOMAIN before /\ Canonical(x.key) # x.key THEN before
  ELSE Set(before, Canonical(x.key), x.value)
Taken(payload, n, g) == g = [i \in 0..n |-> IF i = 0 THEN <<>> ELSE Takes(g[i - 1], payload[i])]

\* There are such readings, for any number of keys.
LEMMA TakenExists ==
  ASSUME NEW payload, NEW n \in Nat
  PROVE  \E g : Taken(payload, n, g)
<1> DEFINE T == {k \in Nat : ~\E g : Taken(payload, k, g)}
<1>1. SUFFICES ASSUME T # {} PROVE FALSE OBVIOUS
<1>2. PICK m \in T : \A k \in T : m <= k BY <1>1, LeastOfSome
<1>3. CASE m = 0
  <2>1. Taken(payload, 0, [i \in 0..0 |-> <<>>]) BY DEF Taken
  <2> QED BY <2>1, <1>2, <1>3
<1>4. CASE m # 0
  <2>1. m - 1 \in Nat /\ m - 1 \notin T BY <1>2, <1>4
  <2>2. PICK h : Taken(payload, m - 1, h) BY <2>1
  <2> DEFINE g == [i \in 0..m |-> IF i = m THEN Takes(h[m - 1], payload[m]) ELSE h[i]]
  <2>3. \A i \in 0..(m - 1) : h[i] = IF i = 0 THEN <<>> ELSE Takes(h[i - 1], payload[i]) BY <2>2 DEF Taken
  <2>4. \A i \in 0..m : g[i] = IF i = 0 THEN <<>> ELSE Takes(g[i - 1], payload[i]) BY <2>3, <1>4
  <2>5. g = [i \in 0..m |-> IF i = 0 THEN <<>> ELSE Takes(g[i - 1], payload[i])] BY <2>4
  <2> HIDE DEF g
  <2>6. Taken(payload, m, g) BY <2>5 DEF Taken
  <2> QED BY <2>6, <1>2
<1> QED BY <1>3, <1>4

\* What a request is normalised to is keys and values.
LEMMA NormalizedIsAFile ==
  ASSUME NEW payload, Len(payload) \in Nat, \A i \in 1..Len(payload) : IsKey(payload[i].key)
  PROVE  IsFile(Normalized(payload))
<1> DEFINE n == Len(payload)
           g == CHOOSE g : Taken(payload, n, g)
<1>1. Taken(payload, n, g) BY TakenExists
<1>2. Normalized(payload) = g[n] BY DEF Normalized, Taken, Takes
<1> HIDE DEF g
<1>3. \A i \in 0..n : g[i] = IF i = 0 THEN <<>> ELSE Takes(g[i - 1], payload[i]) BY <1>1 DEF Taken
<1> DEFINE T == {i \in 0..n : ~IsFile(g[i])}
<1>4. T = {}
  <2> SUFFICES ASSUME T # {} PROVE FALSE OBVIOUS
  <2>1. T \in SUBSET Nat OBVIOUS
  <2>2. PICK m \in T : \A k \in T : m <= k BY <2>1, LeastOfSome
  <2>3. CASE m = 0
    <3>1. g[0] = <<>> BY <1>3
    <3>2. DOMAIN <<>> = {} OBVIOUS
    <3>3. IsFile(<<>>) BY <3>2, FS_EmptySet DEF IsFile
    <3> QED BY <2>2, <2>3, <3>1, <3>3
  <2>4. CASE m # 0
    <3>1. m \in 0..n /\ m \in 1..n /\ m - 1 \in 0..n /\ ~(m <= m - 1) BY <2>2, <2>4
    <3>2. IsFile(g[m - 1]) BY <2>2, <3>1
    <3>3. g[m] = Takes(g[m - 1], payload[m]) BY <1>3, <3>1, <2>4
    <3>4. CASE g[m] = g[m - 1]
      BY <2>2, <3>2, <3>4
    <3>5. CASE g[m] = Set(g[m - 1], Canonical(payload[m].key), payload[m].value)
      <4> DEFINE c == Canonical(payload[m].key)
      <4>1. IsKey(c) BY <3>1, CanonicalNames
      <4>2. DOMAIN g[m] = DOMAIN g[m - 1] \union {c} BY <3>5 DEF Set, With
      <4> HIDE DEF c
      <4>a. IsFiniteSet(DOMAIN g[m - 1]) BY <3>2 DEF IsFile
      <4>b. IsFiniteSet((DOMAIN g[m - 1]) \union {c}) BY <4>a, FS_AddElement
      <4>3. IsFiniteSet(DOMAIN g[m]) BY <4>2, <4>b
      <4>4. IsFile(g[m]) BY <3>2, <4>1, <4>2, <4>3 DEF IsFile
      <4> QED BY <2>2, <4>4
    <3> QED BY <3>3, <3>4, <3>5 DEF Takes
  <2> QED BY <2>3, <2>4
<1>5. n \in 0..n OBVIOUS
<1> QED BY <1>2, <1>4, <1>5

\* A save leaves a file with finitely many keys, each once.
LEMMA SaveLeavesAFile ==
  ASSUME IsFile(env), NEW payload \in Payloads, Save(payload)
  PROVE  IsFile(env')
<1> DEFINE norm == Normalized(payload)
           kept == Filtered(env, payload)
           updates == WithCodeMirror(kept)
           keys == Listed(payload)
<1>0. Len(payload) \in Nat /\ \A i \in 1..Len(payload) : IsKey(payload[i].key) BY SettingsAssumption
<1>1. IsFile(norm) BY <1>0, NormalizedIsAFile
<1>2. IsFile(kept)
  <2>1. DOMAIN kept \subseteq DOMAIN norm BY DEF Filtered, Restrict
  <2>2. IsFiniteSet(DOMAIN kept) BY <1>1, <2>1, FS_Subset DEF IsFile
  <2> QED BY <1>1, <2>1, <2>2 DEF IsFile
<1> HIDE DEF kept, norm
<1>3. IsFile(updates)
  <2> DEFINE d == Default(kept, <<"LLM_A", "ctx">>, kept[<<"CODE", "ctx">>])
  <2>1. DOMAIN d = DOMAIN kept \union {<<"LLM_A", "ctx">>} BY DEF Default, With
  <2>2. IsKey(<<"LLM_A", "ctx">>) BY DEF IsKey
  <2>3. IsFiniteSet(DOMAIN d) BY <1>2, <2>1, FS_AddElement DEF IsFile
  <2>4. IsFile(d) BY <1>2, <2>1, <2>2, <2>3 DEF IsFile
  <2>5. updates = d \/ updates = kept BY DEF WithCodeMirror
  <2> QED BY <1>2, <2>4, <2>5
<1>4. keys \in Seq({keys[i] : i \in 1..Len(payload)})
  <2> DEFINE k == keys
             n == Len(payload)
             S == {k[i] : i \in 1..n}
  <2>1. keys = [i \in 1..n |-> Canonical(payload[i].key)] BY DEF Listed
  <2>2. k \in [1..n -> S] BY <2>1
  <2>3. \A A : \A h \in Nat : \A q \in [1..h -> A] : q \in Seq(A) OBVIOUS
  <2> HIDE DEF keys
  <2> QED BY <1>0, <2>2, <2>3
<1>5. env' = WriteEnv(env, updates, keys) BY DEF Save, kept
<1> HIDE DEF updates, keys
<1> QED BY <1>3, <1>4, <1>5, WriteLeavesAFile

------------------------------------------------------------------------------
(* What a migration leaves to be read *)

\* What a migration writes.
Updates(file) == [k \in {Canonical(old) : old \in Deprecated(file)} |-> Read(file)[k]]

\* What the first two readings make of a file.
Named(file) == Implied(Renamed(file))

\* It writes keys of slots, each under the name it keeps, and no older spelling.
LEMMA UpdatesAre ==
  ASSUME NEW file, IsFile(file)
  PROVE  /\ IsFiniteSet(DOMAIN Updates(file))
         /\ \A c \in DOMAIN Updates(file) :
              c[1] \in SlotNames /\ IsKey(c) /\ Canonical(c) = c /\ c \in DOMAIN Named(file)
         /\ \A c, d \in DOMAIN Updates(file) : c \notin Spellings(d)
<1> DEFINE C == {Canonical(old) : old \in Deprecated(file)}
<1>1. DOMAIN Updates(file) = C BY DEF Updates
<1>2. Deprecated(file) \subseteq DOMAIN file BY DEF Deprecated
<1>3. IsFiniteSet(C)
  <2> DEFINE by == [k \in Deprecated(file) |-> Canonical(k)]
  <2>1. IsFiniteSet(Deprecated(file)) BY <1>2, FS_Subset DEF IsFile
  <2>2. by \in Surjection(Deprecated(file), C) BY DEF Surjection
  <2> HIDE DEF by
  <2> QED BY <2>1, <2>2, FS_Surjection
<1>4. \A c \in C : c[1] \in SlotNames /\ IsKey(c) /\ Canonical(c) = c /\ c \in DOMAIN Named(file)
  <2> TAKE c \in C
  <2>1. PICK old \in Deprecated(file) : c = Canonical(old) OBVIOUS
  <2>2. IsKey(old) /\ Canonical(old) # old /\ old \in DOMAIN file BY <1>2 DEF IsFile, Deprecated
  <2>3. c \in Meant(file) BY <2>1, <2>2 DEF Meant
  <2>4. c \in DOMAIN Named(file) BY <2>3, FirstReadings DEF Named
  <2> QED BY <2>1, <2>2, <2>4, CanonicalNames
<1>5. \A c, d \in C : c \notin Spellings(d)
  <2> TAKE c, d \in C
  <2>1. c[1] \in SlotNames /\ IsKey(d) BY <1>4
  <2>2. c \in Spellings(d) => c[1] \in OldNames BY <2>1, OldSpellings
  <2> QED BY <2>1, <2>2 DEF SlotNames, OldNames
<1> QED BY <1>1, <1>3, <1>4, <1>5

\* What a slot's key is named as, it is read as.
LEMMA SlotKeysRead ==
  ASSUME NEW file, NEW k \in DOMAIN Named(file), k[1] \in SlotNames
  PROVE  Read(file)[k] = Named(file)[k]
<1> DEFINE a == Named(file)
           b == SlotA(a)
           c == SharedDefaults(b)
           d == Personas(c)
<1>1. Same(Read(file), d, k) BY LastReadings DEF SlotNames, Named
<1> HIDE DEF a, b, c, d
<1>2. k \in DOMAIN b /\ b[k] = a[k]
  <2>1. \A r, m : \A x \in DOMAIN r : x \in DOMAIN With(r, m) /\ With(r, m)[x] = r[x] BY WithKeeps
  <2>2. PICK first, more : b = With(With(a, first), more) BY DEF b, SlotA, Default
  <2>3. k \in DOMAIN a BY DEF a
  <2> QED BY <2>1, <2>2, <2>3
<1>3. k[1] # "CHAT" /\ k[1] # "THINK" /\ k[1] # "NOTHINK" BY DEF SlotNames
<1>4. k # <<"CHAT", "cache">> /\ k # <<"THINK", "temp">> /\ k # <<"NOTHINK", "temp">> BY <1>3
<1>5. Same(c, b, k) BY <1>4, DefaultKeeps DEF c, SharedDefaults
<1>6. Same(d, c, k) BY <1>4, DefaultKeeps DEF d, Personas, Same
<1> QED BY <1>1, <1>2, <1>5, <1>6 DEF Same, a

\* The file a migration leaves: what is not an older spelling is named as it was, and a bare
\* CHAT key that goes is one slot A has of its own.
Migrated(file, new) ==
  /\ IsFile(new) /\ Deprecated(new) = {}
  /\ \A k : k[1] \notin OldNames => Same(Named(new), Named(file), k)
  /\ \A s : \/ Same(Named(new), Named(file), <<"CHAT", s>>)
            \/ <<"LLM_A", s>> \in DOMAIN Named(file)

\* That is what a migration leaves.
LEMMA MigrationIs ==
  ASSUME NEW file, IsFile(file), NEW new, new = WriteEnv(file, Updates(file), <<>>)
  PROVE  Migrated(file, new)
<1> DEFINE u == Updates(file)
           C == DOMAIN u
           gone == Gone(C)
<1>1. /\ IsFiniteSet(C) /\ \A c, d \in C : c \notin Spellings(d)
      /\ \A c \in C : c[1] \in SlotNames /\ IsKey(c) /\ Canonical(c) = c /\ c \in DOMAIN Named(file)
  BY UpdatesAre
<1>2. C = {Canonical(old) : old \in Deprecated(file)} BY DEF Updates
<1>3. \A c \in C : u[c] = Read(file)[c] BY <1>2 DEF Updates
<1> HIDE DEF u, C
<1>4. /\ DOMAIN new = C \union (DOMAIN file \ gone)
      /\ \A k \in DOMAIN new : new[k] = IF k \in C THEN u[k] ELSE file[k]
  <2>1. IsWritten(new, file, u, C) BY <1>1, WriteOfCanonical DEF u, C
  <2> QED BY <2>1 DEF IsWritten
<1>5. \A k \in gone : k[1] \in OldNames /\ (k[1] = "CHAT" => <<"LLM_A", k[2]>> \in C)
  BY <1>1, OldSpellings DEF Gone
<1> HIDE DEF gone
<1>6. \A k \in DOMAIN file \ gone : Canonical(k) = k
  <2> SUFFICES ASSUME NEW k \in DOMAIN file, Canonical(k) # k PROVE k \in gone OBVIOUS
  <2>1. Canonical(k) \in C BY <1>2 DEF Deprecated
  <2>2. k \in Spellings(Canonical(k)) BY CanonicalNames DEF IsFile
  <2> QED BY <2>1, <2>2 DEF gone, Gone
<1>7. \A k \in DOMAIN new : Canonical(k) = k BY <1>1, <1>4, <1>6
<1>8. Deprecated(new) = {} BY <1>7 DEF Deprecated
<1>9. IsFile(new)
  <2>1. IsFiniteSet(DOMAIN file \ gone) BY FS_Subset DEF IsFile
  <2> DEFINE kept == DOMAIN file \ gone
  <2> HIDE DEF kept
  <2>3. IsFiniteSet(C \union kept) BY <1>1, <2>1, FS_Union DEF kept
  <2>2. IsFiniteSet(DOMAIN new) BY <1>4, <2>3 DEF kept
  <2> QED BY <1>1, <1>4, <2>2 DEF IsFile
<1>10. DOMAIN Named(new) = DOMAIN new /\ \A k \in DOMAIN new : Named(new)[k] = new[k]
  <2>1. Meant(new) \subseteq DOMAIN new BY <1>7 DEF Meant
  <2> QED BY <1>9, <2>1, FirstReadings DEF Named
<1>11. /\ DOMAIN Named(file) = DOMAIN file \union Meant(file)
       /\ \A k \in DOMAIN file : Named(file)[k] = file[k]
  BY FirstReadings DEF Named
<1>12. \A k \in Meant(file) : k \in DOMAIN file \/ k \in C
  <2> TAKE k \in Meant(file)
  <2>1. PICK old \in DOMAIN file : k = Canonical(old) BY DEF Meant
  <2> QED BY <2>1, <1>2 DEF Deprecated
<1>13. \A c \in C : u[c] = Named(file)[c] BY <1>1, <1>3, SlotKeysRead
<1>14. ASSUME NEW k, k \notin gone PROVE Same(Named(new), Named(file), k)
  BY <1>1, <1>4, <1>10, <1>11, <1>12, <1>13, <1>14 DEF Same
<1>15. ASSUME NEW s PROVE Same(Named(new), Named(file), <<"CHAT", s>>) \/ <<"LLM_A", s>> \in DOMAIN Named(file)
  <2>1. CASE <<"CHAT", s>> \in gone
    <3>1. <<"CHAT", s>>[1] = "CHAT" /\ <<"CHAT", s>>[2] = s OBVIOUS
    <3>2. <<"LLM_A", s>> \in C BY <1>5, <2>1, <3>1
    <3> QED BY <1>1, <3>2
  <2> QED BY <1>14, <2>1
<1> QED BY <1>5, <1>8, <1>9, <1>14, <1>15 DEF Migrated

\* What a key falls back to.
LEMMA FirstAre ==
  ASSUME NEW read, NEW one, NEW two
  PROVE  /\ First(read, <<one>>) = IF one \in DOMAIN read THEN read[one] ELSE ShippedValue
         /\ First(read, <<one, two>>) = IF one \in DOMAIN read THEN read[one]
                                       ELSE IF two \in DOMAIN read THEN read[two] ELSE ShippedValue
<1>1. First(read, <<one>>) = IF one \in DOMAIN read THEN read[one] ELSE ShippedValue
  <2> DEFINE there == {i \in DOMAIN <<one>> : <<one>>[i] \in DOMAIN read}
  <2>1. there = IF one \in DOMAIN read THEN {1} ELSE {} OBVIOUS
  <2> QED BY <2>1 DEF First
<1>2. First(read, <<one, two>>) = IF one \in DOMAIN read THEN read[one]
                                ELSE IF two \in DOMAIN read THEN read[two] ELSE ShippedValue
  <2> DEFINE there == {i \in DOMAIN <<one, two>> : <<one, two>>[i] \in DOMAIN read}
             least == CHOOSE i \in there : \A j \in there : i <= j
  <2>0. DOMAIN <<one, two>> = {1, 2} /\ <<one, two>>[1] = one /\ <<one, two>>[2] = two OBVIOUS
  <2>1. First(read, <<one, two>>) = IF there = {} THEN ShippedValue ELSE read[<<one, two>>[least]] BY DEF First
  <2>2. CASE one \in DOMAIN read
    <3>1. 1 \in there /\ \A j \in there : 1 <= j BY <2>0, <2>2
    <3>2. \A i \in there : (\A j \in there : i <= j) => i = 1 BY <2>0, <3>1
    <3> HIDE DEF there
    <3>3. least = 1 BY <3>1, <3>2
    <3> QED BY <2>0, <2>1, <2>2, <3>1, <3>3
  <2>3. CASE one \notin DOMAIN read /\ two \in DOMAIN read
    <3>1. there = {2} BY <2>0, <2>3
    <3>2. least = 2 BY <3>1
    <3> QED BY <2>0, <2>1, <2>3, <3>1, <3>2
  <2>4. CASE one \notin DOMAIN read /\ two \notin DOMAIN read
    <3>1. there = {} BY <2>0, <2>4
    <3> QED BY <2>1, <2>4, <3>1
  <2> QED BY <2>2, <2>3, <2>4
<1> QED BY <1>1, <1>2

\* No slot and no persona reads another value of the migrated file.
LEMMA MigratedReads ==
  ASSUME NEW file, NEW new, Migrated(file, new),
         NEW k, k[1] \in {"LLM_A", "LLM_B", "THINK", "NOTHINK"}
  PROVE  Same(Read(new), Read(file), k)
<1> DEFINE ctx == <<"LLM_A", "ctx">>
           temp == <<"LLM_A", "temp">>
           a == Named(file)
           b == Named(new)
           More(r) == [x \in {"LLM_A"} \X {s \in DeclaredSuffixes \ {"port"} : <<"CHAT", s>> \in DOMAIN r}
                         |-> r[<<"CHAT", x[2]>>]]
           D(r) == Default(r, ctx, First(r, <<<<"CHAT", "ctx">>>>))
           New(x) == x[1] \notin OldNames
<1>0. New(ctx) /\ New(temp) /\ New(<<"THINK", "temp">>) /\ New(<<"NOTHINK", "temp">>) /\ New(k)
      /\ \A s : New(<<"LLM_A", s>>) /\ ~New(<<"CHAT", s>>)
  BY DEF OldNames
<1>1. /\ \A x : New(x) => Same(b, a, x)
      /\ \A s : Same(b, a, <<"CHAT", s>>) \/ <<"LLM_A", s>> \in DOMAIN a
  BY DEF Migrated
<1>2. \A r : SlotA(r) = With(D(r), More(r)) BY DEF SlotA
<1> HIDE DEF a, b
<1>3. \A r, x, v : /\ \A y : y # x => Same(Default(r, x, v), r, y)
                   /\ x \in DOMAIN Default(r, x, v)
                   /\ Default(r, x, v)[x] = IF x \in DOMAIN r THEN r[x] ELSE v
  BY DEF Default, With, Same
<1>4. Same(D(b), D(a), ctx)
  <2>1. D(b)[ctx] = IF ctx \in DOMAIN b THEN b[ctx] ELSE First(b, <<<<"CHAT", "ctx">>>>) BY <1>3
  <2>2. D(a)[ctx] = IF ctx \in DOMAIN a THEN a[ctx] ELSE First(a, <<<<"CHAT", "ctx">>>>) BY <1>3
  <2>3. ctx \in DOMAIN D(b) /\ ctx \in DOMAIN D(a) BY <1>3
  <2>4. Same(b, a, ctx) BY <1>0, <1>1
  <2>5. ctx \notin DOMAIN a => First(b, <<<<"CHAT", "ctx">>>>) = First(a, <<<<"CHAT", "ctx">>>>)
    <3> DEFINE old == <<"CHAT", "ctx">>
    <3>1. \A r : First(r, <<old>>) = IF old \in DOMAIN r THEN r[old] ELSE ShippedValue BY FirstAre
    <3>2. ctx \notin DOMAIN a => Same(b, a, old) BY <1>1
    <3> HIDE DEF old
    <3>3. ctx \notin DOMAIN a => First(b, <<old>>) = First(a, <<old>>) BY <3>1, <3>2 DEF Same
    <3> QED BY <3>3 DEF old
  <2> QED BY <2>1, <2>2, <2>3, <2>4, <2>5 DEF Same
<1>5. \A r, x : x # ctx => Same(D(r), r, x) BY <1>3
<1> HIDE DEF D
<1>6. \A x : New(x) => Same(D(b), D(a), x) BY <1>1, <1>4, <1>5 DEF Same
<1>7. \A r, x : /\ x \in DOMAIN SlotA(r) <=> x \in DOMAIN D(r) \/ x \in DOMAIN More(r)
                /\ x \in DOMAIN D(r) => SlotA(r)[x] = D(r)[x]
                /\ x \notin DOMAIN D(r) /\ x \in DOMAIN More(r) => SlotA(r)[x] = More(r)[x]
  BY <1>2 DEF With
<1>8. \A x : x \notin DOMAIN D(a) => Same(More(b), More(a), x)
  <2> SUFFICES ASSUME NEW x, x \notin DOMAIN D(a) PROVE Same(More(b), More(a), x) OBVIOUS
  <2>1. CASE \E s : x = <<"LLM_A", s>>
    <3>1. PICK s : x = <<"LLM_A", s>> BY <2>1
    <3>2. x \notin DOMAIN a
      <4>1. ctx \in DOMAIN D(a) BY <1>3 DEF D
      <4>2. x # ctx BY <4>1
      <4> QED BY <1>5, <4>2 DEF Same
    <3>3. Same(b, a, <<"CHAT", s>>) BY <1>1, <3>1, <3>2
    <3>4. \A r : x \in DOMAIN More(r) <=> s \in DeclaredSuffixes \ {"port"} /\ <<"CHAT", s>> \in DOMAIN r BY <3>1
    <3>5. \A r : x \in DOMAIN More(r) => More(r)[x] = r[<<"CHAT", s>>] BY <3>1
    <3> HIDE DEF More
    <3> QED BY <3>3, <3>4, <3>5 DEF Same
  <2>2. CASE ~\E s : x = <<"LLM_A", s>>
    <3>1. \A r : x \notin DOMAIN More(r) BY <2>2
    <3> QED BY <3>1 DEF Same
  <2> QED BY <2>1, <2>2
<1>9. \A r, s : <<"CHAT", s>> \notin DOMAIN More(r) OBVIOUS
<1> HIDE DEF More
<1>10. \A x : New(x) => Same(SlotA(b), SlotA(a), x)
  <2> SUFFICES ASSUME NEW x, New(x) PROVE Same(SlotA(b), SlotA(a), x) OBVIOUS
  <2>1. Same(D(b), D(a), x) BY <1>6
  <2>2. CASE x \in DOMAIN D(a)
    <3>1. x \in DOMAIN D(b) /\ D(b)[x] = D(a)[x] BY <2>1, <2>2 DEF Same
    <3>2. x \in DOMAIN SlotA(a) /\ SlotA(a)[x] = D(a)[x] BY <1>7, <2>2
    <3>3. x \in DOMAIN SlotA(b) /\ SlotA(b)[x] = D(b)[x] BY <1>7, <3>1
    <3> QED BY <3>1, <3>2, <3>3 DEF Same
  <2>3. CASE x \notin DOMAIN D(a)
    <3>1. x \notin DOMAIN D(b) BY <2>1, <2>3 DEF Same
    <3>2. Same(More(b), More(a), x) BY <1>8, <2>3
    <3>3. /\ x \in DOMAIN SlotA(a) <=> x \in DOMAIN More(a)
          /\ x \in DOMAIN More(a) => SlotA(a)[x] = More(a)[x]
      BY <1>7, <2>3
    <3>4. /\ x \in DOMAIN SlotA(b) <=> x \in DOMAIN More(b)
          /\ x \in DOMAIN More(b) => SlotA(b)[x] = More(b)[x]
      BY <1>7, <3>1
    <3> QED BY <3>2, <3>3, <3>4 DEF Same
  <2> QED BY <2>2, <2>3
<1>11. \A r, s : Same(SlotA(r), r, <<"CHAT", s>>)
  <2> SUFFICES ASSUME NEW r, NEW s PROVE Same(SlotA(r), r, <<"CHAT", s>>) OBVIOUS
  <2> DEFINE x == <<"CHAT", s>>
  <2>1. x # ctx OBVIOUS
  <2>2. x \notin DOMAIN More(r) BY <1>9
  <2> HIDE DEF ctx, x
  <2>3. Same(D(r), r, x) BY <1>5, <2>1
  <2>4. x \in DOMAIN SlotA(r) <=> x \in DOMAIN D(r) BY <1>7, <2>2
  <2>5. x \in DOMAIN D(r) => SlotA(r)[x] = D(r)[x] BY <1>7
  <2>6. Same(SlotA(r), r, x) BY <2>3, <2>4, <2>5 DEF Same
  <2> QED BY <2>6 DEF x
<1> DEFINE c(r) == SharedDefaults(SlotA(r))
<1>12. \A r, x : x # <<"CHAT", "cache">> => Same(c(r), SlotA(r), x) BY <1>3 DEF SharedDefaults
<1>13. \A x : New(x) => Same(c(b), c(a), x) BY <1>0, <1>10, <1>12 DEF Same
<1>14. \A r : Same(c(r), r, <<"CHAT", "temp">>) BY <1>11, <1>12 DEF Same
<1>15. temp \in DOMAIN a => temp \in DOMAIN c(a)
  <2>1. temp # ctx /\ temp # <<"CHAT", "cache">> OBVIOUS
  <2> QED BY <1>5, <1>7, <1>12, <2>1 DEF Same
<1> HIDE DEF c
<1> DEFINE names == <<temp, <<"CHAT", "temp">>>>
<1>16. First(c(b), names) = First(c(a), names)
  <2>1. Same(c(b), c(a), temp) BY <1>0, <1>13
  <2>2. temp \notin DOMAIN c(a) => Same(b, a, <<"CHAT", "temp">>) BY <1>1, <1>15
  <2>3. temp \notin DOMAIN c(a) => Same(c(b), c(a), <<"CHAT", "temp">>) BY <1>14, <2>2 DEF Same
  <2> HIDE DEF temp
  <2> QED BY <2>1, <2>3, FirstAre DEF Same
<1>17. \A r : Personas(r) = Default(Default(r, <<"THINK", "temp">>, First(r, names)),
                                   <<"NOTHINK", "temp">>, First(r, names))
  BY DEF Personas
<1> HIDE DEF names
<1>18. Same(Personas(c(b)), Personas(c(a)), k)
  <2> DEFINE v == First(c(a), names)
             first(r) == Default(r, <<"THINK", "temp">>, v)
  <2>1. /\ Personas(c(a)) = Default(first(c(a)), <<"NOTHINK", "temp">>, v)
        /\ Personas(c(b)) = Default(first(c(b)), <<"NOTHINK", "temp">>, v)
    BY <1>16, <1>17
  <2> HIDE DEF v
  <2>2. \A x : New(x) => Same(first(c(b)), first(c(a)), x) BY <1>3, <1>13 DEF Same
  <2> HIDE DEF first
  <2>3. Same(Default(first(c(b)), <<"NOTHINK", "temp">>, v), Default(first(c(a)), <<"NOTHINK", "temp">>, v), k)
    BY <1>0, <1>3, <2>2 DEF Same
  <2> QED BY <2>1, <2>3
<1>19. /\ Same(Read(file), Personas(c(a)), k) /\ Same(Read(new), Personas(c(b)), k)
  BY LastReadings DEF a, b, c, Named
<1> QED BY <1>18, <1>19 DEF Same

------------------------------------------------------------------------------
(* The file and its answers *)

\* The file has finitely many keys, whatever saves and migrations have made of it.
NamesInv == IsFile(env) /\ RenameIsInvisible

LEMMA NamesSteps == NamesInv /\ [SettingsNext]_settingsVars => NamesInv'
<1> SUFFICES ASSUME NamesInv, [SettingsNext]_settingsVars PROVE NamesInv' OBVIOUS
<1>1. ASSUME NEW payload \in Payloads, Save(payload) PROVE NamesInv'
  <2>1. IsFile(env') BY <1>1, SaveLeavesAFile DEF NamesInv
  <2>2. answered' = {[op |-> "save", payload |-> payload, before |-> env]} BY <1>1 DEF Save
  <2>3. \A t \in answered' : t.op # "migrate" BY <2>2
  <2> QED BY <2>1, <2>3 DEF NamesInv, RenameIsInvisible
<1>2. CASE Migrate
  <2>1. env' = WriteEnv(env, Updates(env), <<>>) BY <1>2 DEF Migrate, Updates
  <2>2. Migrated(env, env') BY <2>1, MigrationIs DEF NamesInv
  <2>3. \A t \in answered' : t.before = env BY <1>2 DEF Migrate
  <2>4. \A k : k[1] \in {"LLM_A", "LLM_B", "THINK", "NOTHINK"} => Same(Read(env'), Read(env), k)
    BY <2>2, MigratedReads
  <2>5. IsFile(env') /\ Deprecated(env') = {} BY <2>2 DEF Migrated
  <2>6. RenameIsInvisible' BY <2>3, <2>4, <2>5 DEF RenameIsInvisible, Same
  <2> QED BY <2>5, <2>6 DEF NamesInv
<1>3. CASE UNCHANGED settingsVars BY <1>3 DEF settingsVars, NamesInv, RenameIsInvisible
<1> QED BY <1>1, <1>2, <1>3 DEF SettingsNext

\* api_config_deprecations_migrate: no older spelling is left, and no value changes that a slot
\* or a persona reads, whatever the file has gathered over the life of the stack.
THEOREM MigrationIsInvisible == SettingsSpec => []RenameIsInvisible
<1>1. SettingsInit => NamesInv BY SettingsAssumption DEF SettingsInit, NamesInv, RenameIsInvisible
<1>2. NamesInv => RenameIsInvisible BY DEF NamesInv
<1> QED BY <1>1, <1>2, NamesSteps, PTL DEF SettingsSpec
=============================================================================
