----------------------- MODULE SymbolicStateDfaProofs -----------------------
(***************************************************************************)
(* Explicit and symbolic automata, for any formulas and automata of any     *)
(* size: what the operations on explicit automata keep, the encoding of     *)
(* states as bits, and that symbolic automata accept what they were built   *)
(* for.  Then, for any three automata, the game that is printed for Slugs.  *)
(***************************************************************************)
EXTENDS GR1Arena, SymbolicStateDfaProps, VarMgrProofs

-----------------------------------------------------------------------------
(* The encoding *)

\* The first shifts of a number, one entry for each number of shifts up to k.
FirstShifts(f, number, k) ==
    /\ f \in [0 .. k -> Nat]
    /\ f[0] = number
    /\ \A j \in 0 .. k - 1 : f[j + 1] = f[j] \div 2

\* Half of a number.
LEMMA Half ==
    ASSUME NEW n \in Nat
    PROVE  /\ n \div 2 \in Nat /\ n % 2 \in {0, 1}
           /\ n = 2 * (n \div 2) + (n % 2)
           /\ n # 0 => n \div 2 < n
OBVIOUS

\* There are always such shifts, and they are unique.
LEMMA FirstShiftsExist ==
    ASSUME NEW number \in Nat
    PROVE  /\ \A k \in Nat : \E f : FirstShifts(f, number, k)
           /\ \A k, l \in Nat : \A f, g : FirstShifts(f, number, k) /\ FirstShifts(g, number, l) =>
                  \A j \in 0 .. k : j \in 0 .. l => f[j] = g[j]
<1>1. \A k \in Nat : \E f : FirstShifts(f, number, k)
  <2>. DEFINE T == {k \in Nat : ~ \E f : FirstShifts(f, number, k)}
  <2>. SUFFICES ASSUME T # {} PROVE FALSE
    OBVIOUS
  <2>1. PICK m \in T : \A k \in T : m <= k
    <3>1. T \in SUBSET Nat
      OBVIOUS
    <3>. HIDE DEF T
    <3>. QED  BY <3>1, LeastNumber
  <2>2. m # 0
    <3>1. FirstShifts([j \in 0 .. 0 |-> number], number, 0)
      BY DEF FirstShifts
    <3>. QED  BY <2>1, <3>1
  <2>3. m - 1 \in Nat /\ ~(m <= m - 1)
    BY <2>1, <2>2
  <2>4. PICK f : FirstShifts(f, number, m - 1)
    BY <2>1, <2>3
  <2>. DEFINE g == [j \in 0 .. m |-> IF j = m THEN f[m - 1] \div 2 ELSE f[j]]
  <2>5. f \in [0 .. m - 1 -> Nat] /\ f[m - 1] \in Nat /\ f[m - 1] \div 2 \in Nat
    <3>1. f \in [0 .. m - 1 -> Nat] /\ m - 1 \in 0 .. m - 1
      BY <2>3, <2>4 DEF FirstShifts
    <3>2. f[m - 1] \in Nat
      BY <3>1
    <3>. QED  BY <3>1, <3>2, Half
  <2>6. g \in [0 .. m -> Nat]
    <3>1. \A j \in 0 .. m : j # m => j \in 0 .. m - 1
      BY <2>3
    <3>. QED  BY <2>5, <3>1
  <2>7. g[0] = number
    BY <2>1, <2>2, <2>4 DEF FirstShifts
  <2>8. ASSUME NEW j \in 0 .. m - 1 PROVE g[j + 1] = g[j] \div 2
    <3>1. j \in 0 .. m /\ j + 1 \in 0 .. m /\ j # m
      BY <2>1, <2>3
    <3>2. CASE j = m - 1
      BY <2>1, <3>1, <3>2
    <3>3. CASE j # m - 1
      <4>1. j \in 0 .. (m - 1) - 1 /\ j + 1 # m
        BY <2>1, <2>3, <3>3
      <4>2. f[j + 1] = f[j] \div 2
        BY <2>4, <4>1 DEF FirstShifts
      <4>. QED  BY <3>1, <4>1, <4>2
    <3>. QED  BY <3>2, <3>3
  <2>9. FirstShifts(g, number, m)
    <3>. HIDE DEF g
    <3>. QED  BY <2>6, <2>7, <2>8 DEF FirstShifts
  <2>. QED  BY <2>1, <2>9
<1>2. ASSUME NEW k \in Nat, NEW l \in Nat, NEW f, NEW g,
             FirstShifts(f, number, k), FirstShifts(g, number, l)
      PROVE  \A j \in 0 .. k : j \in 0 .. l => f[j] = g[j]
  <2>. DEFINE T == {j \in 0 .. k : j \in 0 .. l /\ f[j] # g[j]}
  <2>. SUFFICES ASSUME T # {} PROVE FALSE
    OBVIOUS
  <2>1. PICK m \in T : \A j \in T : m <= j
    <3>1. T \in SUBSET Nat
      OBVIOUS
    <3>. HIDE DEF T
    <3>. QED  BY <3>1, LeastNumber
  <2>2. m # 0
    BY <1>2, <2>1 DEF FirstShifts
  <2>3. m - 1 \in 0 .. k - 1 /\ m - 1 \in 0 .. l - 1 /\ ~(m <= m - 1) /\ (m - 1) + 1 = m
        /\ m - 1 \in 0 .. k /\ m - 1 \in 0 .. l
    BY <1>2, <2>1, <2>2
  <2>4. f[m - 1] = g[m - 1]
    BY <2>1, <2>3
  <2>5. f[m] = f[m - 1] \div 2 /\ g[m] = g[m - 1] \div 2
    <3>1. f[(m - 1) + 1] = f[m - 1] \div 2 /\ g[(m - 1) + 1] = g[m - 1] \div 2
      BY <1>2, <2>3 DEF FirstShifts
    <3>. QED  BY <2>3, <3>1
  <2>. QED  BY <2>1, <2>4, <2>5
<1>. QED  BY <1>1, <1>2

\* A shift halves what the shift before left.
LEMMA Shifts ==
    ASSUME NEW number \in Nat
    PROVE  /\ shifted(number) \in [Nat -> Nat]
           /\ shifted(number)[0] = number
           /\ \A k \in Nat : shifted(number)[k + 1] = shifted(number)[k] \div 2
<1>. DEFINE IsShifting(after) ==
                after = [k \in Nat |-> IF k = 0 THEN number ELSE after[k - 1] \div 2]
            first(k) == CHOOSE f : FirstShifts(f, number, k)
            g == [k \in Nat |-> first(k)[k]]
<1>1. \A k \in Nat : FirstShifts(first(k), number, k)
  BY FirstShiftsExist
<1>2. ASSUME NEW k \in Nat PROVE g[k] \in Nat
  <2>1. FirstShifts(first(k), number, k) /\ k \in 0 .. k
    BY <1>1
  <2>. HIDE DEF first
  <2>2. first(k) \in [0 .. k -> Nat]
    BY <2>1 DEF FirstShifts
  <2>. QED  BY <2>1, <2>2
<1>3. g[0] = number
  BY <1>1 DEF FirstShifts
<1>4. ASSUME NEW k \in Nat PROVE g[k + 1] = g[k] \div 2
  <2>1. k \in 0 .. k /\ k \in 0 .. k + 1 /\ k \in 0 .. (k + 1) - 1 /\ k + 1 \in Nat
    OBVIOUS
  <2>2. FirstShifts(first(k), number, k) /\ FirstShifts(first(k + 1), number, k + 1)
    BY <1>1, <2>1
  <2>. HIDE DEF first
  <2>3. first(k)[k] = first(k + 1)[k]
    BY <2>1, <2>2, FirstShiftsExist
  <2>4. first(k + 1)[k + 1] = first(k + 1)[k] \div 2
    BY <2>1, <2>2 DEF FirstShifts
  <2>. QED  BY <2>1, <2>3, <2>4
<1>5. IsShifting(g)
  <2>1. ASSUME NEW k \in Nat PROVE g[k] = IF k = 0 THEN number ELSE g[k - 1] \div 2
    <3>. HIDE DEF g
    <3>1. CASE k = 0
      BY <1>3, <3>1
    <3>2. CASE k # 0
      <4>1. k - 1 \in Nat /\ (k - 1) + 1 = k
        BY <3>2
      <4>. QED  BY <1>4, <3>2, <4>1
    <3>. QED  BY <3>1, <3>2
  <2>2. g = [k \in Nat |-> g[k]]
    OBVIOUS
  <2>. HIDE DEF g
  <2>. QED  BY <2>1, <2>2
<1>6. IsShifting(shifted(number))
  <2>1. shifted(number) = CHOOSE after : IsShifting(after)
    BY DEF shifted
  <2>. HIDE DEF IsShifting, g
  <2>. QED  BY <1>5, <2>1
<1>. DEFINE s == shifted(number)
<1>7. DOMAIN s = Nat /\ \A k \in Nat : s[k] = IF k = 0 THEN number ELSE s[k - 1] \div 2
  <2>. HIDE DEF s
  <2>. QED  BY <1>6 DEF s
<1>. HIDE DEF s
<1>8. s[0] = number /\ \A k \in Nat : s[k + 1] = s[k] \div 2
  BY <1>7
<1>9. \A k \in Nat : s[k] \in Nat
  <2>. DEFINE T == {k \in Nat : s[k] \notin Nat}
  <2>. SUFFICES ASSUME T # {} PROVE FALSE
    OBVIOUS
  <2>1. PICK m \in T : \A k \in T : m <= k
    <3>1. T \in SUBSET Nat
      OBVIOUS
    <3>. HIDE DEF T
    <3>. QED  BY <3>1, LeastNumber
  <2>2. m - 1 \in Nat /\ ~(m <= m - 1) /\ (m - 1) + 1 = m
    BY <1>8, <2>1
  <2>3. s[m - 1] \in Nat
    BY <2>1, <2>2
  <2>4. s[m] = s[m - 1] \div 2
    BY <1>8, <2>2
  <2>. QED  BY <2>1, <2>3, <2>4, Half
<1>10. s \in [Nat -> Nat]
  BY <1>6, <1>7, <1>9 DEF s
<1>. QED  BY <1>8, <1>10 DEF s

\* As many shifts as a number's size bring it down to 0, and a smaller number with it.
LEMMA ShiftsEnd ==
    ASSUME NEW number \in Nat
    PROVE  /\ shifted(number)[number] = 0
           /\ \A smaller \in 0 .. number, k \in Nat : shifted(smaller)[k] <= shifted(number)[k]
<1>. DEFINE s == shifted(number)
<1>1. s \in [Nat -> Nat] /\ s[0] = number /\ \A k \in Nat : s[k + 1] = s[k] \div 2
  BY Shifts
<1>2. s[number] = 0
  <2>. HIDE DEF s
  <2>. DEFINE T == {k \in 0 .. number : ~(s[k] + k <= number \/ s[k] = 0)}
  <2>1. ASSUME T # {} PROVE FALSE
    <3>1. PICK m \in T : \A k \in T : m <= k
      <4>1. T \in SUBSET Nat
        OBVIOUS
      <4>. HIDE DEF T
      <4>. QED  BY <2>1, <4>1, LeastNumber
    <3>2. m # 0
      BY <1>1, <3>1
    <3>3. m - 1 \in 0 .. number /\ m - 1 \in Nat /\ ~(m <= m - 1) /\ (m - 1) + 1 = m
      BY <3>1, <3>2
    <3>4. s[m - 1] + (m - 1) <= number \/ s[m - 1] = 0
      BY <3>1, <3>3
    <3>5. s[m - 1] \in Nat /\ s[m] = s[m - 1] \div 2
      BY <1>1, <3>3
    <3>6. s[m] \in Nat /\ (s[m - 1] # 0 => s[m] < s[m - 1]) /\ (s[m - 1] = 0 => s[m] = 0)
      BY <3>5, Half
    <3>. QED  BY <3>1, <3>3, <3>4, <3>5, <3>6
  <2>2. s[number] \in Nat /\ number \in 0 .. number
    BY <1>1
  <2>. QED  BY <2>1, <2>2
<1>3. ASSUME NEW smaller \in 0 .. number PROVE \A k \in Nat : shifted(smaller)[k] <= s[k]
  <2>. DEFINE r == shifted(smaller)
              T == {k \in Nat : ~(r[k] <= s[k])}
  <2>1. r \in [Nat -> Nat] /\ r[0] = smaller /\ \A k \in Nat : r[k + 1] = r[k] \div 2
    BY Shifts
  <2>. HIDE DEF r, s
  <2>2. ASSUME T # {} PROVE FALSE
    <3>1. PICK m \in T : \A k \in T : m <= k
      <4>1. T \in SUBSET Nat
        OBVIOUS
      <4>. HIDE DEF T
      <4>. QED  BY <2>2, <4>1, LeastNumber
    <3>2. m # 0
      BY <1>1, <2>1, <3>1
    <3>3. m - 1 \in Nat /\ ~(m <= m - 1) /\ (m - 1) + 1 = m
      BY <3>1, <3>2
    <3>4. r[m - 1] <= s[m - 1]
      BY <3>1, <3>3
    <3>5. /\ r[m - 1] \in Nat /\ r[m] = r[m - 1] \div 2
          /\ s[m - 1] \in Nat /\ s[m] = s[m - 1] \div 2
      BY <1>1, <2>1, <3>3
    <3>. QED  BY <3>1, <3>4, <3>5
  <2>. QED  BY <2>2 DEF r
<1>. QED  BY <1>2, <1>3

\* There are enough bits for every state.
LEMMA BitCount ==
    ASSUME NEW state_count \in Nat \ {0}
    PROVE  /\ bit_count_of(state_count) \in Nat
           /\ \A state \in 0 .. state_count - 1 : shifted(state)[bit_count_of(state_count)] = 0
           /\ state_count = 1 => bit_count_of(state_count) = 0
           /\ state_count # 1 => bit_count_of(state_count) # 0
<1>. DEFINE largest == state_count - 1
            s == shifted(largest)
            n == bit_count_of(state_count)
            T == {k \in Nat : s[k] = 0}
<1>0. largest \in Nat
  OBVIOUS
<1>1. largest \in Nat /\ s \in [Nat -> Nat] /\ s[0] = largest /\ s[largest] = 0
  <2>. HIDE DEF largest
  <2>. QED  BY <1>0, Shifts, ShiftsEnd
<1>2. PICK m \in T : \A k \in T : m <= k
  <2>1. T \in SUBSET Nat /\ largest \in T
    BY <1>1
  <2>. HIDE DEF T
  <2>. QED  BY <2>1, LeastNumber
<1>3. m \in 0 .. largest /\ s[m] = 0 /\ \A k \in 0 .. m - 1 : s[k] # 0
  <2>1. m \in Nat /\ largest \in T
    BY <1>1, <1>2
  <2>2. \A k \in 0 .. m - 1 : k \in Nat /\ ~(m <= k)
    BY <2>1
  <2>. HIDE DEF s, largest
  <2>. QED  BY <1>1, <1>2, <2>1, <2>2
<1>4. n \in 0 .. largest /\ s[n] = 0 /\ \A k \in 0 .. n - 1 : s[k] # 0
  BY <1>3 DEF bit_count_of
<1>. HIDE DEF n, s
<1>5. ASSUME NEW state \in 0 .. largest PROVE shifted(state)[n] = 0
  <2>1. n \in Nat /\ state \in Nat
    BY <1>0, <1>4
  <2>2. shifted(state)[n] \in Nat
    <3>1. shifted(state) \in [Nat -> Nat]
      BY <2>1, Shifts
    <3>. QED  BY <2>1, <3>1
  <2>3. shifted(state)[n] <= s[n]
    <3>. HIDE DEF largest
    <3>. QED  BY <1>0, <2>1, ShiftsEnd DEF s
  <2>. QED  BY <1>4, <2>2, <2>3
<1>6. n = 0 <=> largest = 0
  BY <1>1, <1>4
<1>. QED  BY <1>1, <1>4, <1>5, <1>6 DEF n

\* The bits of a state.
LEMMA Bits01 ==
    ASSUME NEW state \in Nat, NEW n \in Nat
    PROVE  /\ state_to_binary(state, n) \in [1 .. n -> {0, 1}]
           /\ \A i \in 1 .. n : state_to_binary(state, n)[i] = shifted(state)[i - 1] % 2
<1>1. ASSUME NEW i \in 1 .. n PROVE shifted(state)[i - 1] % 2 \in {0, 1}
  <2>1. i - 1 \in Nat /\ shifted(state) \in [Nat -> Nat]
    BY Shifts
  <2>2. shifted(state)[i - 1] \in Nat
    BY <2>1
  <2>. QED  BY <2>2, Half
<1>. QED  BY <1>1 DEF state_to_binary

\* Different states have different bits.
LEMMA EncodingIsInjective ==
    ASSUME NEW state_count \in Nat \ {0},
           NEW a \in 0 .. state_count - 1, NEW b \in 0 .. state_count - 1,
           state_to_binary(a, bit_count_of(state_count)) =
               state_to_binary(b, bit_count_of(state_count))
    PROVE  a = b
<1>. DEFINE n == bit_count_of(state_count)
            s == shifted(a)
            t == shifted(b)
            T == {j \in 0 .. n : s[n - j] # t[n - j]}
<1>0. a \in Nat /\ b \in Nat
  OBVIOUS
<1>1. /\ s \in [Nat -> Nat] /\ s[0] = a /\ \A k \in Nat : s[k + 1] = s[k] \div 2
      /\ t \in [Nat -> Nat] /\ t[0] = b /\ \A k \in Nat : t[k + 1] = t[k] \div 2
  BY <1>0, Shifts
<1>2. n \in Nat /\ s[n] = 0 /\ t[n] = 0
  BY BitCount
<1>3. \A i \in 1 .. n : s[i - 1] % 2 = t[i - 1] % 2
  <2>. HIDE DEF n, s, t
  <2>1. \A i \in 1 .. n : state_to_binary(a, n)[i] = state_to_binary(b, n)[i]
    BY DEF n
  <2>2. /\ \A i \in 1 .. n : state_to_binary(a, n)[i] = shifted(a)[i - 1] % 2
        /\ \A i \in 1 .. n : state_to_binary(b, n)[i] = shifted(b)[i - 1] % 2
    BY <1>0, <1>2, Bits01
  <2>. QED  BY <2>1, <2>2 DEF s, t
<1>. HIDE DEF n, s, t
<1>4. ASSUME T # {} PROVE FALSE
  <2>1. PICK m \in T : \A j \in T : m <= j
    <3>1. T \in SUBSET Nat
      BY <1>2
    <3>. HIDE DEF T
    <3>. QED  BY <1>4, <3>1, LeastNumber
  <2>2. m # 0
    BY <1>2, <2>1
  <2>3. m - 1 \in 0 .. n /\ ~(m <= m - 1) /\ n - m \in Nat /\ n - (m - 1) = (n - m) + 1
        /\ (n - m) + 1 \in 1 .. n /\ ((n - m) + 1) - 1 = n - m
    BY <1>2, <2>1, <2>2
  <2>4. s[(n - m) + 1] = t[(n - m) + 1]
    BY <2>1, <2>3
  <2>5. s[n - m] \div 2 = t[n - m] \div 2 /\ s[n - m] % 2 = t[n - m] % 2
        /\ s[n - m] \in Nat /\ t[n - m] \in Nat
    BY <1>1, <1>3, <2>3, <2>4
  <2>6. s[n - m] = t[n - m]
    BY <2>5, Half
  <2>. QED  BY <2>1, <2>6
<1>5. s[0] = t[0]
  <2>1. n \in 0 .. n /\ n - n = 0
    BY <1>2
  <2>. QED  BY <1>4, <2>1
<1>. QED  BY <1>1, <1>5

-----------------------------------------------------------------------------
(* Lists of anything *)

IsList(s) == s \in Seq(ToSet(s))

LEMMA ListOf ==
    ASSUME NEW s, NEW n \in Nat, s = [i \in 1 .. n |-> s[i]]
    PROVE  IsList(s) /\ Len(s) = n /\ DOMAIN s = 1 .. n
<1>1. s \in [1 .. n -> ToSet(s)]
  BY DEF ToSet
<1>. QED  BY <1>1, SeqDef DEF IsList

LEMMA ListProperties ==
    ASSUME NEW s, IsList(s)
    PROVE  Len(s) \in Nat /\ DOMAIN s = 1 .. Len(s)
BY LenProperties DEF IsList

\* A list of the elements of some set is one of its own elements.
LEMMA ListOver ==
    ASSUME NEW S, NEW s \in Seq(S)
    PROVE  IsList(s)
<1>1. Len(s) \in Nat /\ s = [i \in 1 .. Len(s) |-> s[i]]
  <2>1. Len(s) \in Nat /\ s \in [1 .. Len(s) -> S]
    BY LenProperties
  <2>. QED  BY <2>1
<1>. QED  BY <1>1, ListOf

\* Joining two lists.
LEMMA ListsJoined ==
    ASSUME NEW s, NEW t, IsList(s), IsList(t)
    PROVE  /\ IsList(s \o t) /\ Len(s \o t) = Len(s) + Len(t)
           /\ DOMAIN (s \o t) = 1 .. Len(s) + Len(t)
           /\ \A i \in 1 .. Len(s) : (s \o t)[i] = s[i]
           /\ \A i \in 1 .. Len(t) : (s \o t)[Len(s) + i] = t[i]
<1>. DEFINE S == ToSet(s) \cup ToSet(t)
<1>1. s \in Seq(S) /\ t \in Seq(S)
  <2>1. /\ s \in [1 .. Len(s) -> ToSet(s)] /\ Len(s) \in Nat
        /\ t \in [1 .. Len(t) -> ToSet(t)] /\ Len(t) \in Nat
    BY LenProperties DEF IsList
  <2>2. s \in [1 .. Len(s) -> S] /\ t \in [1 .. Len(t) -> S]
    BY <2>1
  <2>. QED  BY <2>1, <2>2, SeqDef
<1>2. Len(s) \in Nat /\ Len(t) \in Nat
  BY ListProperties
<1>3. /\ s \o t \in Seq(S) /\ Len(s \o t) = Len(s) + Len(t)
      /\ \A i \in 1 .. Len(s) + Len(t) :
            (s \o t)[i] = IF i <= Len(s) THEN s[i] ELSE t[i - Len(s)]
  <2>. HIDE DEF S
  <2>. QED  BY <1>1, ConcatProperties
<1>4. IsList(s \o t)
  <2>. HIDE DEF S
  <2>. QED  BY <1>3, ListOver
<1>5. ASSUME NEW i \in 1 .. Len(s) PROVE (s \o t)[i] = s[i]
  <2>1. i \in 1 .. Len(s) + Len(t) /\ i <= Len(s)
    BY <1>2
  <2>. QED  BY <1>3, <2>1
<1>6. ASSUME NEW i \in 1 .. Len(t) PROVE (s \o t)[Len(s) + i] = t[i]
  <2>1. Len(s) + i \in 1 .. Len(s) + Len(t) /\ ~(Len(s) + i <= Len(s)) /\ (Len(s) + i) - Len(s) = i
    BY <1>2
  <2>. QED  BY <1>3, <2>1
<1>. QED  BY <1>3, <1>4, <1>5, <1>6, ListProperties

\* Adding an element at the end.
LEMMA ListAppended ==
    ASSUME NEW s, NEW e, IsList(s)
    PROVE  /\ IsList(Append(s, e)) /\ Len(Append(s, e)) = Len(s) + 1
           /\ \A i \in 1 .. Len(s) : Append(s, e)[i] = s[i]
           /\ Append(s, e)[Len(s) + 1] = e
<1>. DEFINE S == ToSet(s) \cup {e}
<1>1. s \in Seq(S) /\ e \in S
  <2>1. s \in [1 .. Len(s) -> ToSet(s)] /\ Len(s) \in Nat
    BY LenProperties DEF IsList
  <2>2. s \in [1 .. Len(s) -> S]
    BY <2>1
  <2>. QED  BY <2>1, <2>2, SeqDef
<1>. HIDE DEF S
<1>2. /\ Append(s, e) \in Seq(S) /\ Len(Append(s, e)) = Len(s) + 1
      /\ \A i \in 1 .. Len(s) : Append(s, e)[i] = s[i]
      /\ Append(s, e)[Len(s) + 1] = e
  BY <1>1, AppendProperties
<1>3. IsList(Append(s, e))
  BY <1>2, ListOver
<1>. QED  BY <1>2, <1>3

\* Two further elements.
LEMMA ListOfTwo ==
    ASSUME NEW a, NEW b
    PROVE  IsList(<<a, b>>) /\ Len(<<a, b>>) = 2 /\ <<a, b>>[1] = a /\ <<a, b>>[2] = b
<1>1. <<a, b>> \in Seq({a, b})
  OBVIOUS
<1>. QED  BY <1>1, ListOver

-----------------------------------------------------------------------------
(* Iterations *)

\* The first k steps of an iteration.
FirstSteps(f, init, step, k) ==
    /\ DOMAIN f = 0 .. k
    /\ f[0] = init
    /\ \A j \in 0 .. k - 1 : f[j + 1] = step[f[j]]

\* A function that repeats a step.
Iterates(f, S, init, step) ==
    /\ f \in [Nat -> S]
    /\ f[0] = init
    /\ \A k \in Nat : f[k + 1] = step[f[k]]

\* What is defined by repeating a step from some start exists.
LEMMA Iteration ==
    ASSUME NEW S, NEW init \in S, NEW step \in [S -> S]
    PROVE  \E f : Iterates(f, S, init, step)
<1>. DEFINE Steps(k, f) == f \in [0 .. k -> S] /\ FirstSteps(f, init, step, k)
<1>1. \A k \in Nat : \E f : Steps(k, f)
  <2>. DEFINE T == {k \in Nat : ~ \E f : Steps(k, f)}
  <2>. SUFFICES ASSUME T # {} PROVE FALSE
    OBVIOUS
  <2>1. PICK m \in T : \A k \in T : m <= k
    <3>1. T \in SUBSET Nat
      OBVIOUS
    <3>. HIDE DEF T
    <3>. QED  BY <3>1, LeastNumber
  <2>2. m # 0
    <3>1. Steps(0, [j \in 0 .. 0 |-> init])
      BY DEF FirstSteps
    <3>. QED  BY <2>1, <3>1
  <2>3. m \in Nat /\ m - 1 \in Nat /\ ~(m <= m - 1) /\ m - 1 \in 0 .. m - 1
    BY <2>1, <2>2
  <2>4. PICK f : Steps(m - 1, f)
    BY <2>1, <2>3
  <2>. DEFINE g == [j \in 0 .. m |-> IF j = m THEN step[f[m - 1]] ELSE f[j]]
  <2>5. f[m - 1] \in S /\ step[f[m - 1]] \in S
    BY <2>3, <2>4
  <2>6. g \in [0 .. m -> S]
    <3>1. \A j \in 0 .. m : j # m => j \in 0 .. m - 1
      BY <2>3
    <3>. QED  BY <2>4, <2>5, <3>1
  <2>7. g[0] = init
    BY <2>2, <2>3, <2>4 DEF FirstSteps
  <2>8. ASSUME NEW j \in 0 .. m - 1 PROVE g[j + 1] = step[g[j]]
    <3>1. j \in 0 .. m /\ j + 1 \in 0 .. m /\ j # m
      BY <2>3
    <3>2. CASE j = m - 1
      BY <2>3, <3>1, <3>2
    <3>3. CASE j # m - 1
      <4>1. j \in 0 .. (m - 1) - 1 /\ j + 1 # m
        BY <2>3, <3>3
      <4>2. f[j + 1] = step[f[j]]
        BY <2>4, <4>1 DEF FirstSteps
      <4>. QED  BY <3>1, <4>1, <4>2
    <3>. QED  BY <3>2, <3>3
  <2>9. Steps(m, g)
    <3>. HIDE DEF g
    <3>. QED  BY <2>6, <2>7, <2>8 DEF FirstSteps
  <2>. QED  BY <2>1, <2>9
<1>2. ASSUME NEW k \in Nat, NEW l \in Nat, NEW f, NEW g, Steps(k, f), Steps(l, g)
      PROVE  \A j \in 0 .. k : j \in 0 .. l => f[j] = g[j]
  <2>. DEFINE T == {j \in 0 .. k : j \in 0 .. l /\ f[j] # g[j]}
  <2>. SUFFICES ASSUME T # {} PROVE FALSE
    OBVIOUS
  <2>1. PICK m \in T : \A j \in T : m <= j
    <3>1. T \in SUBSET Nat
      OBVIOUS
    <3>. HIDE DEF T
    <3>. QED  BY <3>1, LeastNumber
  <2>2. m # 0
    BY <1>2, <2>1 DEF FirstSteps
  <2>3. m - 1 \in 0 .. k - 1 /\ m - 1 \in 0 .. l - 1 /\ ~(m <= m - 1) /\ (m - 1) + 1 = m
        /\ m - 1 \in 0 .. k /\ m - 1 \in 0 .. l
    BY <2>1, <2>2
  <2>4. f[m - 1] = g[m - 1]
    BY <2>1, <2>3
  <2>5. f[(m - 1) + 1] = step[f[m - 1]] /\ g[(m - 1) + 1] = step[g[m - 1]]
    BY <1>2, <2>3 DEF FirstSteps
  <2>. QED  BY <2>1, <2>3, <2>4, <2>5
<1>. DEFINE first(k) == CHOOSE f : Steps(k, f)
            f == [k \in Nat |-> first(k)[k]]
<1>3. \A k \in Nat : Steps(k, first(k))
  BY <1>1
<1>. HIDE DEF first
<1>4. f \in [Nat -> S]
  <2>1. ASSUME NEW k \in Nat PROVE first(k)[k] \in S
    <3>1. k \in 0 .. k /\ first(k) \in [0 .. k -> S]
      BY <1>3
    <3>. QED  BY <3>1
  <2>. QED  BY <2>1
<1>5. f[0] = init
  BY <1>3 DEF FirstSteps
<1>6. ASSUME NEW k \in Nat PROVE f[k + 1] = step[f[k]]
  <2>1. k \in 0 .. k /\ k \in 0 .. k + 1 /\ k \in 0 .. (k + 1) - 1 /\ k + 1 \in Nat
    OBVIOUS
  <2>2. Steps(k, first(k)) /\ Steps(k + 1, first(k + 1))
    BY <1>3, <2>1
  <2>3. first(k)[k] = first(k + 1)[k]
    BY <1>2, <2>1, <2>2
  <2>4. first(k + 1)[k + 1] = step[first(k + 1)[k]]
    BY <2>1, <2>2 DEF FirstSteps
  <2>. QED  BY <2>1, <2>3, <2>4
<1>. HIDE DEF f
<1>. QED  BY <1>4, <1>5, <1>6 DEF Iterates

\* The values of an iteration.
LEMMA IterationStays ==
    ASSUME NEW S, NEW s, s[0] \in S, \A k \in Nat : s[k] \in S => s[k + 1] \in S
    PROVE  \A k \in Nat : s[k] \in S
<1>. DEFINE T == {k \in Nat : s[k] \notin S}
<1>. SUFFICES ASSUME T # {} PROVE FALSE
  OBVIOUS
<1>1. PICK m \in T : \A k \in T : m <= k
  <2>1. T \in SUBSET Nat
    OBVIOUS
  <2>. HIDE DEF T
  <2>. QED  BY <2>1, LeastNumber
<1>2. m - 1 \in Nat /\ ~(m <= m - 1) /\ (m - 1) + 1 = m
  BY <1>1
<1>. QED  BY <1>1, <1>2

\* An increasing sequence of subsets of a finite set stops within as many steps as the
\* set has elements.
LEMMA ChainsStop ==
    ASSUME NEW S, IsFiniteSet(S), NEW c \in [Nat -> SUBSET S], c[0] # {},
           \A k \in Nat : c[k] \subseteq c[k + 1]
    PROVE  \E k \in 0 .. Cardinality(S) - 1 : c[k + 1] = c[k]
<1>. DEFINE n == Cardinality(S)
<1>. SUFFICES ASSUME \A k \in 0 .. n - 1 : c[k + 1] # c[k] PROVE FALSE
  OBVIOUS
<1>1. n \in Nat
  BY FS_CardinalityType
<1>2. \A k \in Nat : IsFiniteSet(c[k]) /\ Cardinality(c[k]) \in Nat /\ Cardinality(c[k]) <= n
  BY FS_Subset, FS_CardinalityType
<1>. DEFINE T == {k \in 0 .. n : ~(k + 1 <= Cardinality(c[k]))}
<1>3. T = {}
  <2>. SUFFICES ASSUME T # {} PROVE FALSE
    OBVIOUS
  <2>1. PICK m \in T : \A k \in T : m <= k
    <3>1. T \in SUBSET Nat
      BY <1>1
    <3>. HIDE DEF T
    <3>. QED  BY <3>1, LeastNumber
  <2>2. m # 0
    <3>1. Cardinality(c[0]) # 0
      BY <1>2, FS_EmptySet
    <3>. QED  BY <1>2, <2>1, <3>1
  <2>3. m - 1 \in 0 .. n - 1 /\ m - 1 \in 0 .. n /\ ~(m <= m - 1) /\ (m - 1) + 1 = m
        /\ m - 1 \in Nat /\ m \in Nat
    BY <1>1, <2>1, <2>2
  <2>4. m <= Cardinality(c[m - 1])
    BY <2>1, <2>3
  <2>5. c[m - 1] \subseteq c[m] /\ c[m] # c[m - 1]
    BY <2>3
  <2>6. Cardinality(c[m - 1]) <= Cardinality(c[m]) /\ Cardinality(c[m - 1]) # Cardinality(c[m])
    <3>1. IsFiniteSet(c[m]) /\ c[m - 1] \in SUBSET c[m]
      BY <1>2, <2>3, <2>5
    <3>. QED  BY <2>5, <3>1, FS_Subset
  <2>7. Cardinality(c[m - 1]) \in Nat /\ Cardinality(c[m]) \in Nat
    BY <1>2, <2>3
  <2>8. m + 1 <= Cardinality(c[m])
    BY <2>3, <2>4, <2>6, <2>7
  <2>. QED  BY <2>1, <2>8
<1>4. n + 1 <= Cardinality(c[n])
  BY <1>1, <1>3
<1>. QED  BY <1>1, <1>2, <1>4

-----------------------------------------------------------------------------
(* Numbering the elements of a set *)

\* Numbers of a finite set are ranked in their order, from 0 on.
LEMMA Ranks ==
    ASSUME NEW T \in SUBSET Nat, IsFiniteSet(T)
    PROVE  /\ Cardinality(T) \in Nat
           /\ \A a \in T : rank(T, a) \in 0 .. Cardinality(T) - 1 /\ nth(T, rank(T, a)) = a
           /\ \A a, b \in T : a < b => rank(T, a) < rank(T, b)
           /\ \A k \in 0 .. Cardinality(T) - 1 : nth(T, k) \in T /\ rank(T, nth(T, k)) = k
           /\ 0 \in T => rank(T, 0) = 0
<1>. DEFINE n == Cardinality(T)
            before(a) == {other \in T : other < a}
<1>1. n \in Nat
  BY FS_CardinalityType
<1>2. \A a \in Nat : IsFiniteSet(before(a)) /\ Cardinality(before(a)) \in Nat
  BY FS_Subset, FS_CardinalityType
<1>3. \A a \in Nat : rank(T, a) = Cardinality(before(a))
  BY DEF rank
<1>4. ASSUME NEW a \in T PROVE rank(T, a) \in 0 .. n - 1
  <2>1. before(a) \in SUBSET T /\ before(a) # T
    OBVIOUS
  <2>2. Cardinality(before(a)) <= n /\ Cardinality(before(a)) # n
    <3>. HIDE DEF before
    <3>. QED  BY <2>1, FS_Subset
  <2>. QED  BY <1>1, <1>2, <1>3, <2>2
<1>5. ASSUME NEW a \in T, NEW b \in T, a < b PROVE rank(T, a) < rank(T, b)
  <2>1. before(a) \in SUBSET before(b) /\ before(a) # before(b)
    <3>1. \A other \in T : other < a => other < b
      BY <1>5
    <3>2. a \in before(b) /\ a \notin before(a)
      BY <1>5
    <3>. QED  BY <3>1, <3>2
  <2>2. Cardinality(before(a)) <= Cardinality(before(b))
        /\ Cardinality(before(a)) # Cardinality(before(b))
    <3>1. IsFiniteSet(before(b))
      BY <1>2
    <3>. HIDE DEF before
    <3>. QED  BY <2>1, <3>1, FS_Subset
  <2>. QED  BY <1>2, <1>3, <2>2
<1>6. ASSUME NEW a \in T, NEW b \in T, rank(T, a) = rank(T, b) PROVE a = b
  <2>1. ~(a < b) /\ ~(b < a)
    BY <1>4, <1>5, <1>6
  <2>. QED  BY <2>1
<1>7. ASSUME NEW a \in T PROVE nth(T, rank(T, a)) = a
  BY <1>6 DEF nth
<1>8. ASSUME NEW k \in 0 .. n - 1 PROVE \E a \in T : rank(T, a) = k
  <2>. DEFINE f == [a \in T |-> rank(T, a)]
  <2>1. f \in Injection(T, 0 .. n - 1)
    <3>1. f \in [T -> 0 .. n - 1]
      BY <1>4
    <3>2. \A a, b \in T : f[a] = f[b] => a = b
      BY <1>6
    <3>. HIDE DEF f
    <3>. QED  BY <3>1, <3>2 DEF Injection, IsInjective
  <2>2. IsFiniteSet(0 .. n - 1) /\ Cardinality(0 .. n - 1) = n
    BY <1>1, FS_Interval
  <2>3. f \in Surjection(T, 0 .. n - 1)
    <3>. HIDE DEF f
    <3>. QED  BY <2>1, <2>2, FS_Injection
  <2>. QED  BY <2>3 DEF Surjection
<1>9. ASSUME NEW k \in 0 .. n - 1 PROVE nth(T, k) \in T /\ rank(T, nth(T, k)) = k
  BY <1>8 DEF nth
<1>10. ASSUME 0 \in T PROVE rank(T, 0) = 0
  <2>1. \A other \in T : ~(other < 0)
    OBVIOUS
  <2>2. before(0) = {} /\ 0 \in Nat
    BY <2>1
  <2>. HIDE DEF before
  <2>. QED  BY <1>3, <2>2, FS_EmptySet
<1>. QED  BY <1>1, <1>4, <1>5, <1>7, <1>9, <1>10

\* An iteration that does not change a value once never does again.
LEMMA IterationStops ==
    ASSUME NEW s, NEW step, NEW m \in Nat, \A k \in Nat : s[k + 1] = step[s[k]],
           s[m + 1] = s[m]
    PROVE  \A k \in Nat : m <= k => s[k] = s[m]
<1>. DEFINE T == {k \in Nat : m <= k /\ s[k] # s[m]}
<1>. SUFFICES ASSUME T # {} PROVE FALSE
  OBVIOUS
<1>1. PICK n \in T : \A k \in T : n <= k
  <2>1. T \in SUBSET Nat
    OBVIOUS
  <2>. HIDE DEF T
  <2>. QED  BY <2>1, LeastNumber
<1>2. n - 1 \in Nat /\ m <= n - 1 /\ ~(n <= n - 1) /\ (n - 1) + 1 = n
  BY <1>1
<1>3. s[n - 1] = s[m]
  BY <1>1, <1>2
<1>4. s[(n - 1) + 1] = step[s[n - 1]] /\ s[m + 1] = step[s[m]]
  BY <1>2
<1>. QED  BY <1>1, <1>2, <1>3, <1>4

-----------------------------------------------------------------------------
(* Minimization *)

\* The parts of an explicit automaton.
LEMMA ExplicitParts ==
    ASSUME NEW d, IsExplicitDfa(d)
    PROVE  /\ d.state_count \in Nat \ {0} /\ StatesOf(d) \subseteq Nat /\ 0 \in StatesOf(d)
           /\ IsFiniteSet(StatesOf(d)) /\ Cardinality(StatesOf(d)) = d.state_count
           /\ d.final_states \subseteq StatesOf(d)
           /\ d.names \in Seq(Propositions)
           /\ \A state \in StatesOf(d) : DOMAIN d.transition_function[state] = Bits(d.names)
           /\ \A state \in StatesOf(d), bits \in Bits(d.names) :
                    d.transition_function[state][bits] \in StatesOf(d)
<1>1. /\ d.state_count \in Nat \ {0} /\ d.final_states \subseteq StatesOf(d)
      /\ d.names \in Seq(Propositions)
      /\ d.transition_function \in [StatesOf(d) -> [Bits(d.names) -> StatesOf(d)]]
  BY DEF IsExplicitDfa
<1>2. StatesOf(d) \subseteq Nat /\ 0 \in StatesOf(d)
  BY <1>1 DEF StatesOf
<1>3. IsFiniteSet(StatesOf(d)) /\ Cardinality(StatesOf(d)) = d.state_count
  <2>1. 0 \in Int /\ d.state_count - 1 \in Int /\ ~(0 > d.state_count - 1)
        /\ (d.state_count - 1) - 0 + 1 = d.state_count
    BY <1>1
  <2>. QED  BY <2>1, FS_Interval DEF StatesOf
<1>. QED  BY <1>1, <1>2, <1>3

\* The states that are kept contain the initial one and all that follow.
LEMMA ReachedStates ==
    ASSUME NEW d, IsExplicitDfa(d)
    PROVE  /\ reached(d) \subseteq StatesOf(d) /\ 0 \in reached(d)
           /\ \A state \in reached(d), bits \in Bits(d.names) :
                    d.transition_function[state][bits] \in reached(d)
<1>. DEFINE Q == StatesOf(d)
            n == d.state_count
            following(X) == UNION {Range(d.transition_function[state]) : state \in X}
            step == [X \in SUBSET Q |-> X \cup following(X)]
            IsReaching(g) == g = [k \in Nat |-> IF k = 0 THEN {0}
                                                ELSE g[k - 1] \cup following(g[k - 1])]
            s == CHOOSE g : IsReaching(g)
<1>1. ASSUME NEW X \in SUBSET Q PROVE following(X) \subseteq Q
  <2>1. ASSUME NEW state \in X, NEW next \in Range(d.transition_function[state]) PROVE next \in Q
    <3>1. state \in Q
      OBVIOUS
    <3>2. /\ DOMAIN d.transition_function[state] = Bits(d.names)
          /\ \A bits \in Bits(d.names) : d.transition_function[state][bits] \in Q
      BY <3>1, ExplicitParts
    <3>3. PICK bits \in DOMAIN d.transition_function[state] : next = d.transition_function[state][bits]
      BY <2>1 DEF Range
    <3>. HIDE DEF Q
    <3>. QED  BY <3>2, <3>3
  <2>2. ASSUME NEW next \in following(X) PROVE next \in Q
    <3>1. PICK state \in X : next \in Range(d.transition_function[state])
      BY <2>2, Zenon
    <3>. QED  BY <2>1, <3>1, Zenon
  <2>. HIDE DEF Q, following
  <2>. QED  BY <2>2
<1>2. step \in [SUBSET Q -> SUBSET Q]
  <2>. HIDE DEF following, Q
  <2>. QED  BY <1>1
<1>3. {0} \in SUBSET Q
  BY ExplicitParts
<1>4. PICK f \in [Nat -> SUBSET Q] : f[0] = {0} /\ \A k \in Nat : f[k + 1] = step[f[k]]
  <2>. DEFINE S == SUBSET Q
  <2>1. {0} \in S /\ step \in [S -> S]
    BY <1>2, <1>3
  <2>. HIDE DEF step, S
  <2>2. \E f : Iterates(f, S, {0}, step)
    BY <2>1, Iteration
  <2>. QED  BY <2>2 DEF Iterates, S
<1>5. IsReaching(f)
  <2>1. ASSUME NEW k \in Nat
        PROVE  f[k] = IF k = 0 THEN {0} ELSE f[k - 1] \cup following(f[k - 1])
    <3>. HIDE DEF following, Q
    <3>1. CASE k = 0
      BY <1>4, <3>1
    <3>2. CASE k # 0
      <4>1. k - 1 \in Nat /\ (k - 1) + 1 = k
        BY <3>2
      <4>2. f[(k - 1) + 1] = step[f[k - 1]] /\ f[k - 1] \in SUBSET Q
        BY <1>4, <4>1
      <4>. QED  BY <3>2, <4>1, <4>2
    <3>. QED  BY <3>1, <3>2
  <2>2. f = [k \in Nat |-> f[k]]
    BY <1>4
  <2>. HIDE DEF following
  <2>. QED  BY <2>1, <2>2
<1>6. IsReaching(s)
  <2>. HIDE DEF IsReaching
  <2>. QED  BY <1>5
<1>7. reached(d) = s[n]
  BY DEF reached
<1>. HIDE DEF s
<1>8. s[0] = {0} /\ \A k \in Nat : s[k + 1] = s[k] \cup following(s[k])
  <2>1. \A k \in Nat : s[k] = IF k = 0 THEN {0} ELSE s[k - 1] \cup following(s[k - 1])
    <3>. HIDE DEF following
    <3>. QED  BY <1>6
  <2>. HIDE DEF following
  <2>2. ASSUME NEW k \in Nat PROVE s[k + 1] = s[k] \cup following(s[k])
    <3>1. k + 1 \in Nat /\ k + 1 # 0 /\ (k + 1) - 1 = k
      OBVIOUS
    <3>. QED  BY <2>1, <3>1
  <2>. QED  BY <2>1, <2>2
<1>9. \A k \in Nat : s[k] \in SUBSET Q
  <2>1. s[0] \in SUBSET Q
    BY <1>3, <1>8
  <2>2. \A k \in Nat : s[k] \in SUBSET Q => s[k + 1] \in SUBSET Q
    <3>. HIDE DEF following, Q
    <3>. QED  BY <1>1, <1>8
  <2>. HIDE DEF Q
  <2>. QED  BY <2>1, <2>2, IterationStays
<1>. DEFINE c == [k \in Nat |-> s[k]]
<1>10. \E k \in 0 .. n - 1 : c[k + 1] = c[k]
  <2>1. c \in [Nat -> SUBSET Q] /\ c[0] # {} /\ \A k \in Nat : c[k] \subseteq c[k + 1]
    <3>. HIDE DEF following, Q
    <3>. QED  BY <1>8, <1>9
  <2>2. IsFiniteSet(Q) /\ Cardinality(Q) = n
    BY ExplicitParts
  <2>. HIDE DEF c, Q, n
  <2>. QED  BY <2>1, <2>2, ChainsStop
<1>11. PICK m \in 0 .. n - 1 : s[m + 1] = s[m]
  BY <1>10, ExplicitParts
<1>12. m \in Nat /\ n \in Nat /\ m <= n
  BY ExplicitParts
<1>13. \A k \in Nat : s[k + 1] = step[s[k]]
  <2>. HIDE DEF following, Q
  <2>. QED  BY <1>8, <1>9
<1>14. s[n] = s[m]
  <2>. HIDE DEF step, n
  <2>. QED  BY <1>11, <1>12, <1>13, IterationStops
<1>15. following(s[n]) \subseteq s[n]
  <2>. HIDE DEF following
  <2>. QED  BY <1>8, <1>11, <1>12, <1>14
<1>16. 0 \in s[n]
  <2>1. \A k \in Nat : s[k] \in {X \in SUBSET Q : 0 \in X}
    <3>. DEFINE S == {X \in SUBSET Q : 0 \in X}
    <3>1. s[0] \in S /\ \A k \in Nat : s[k] \in S => s[k + 1] \in S
      <4>. HIDE DEF following, Q
      <4>. QED  BY <1>8, <1>9
    <3>. HIDE DEF S
    <3>2. \A k \in Nat : s[k] \in S
      BY <3>1, IterationStays
    <3>. QED  BY <3>2 DEF S
  <2>. QED  BY <1>12, <2>1
<1>17. ASSUME NEW state \in s[n], NEW bits \in Bits(d.names)
       PROVE  d.transition_function[state][bits] \in s[n]
  <2>1. state \in Q
    BY <1>9, <1>12
  <2>2. d.transition_function[state][bits] \in Range(d.transition_function[state])
    BY <2>1, ExplicitParts DEF Range
  <2>. QED  BY <1>15, <2>2
<1>. QED  BY <1>7, <1>9, <1>12, <1>16, <1>17

IsEquivalence(P, Q) ==
    /\ P \subseteq Q \X Q
    /\ \A a \in Q : <<a, a>> \in P
    /\ \A a, b \in Q : <<a, b>> \in P => <<b, a>> \in P
    /\ \A a, b, c \in Q : <<a, b>> \in P /\ <<b, c>> \in P => <<a, c>> \in P

\* The pairs that every letter leads to a pair again.
Agreeing(d, P) ==
    {pair \in P : \A bits \in Bits(d.names) :
        <<d.transition_function[pair[1]][bits], d.transition_function[pair[2]][bits]>> \in P}

\* It is an equivalence again.
LEMMA AgreeingStates ==
    ASSUME NEW d, IsExplicitDfa(d), NEW P, IsEquivalence(P, StatesOf(d))
    PROVE  IsEquivalence(Agreeing(d, P), StatesOf(d)) /\ Agreeing(d, P) \subseteq P
<1>. DEFINE Q == StatesOf(d)
            after(a, bits) == d.transition_function[a][bits]
<1>1. \A a \in Q, bits \in Bits(d.names) : after(a, bits) \in Q
  BY ExplicitParts
<1>2. Agreeing(d, P) \subseteq P /\ P \subseteq Q \X Q
  BY DEF Agreeing, IsEquivalence
<1>3. \A a, b \in Q : <<a, b>> \in Agreeing(d, P) <=>
          <<a, b>> \in P /\ \A bits \in Bits(d.names) : <<after(a, bits), after(b, bits)>> \in P
  BY DEF Agreeing
<1>. HIDE DEF Q, after
<1>4. /\ \A a \in Q : <<a, a>> \in P
      /\ \A a, b \in Q : <<a, b>> \in P => <<b, a>> \in P
      /\ \A a, b, c \in Q : <<a, b>> \in P /\ <<b, c>> \in P => <<a, c>> \in P
  BY DEF IsEquivalence, Q
<1>5. \A a \in Q : <<a, a>> \in Agreeing(d, P)
  BY <1>1, <1>3, <1>4
<1>6. \A a, b \in Q : <<a, b>> \in Agreeing(d, P) => <<b, a>> \in Agreeing(d, P)
  BY <1>1, <1>3, <1>4
<1>7. ASSUME NEW a \in Q, NEW b \in Q, NEW c \in Q,
             <<a, b>> \in Agreeing(d, P), <<b, c>> \in Agreeing(d, P)
      PROVE  <<a, c>> \in Agreeing(d, P)
  BY <1>1, <1>3, <1>4, <1>7
<1>8. Agreeing(d, P) \subseteq Q \X Q
  BY <1>2
<1>. QED  BY <1>2, <1>5, <1>6, <1>7, <1>8 DEF IsEquivalence, Q

\* The states that come first in their class.
Firsts(P, Q) == {a \in Q : \A b \in Q : <<a, b>> \in P => a <= b}

\* Of two nested equivalences with the same first states, the two are the same.
LEMMA SameFirsts ==
    ASSUME NEW Q \in SUBSET Nat, NEW P, NEW R, IsEquivalence(P, Q), IsEquivalence(R, Q),
           R \subseteq P, Firsts(P, Q) = Firsts(R, Q)
    PROVE  R = P
<1>1. ASSUME NEW a \in Q PROVE \E b \in Firsts(R, Q) : <<a, b>> \in R
  <2>. DEFINE T == {b \in Q : <<a, b>> \in R}
  <2>1. T \in SUBSET Nat /\ a \in T
    BY DEF IsEquivalence
  <2>2. PICK b \in T : \A other \in T : b <= other
    <3>. HIDE DEF T
    <3>. QED  BY <2>1, LeastNumber
  <2>3. \A other \in Q : <<b, other>> \in R => other \in T
    BY DEF IsEquivalence
  <2>4. b \in Firsts(R, Q)
    BY <2>2, <2>3 DEF Firsts
  <2>. QED  BY <2>2, <2>4
<1>2. ASSUME NEW a \in Q, NEW b \in Q, <<a, b>> \in P PROVE <<a, b>> \in R
  <2>1. PICK f \in Firsts(R, Q) : <<a, f>> \in R
    BY <1>1
  <2>2. PICK g \in Firsts(R, Q) : <<b, g>> \in R
    BY <1>1
  <2>3. f \in Q /\ g \in Q
    BY DEF Firsts
  <2>4. <<a, f>> \in P /\ <<b, g>> \in P /\ <<f, g>> \in P /\ <<g, f>> \in P
    <3>1. <<a, f>> \in P /\ <<b, g>> \in P
      BY <2>1, <2>2
    <3>2. <<f, a>> \in P /\ <<g, b>> \in P /\ <<b, a>> \in P
      BY <1>2, <2>3, <3>1 DEF IsEquivalence
    <3>3. <<f, b>> \in P /\ <<g, a>> \in P
      BY <1>2, <2>3, <3>2 DEF IsEquivalence
    <3>. QED  BY <2>3, <3>1, <3>3 DEF IsEquivalence
  <2>5. f <= g /\ g <= f
    BY <2>3, <2>4 DEF Firsts
  <2>6. f = g
    BY <2>3, <2>5
  <2>7. <<g, b>> \in R
    BY <2>2, <2>3 DEF IsEquivalence
  <2>. QED  BY <2>1, <2>3, <2>6, <2>7 DEF IsEquivalence
<1>3. ASSUME NEW pair \in P PROVE pair \in R
  <2>1. pair \in Q \X Q
    BY DEF IsEquivalence
  <2>2. pair[1] \in Q /\ pair[2] \in Q /\ pair = <<pair[1], pair[2]>>
    BY <2>1
  <2>. QED  BY <1>2, <2>2
<1>. QED  BY <1>3

\* The pairs that no word tells apart.
LEMMA EquivalentStates ==
    ASSUME NEW d, IsExplicitDfa(d)
    PROVE  /\ IsEquivalence(equivalent(d), StatesOf(d))
           /\ \A a, b \in StatesOf(d) : <<a, b>> \in equivalent(d) =>
                /\ a \in d.final_states <=> b \in d.final_states
                /\ \A bits \in Bits(d.names) :
                    <<d.transition_function[a][bits], d.transition_function[b][bits]>> \in equivalent(d)
<1>. DEFINE Q == StatesOf(d)
            n == d.state_count
            start == {pair \in Q \X Q : pair[1] \in d.final_states <=> pair[2] \in d.final_states}
            S == {P \in SUBSET (Q \X Q) : IsEquivalence(P, Q) /\ P \subseteq start}
            step == [P \in S |-> Agreeing(d, P)]
            IsSplitting(g) == g = [k \in Nat |->
                IF k = 0 THEN start ELSE Agreeing(d, g[k - 1])]
            s == CHOOSE g : IsSplitting(g)
<1>1. start \in S
  BY DEF IsEquivalence
<1>2. \A P \in S : Agreeing(d, P) \in S
  <2>. HIDE DEF start
  <2>1. \A P \in S : IsEquivalence(Agreeing(d, P), Q) /\ Agreeing(d, P) \subseteq P
    BY AgreeingStates
  <2>. QED  BY <2>1
<1>3. step \in [S -> S]
  <2>. HIDE DEF S
  <2>. QED  BY <1>2
<1>4. PICK f \in [Nat -> S] : f[0] = start /\ \A k \in Nat : f[k + 1] = step[f[k]]
  <2>. HIDE DEF step, S, start
  <2>1. \E f : Iterates(f, S, start, step)
    BY <1>1, <1>3, Iteration
  <2>. QED  BY <2>1 DEF Iterates
<1>5. IsSplitting(f)
  <2>. HIDE DEF S, start
  <2>1. ASSUME NEW k \in Nat PROVE f[k] = IF k = 0 THEN start ELSE Agreeing(d, f[k - 1])
    <3>1. CASE k = 0
      BY <1>4, <3>1
    <3>2. CASE k # 0
      <4>1. k - 1 \in Nat /\ (k - 1) + 1 = k
        BY <3>2
      <4>2. f[(k - 1) + 1] = step[f[k - 1]] /\ f[k - 1] \in S
        BY <1>4, <4>1
      <4>. QED  BY <3>2, <4>1, <4>2
    <3>. QED  BY <3>1, <3>2
  <2>2. f = [k \in Nat |-> f[k]]
    BY <1>4
  <2>. QED  BY <2>1, <2>2
<1>6. IsSplitting(s)
  <2>. HIDE DEF IsSplitting
  <2>. QED  BY <1>5
<1>7. equivalent(d) = s[n]
  BY DEF equivalent, Agreeing
<1>. HIDE DEF s
<1>8. s[0] = start /\ \A k \in Nat : s[k + 1] = Agreeing(d, s[k])
  <2>. HIDE DEF start
  <2>1. \A k \in Nat : s[k] = IF k = 0 THEN start ELSE Agreeing(d, s[k - 1])
    BY <1>6
  <2>2. ASSUME NEW k \in Nat PROVE s[k + 1] = Agreeing(d, s[k])
    <3>1. k + 1 \in Nat /\ k + 1 # 0 /\ (k + 1) - 1 = k
      OBVIOUS
    <3>. QED  BY <2>1, <3>1
  <2>. QED  BY <2>1, <2>2
<1>9. \A k \in Nat : s[k] \in S
  <2>1. s[0] \in S /\ \A k \in Nat : s[k] \in S => s[k + 1] \in S
    <3>. HIDE DEF S, start
    <3>. QED  BY <1>1, <1>2, <1>8
  <2>. HIDE DEF S
  <2>. QED  BY <2>1, IterationStays
<1>10. \A k \in Nat : IsEquivalence(s[k], Q) /\ s[k + 1] \subseteq s[k] /\ s[k] \subseteq start
  BY <1>8, <1>9 DEF Agreeing
<1>. DEFINE c == [k \in Nat |-> Firsts(s[k], Q)]
<1>11. \E k \in 0 .. n - 1 : c[k + 1] = c[k]
  <2>. HIDE DEF start
  <2>1. c \in [Nat -> SUBSET Q]
    BY DEF Firsts
  <2>2. \A k \in Nat : c[k] \subseteq c[k + 1]
    BY <1>10 DEF Firsts
  <2>3. 0 \in c[0]
    BY ExplicitParts DEF Firsts
  <2>4. IsFiniteSet(Q) /\ Cardinality(Q) = n
    BY ExplicitParts
  <2>. HIDE DEF c, Q, n
  <2>. QED  BY <2>1, <2>2, <2>3, <2>4, ChainsStop
<1>12. PICK m \in 0 .. n - 1 : c[m + 1] = c[m]
  BY <1>11
<1>13. m \in Nat /\ m + 1 \in Nat /\ n \in Nat /\ m <= n
  BY ExplicitParts
<1>14. s[m + 1] = s[m]
  <2>1. Firsts(s[m], Q) = Firsts(s[m + 1], Q)
    BY <1>12, <1>13
  <2>2. Q \in SUBSET Nat
    BY ExplicitParts
  <2>3. IsEquivalence(s[m], Q) /\ IsEquivalence(s[m + 1], Q) /\ s[m + 1] \subseteq s[m]
    BY <1>10, <1>13
  <2>. HIDE DEF Q
  <2>. QED  BY <2>1, <2>2, <2>3, SameFirsts
<1>15. s[n] = s[m]
  <2>1. \A k \in Nat : s[k + 1] = step[s[k]]
    <3>. HIDE DEF S
    <3>. QED  BY <1>8, <1>9
  <2>. HIDE DEF step, n
  <2>. QED  BY <1>13, <1>14, <2>1, IterationStops
<1>16. Agreeing(d, s[n]) = s[n]
  BY <1>8, <1>13, <1>14, <1>15
<1>17. IsEquivalence(s[n], Q) /\ s[n] \subseteq start
  BY <1>10, <1>13
<1>18. ASSUME NEW a \in Q, NEW b \in Q, <<a, b>> \in s[n]
       PROVE  /\ a \in d.final_states <=> b \in d.final_states
              /\ \A bits \in Bits(d.names) :
                    <<d.transition_function[a][bits], d.transition_function[b][bits]>> \in s[n]
  <2>1. <<a, b>> \in start /\ <<a, b>> \in Agreeing(d, s[n])
    BY <1>16, <1>17, <1>18
  <2>. QED  BY <2>1 DEF Agreeing
<1>. QED  BY <1>7, <1>17, <1>18

\* What judges words: somewhere to be, where to start, and where letters lead.
IsJudge(J) ==
    /\ J.start \in J.places
    /\ \A at \in J.places, letter \in Alphabet : J.step[at][letter] \in J.places

\* An automaton and a judge that read the same word are related at every step.
Agrees(d, J, R) ==
    /\ <<0, J.start>> \in R
    /\ \A state \in StatesOf(d), at \in J.places, letter \in Alphabet : <<state, at>> \in R =>
            <<d.transition_function[state][seen(d.names, letter)], J.step[at][letter]>> \in R

\* The automaton accepts the words that lead the judge to a good place.
Recognizes(d, J, good) ==
    /\ IsExplicitDfa(d)
    /\ \E R : /\ Agrees(d, J, R)
              /\ \A state \in StatesOf(d), at \in J.places : <<state, at>> \in R =>
                    (state \in d.final_states <=> at \in good)

\* What an automaton sees of a letter.
LEMMA SeenBits ==
    ASSUME NEW names \in Seq(Propositions), NEW letter \in Alphabet
    PROVE  seen(names, letter) \in Bits(names)
<1>1. \A i \in DOMAIN names : names[i] \in Propositions
  BY LenProperties
<1>2. \A i \in DOMAIN names : letter[names[i]] \in {0, 1}
  BY <1>1 DEF Alphabet
<1>. QED  BY <1>2 DEF seen, Bits

\* An automaton that follows another one.
LEMMA SameLanguage ==
    ASSUME NEW d, NEW J, NEW good, IsJudge(J), Recognizes(d, J, good),
           NEW e, IsExplicitDfa(e), NEW P,
           <<0, 0>> \in P,
           \A a \in StatesOf(d), b \in StatesOf(e) : <<a, b>> \in P =>
                /\ a \in d.final_states <=> b \in e.final_states
                /\ \A letter \in Alphabet :
                     <<d.transition_function[a][seen(d.names, letter)],
                       e.transition_function[b][seen(e.names, letter)]>> \in P
    PROVE  Recognizes(e, J, good)
<1>1. PICK R : /\ Agrees(d, J, R)
               /\ \A state \in StatesOf(d), at \in J.places : <<state, at>> \in R =>
                    (state \in d.final_states <=> at \in good)
  BY DEF Recognizes
<1>. DEFINE T == {pair \in StatesOf(e) \X J.places :
                    \E a \in StatesOf(d) : <<a, pair[2]>> \in R /\ <<a, pair[1]>> \in P}
<1>2. \A b \in StatesOf(e), at \in J.places : <<b, at>> \in T <=>
          \E a \in StatesOf(d) : <<a, at>> \in R /\ <<a, b>> \in P
  OBVIOUS
<1>3. /\ 0 \in StatesOf(d) /\ 0 \in StatesOf(e) /\ J.start \in J.places
      /\ \A a \in StatesOf(d), letter \in Alphabet :
            d.transition_function[a][seen(d.names, letter)] \in StatesOf(d)
      /\ \A a \in StatesOf(e), letter \in Alphabet :
            e.transition_function[a][seen(e.names, letter)] \in StatesOf(e)
      /\ \A at \in J.places, letter \in Alphabet : J.step[at][letter] \in J.places
  BY ExplicitParts, SeenBits DEF Recognizes, IsJudge
<1>4. <<0, J.start>> \in T
  BY <1>1, <1>2, <1>3 DEF Agrees
<1>5. ASSUME NEW b \in StatesOf(e), NEW at \in J.places, NEW letter \in Alphabet, <<b, at>> \in T
      PROVE  <<e.transition_function[b][seen(e.names, letter)], J.step[at][letter]>> \in T
  <2>1. PICK a \in StatesOf(d) : <<a, at>> \in R /\ <<a, b>> \in P
    BY <1>2, <1>5
  <2>. DEFINE a2 == d.transition_function[a][seen(d.names, letter)]
              b2 == e.transition_function[b][seen(e.names, letter)]
              at2 == J.step[at][letter]
  <2>2. a2 \in StatesOf(d) /\ b2 \in StatesOf(e) /\ at2 \in J.places
    BY <1>3
  <2>3. <<a2, at2>> \in R /\ <<a2, b2>> \in P
    BY <1>1, <2>1 DEF Agrees
  <2>. HIDE DEF a2, b2, at2, T
  <2>4. <<b2, at2>> \in T
    BY <1>2, <2>2, <2>3
  <2>. QED  BY <2>4 DEF b2, at2
<1>. HIDE DEF T
<1>6. ASSUME NEW b \in StatesOf(e), NEW at \in J.places, <<b, at>> \in T
      PROVE  b \in e.final_states <=> at \in good
  BY <1>1, <1>2, <1>6
<1>7. Agrees(e, J, T)
  BY <1>4, <1>5 DEF Agrees
<1>. QED  BY <1>6, <1>7 DEF Recognizes

-----------------------------------------------------------------------------
(* The operations keep the language *)

\* The map gives each name of the automaton a place with the same name.
LEMMA RenamedKeepsLanguage ==
    ASSUME NEW d, NEW J, NEW good, IsJudge(J), Recognizes(d, J, good),
           NEW names \in Seq(Propositions), NEW map,
           \A i \in DOMAIN d.names : map[i] \in DOMAIN names /\ names[map[i]] = d.names[i]
    PROVE  /\ Recognizes(dfaReplaceIndices(d, map, names), J, good)
           /\ dfaReplaceIndices(d, map, names).names = names
<1>. DEFINE e == dfaReplaceIndices(d, map, names)
            read(bits) == [i \in DOMAIN d.names |-> bits[map[i]]]
<1>1. IsExplicitDfa(d)
  BY DEF Recognizes
<1>3. /\ e.names = names /\ e.state_count = d.state_count /\ e.final_states = d.final_states
      /\ e.transition_function = [state \in StatesOf(d) |-> [bits \in Bits(names) |->
            d.transition_function[state][read(bits)]]]
  BY DEF dfaReplaceIndices
<1>. HIDE DEF e
<1>4. StatesOf(e) = StatesOf(d)
  BY <1>3 DEF StatesOf
<1>5. \A bits \in Bits(names) : read(bits) \in Bits(d.names)
  BY DEF Bits
<1>6. \A state \in StatesOf(d), bits \in Bits(names) :
          d.transition_function[state][read(bits)] \in StatesOf(d)
  BY <1>1, <1>5, ExplicitParts
<1>7. IsExplicitDfa(e)
  <2>. HIDE DEF read
  <2>. QED  BY <1>1, <1>3, <1>4, <1>6 DEF IsExplicitDfa
<1>8. \A letter \in Alphabet : read(seen(names, letter)) = seen(d.names, letter)
  BY DEF seen
<1>9. \A state \in StatesOf(d), letter \in Alphabet :
          e.transition_function[state][seen(names, letter)] =
              d.transition_function[state][seen(d.names, letter)]
  <2>1. \A letter \in Alphabet : seen(names, letter) \in Bits(names)
    BY SeenBits
  <2>. HIDE DEF read
  <2>. QED  BY <1>3, <1>8, <2>1
<1>10. Recognizes(e, J, good)
  <2>. DEFINE P == {<<state, state>> : state \in StatesOf(d)}
  <2>1. <<0, 0>> \in P
    BY <1>1, ExplicitParts
  <2>2. \A a, b \in StatesOf(d) : <<a, b>> \in P <=> a = b
    OBVIOUS
  <2>3. \A a \in StatesOf(d), letter \in Alphabet :
            d.transition_function[a][seen(d.names, letter)] \in StatesOf(d)
    BY <1>1, ExplicitParts, SeenBits
  <2>. HIDE DEF P
  <2>4. ASSUME NEW a \in StatesOf(d), NEW b \in StatesOf(e), <<a, b>> \in P
        PROVE  /\ a \in d.final_states <=> b \in e.final_states
               /\ \A letter \in Alphabet :
                     <<d.transition_function[a][seen(d.names, letter)],
                       e.transition_function[b][seen(e.names, letter)]>> \in P
    <3>1. a = b
      BY <1>4, <2>2, <2>4
    <3>2. ASSUME NEW letter \in Alphabet
          PROVE  <<d.transition_function[a][seen(d.names, letter)],
                   e.transition_function[a][seen(e.names, letter)]>> \in P
      <4>1. e.transition_function[a][seen(e.names, letter)] =
                d.transition_function[a][seen(d.names, letter)]
        BY <1>3, <1>9
      <4>2. d.transition_function[a][seen(d.names, letter)] \in StatesOf(d)
        BY <2>3
      <4>. QED  BY <2>2, <4>1, <4>2
    <3>. QED  BY <1>3, <3>1, <3>2
  <2>. QED  BY <1>7, <2>1, <2>4, SameLanguage
<1>. QED  BY <1>3, <1>10 DEF e

\* A minimized automaton accepts the same words.
THEOREM MinimalKeepsLanguage ==
    ASSUME NEW d, NEW J, NEW good, IsJudge(J), Recognizes(d, J, good)
    PROVE  Recognizes(dfaMinimize(d), J, good) /\ dfaMinimize(d).names = d.names
<1>. DEFINE reachable == reached(d)
            pairs == equivalent(d)
            class == [state \in reachable |-> {other \in reachable : <<state, other>> \in pairs}]
            representatives == {least(class[state]) : state \in reachable}
            number == [state \in reachable |-> rank(representatives, least(class[state]))]
            after(state, bits) == d.transition_function[state][bits]
            n == Cardinality(representatives)
            e == dfaMinimize(d)
<1>0. IsExplicitDfa(d)
  BY DEF Recognizes
<1>1. /\ reachable \subseteq StatesOf(d) /\ 0 \in reachable
      /\ \A state \in reachable, bits \in Bits(d.names) : after(state, bits) \in reachable
  BY <1>0, ReachedStates
<1>2. /\ StatesOf(d) \subseteq Nat /\ IsFiniteSet(StatesOf(d)) /\ d.names \in Seq(Propositions)
      /\ d.final_states \subseteq StatesOf(d)
  BY <1>0, ExplicitParts
<1>3. /\ IsEquivalence(pairs, StatesOf(d))
      /\ \A a, b \in StatesOf(d) : <<a, b>> \in pairs =>
            /\ a \in d.final_states <=> b \in d.final_states
            /\ \A bits \in Bits(d.names) : <<after(a, bits), after(b, bits)>> \in pairs
  BY <1>0, EquivalentStates
<1>4. /\ e.names = d.names /\ e.state_count = n
      /\ e.final_states = {number[state] : state \in d.final_states \cap reachable}
      /\ e.transition_function = [k \in 0 .. n - 1 |-> [bits \in Bits(d.names) |->
                number[after(nth(representatives, k), bits)]]]
  BY DEF dfaMinimize
<1>. HIDE DEF e, reachable, pairs
<1>5. ASSUME NEW a \in reachable
      PROVE  /\ least(class[a]) \in reachable /\ <<a, least(class[a])>> \in pairs
             /\ \A b \in reachable : <<a, b>> \in pairs => least(class[a]) <= b
  <2>. DEFINE T == {other \in reachable : <<a, other>> \in pairs}
  <2>1. class[a] = T
    OBVIOUS
  <2>2. T \in SUBSET Nat /\ a \in T
    BY <1>1, <1>2, <1>3 DEF IsEquivalence
  <2>3. \E state \in T : \A other \in T : state <= other
    <3>. HIDE DEF T
    <3>. QED  BY <2>2, LeastNumber
  <2>4. least(T) \in T /\ \A other \in T : least(T) <= other
    <3>. HIDE DEF T
    <3>. QED  BY <2>3 DEF least
  <2>. HIDE DEF class
  <2>. QED  BY <2>1, <2>4
<1>6. ASSUME NEW a \in reachable, NEW b \in reachable, <<a, b>> \in pairs
      PROVE  least(class[a]) = least(class[b])
  <2>1. a \in StatesOf(d) /\ b \in StatesOf(d)
    BY <1>1
  <2>2. \A c \in StatesOf(d) : <<a, c>> \in pairs <=> <<b, c>> \in pairs
    BY <1>3, <1>6, <2>1 DEF IsEquivalence
  <2>3. class[a] = class[b]
    BY <1>1, <2>2
  <2>. QED  BY <2>3
<1>. HIDE DEF class
<1>7. representatives \in SUBSET Nat /\ IsFiniteSet(representatives)
      /\ representatives \subseteq reachable
  <2>1. representatives \subseteq reachable
    BY <1>5
  <2>2. representatives \subseteq StatesOf(d)
    BY <1>1, <2>1
  <2>. HIDE DEF representatives
  <2>. QED  BY <1>2, <2>1, <2>2, FS_Subset
<1>8. \A a \in reachable : least(class[a]) \in representatives
  OBVIOUS
<1>9. \A r \in representatives : \E a \in reachable : r = least(class[a])
  OBVIOUS
<1>. HIDE DEF representatives
<1>10. /\ n \in Nat
       /\ \A a \in representatives :
            rank(representatives, a) \in 0 .. n - 1 /\ nth(representatives, rank(representatives, a)) = a
       /\ \A k \in 0 .. n - 1 :
            nth(representatives, k) \in representatives /\ rank(representatives, nth(representatives, k)) = k
       /\ 0 \in representatives => rank(representatives, 0) = 0
  BY <1>7, Ranks
<1>11. ASSUME NEW a \in reachable
       PROVE  /\ number[a] \in 0 .. n - 1
              /\ nth(representatives, number[a]) = least(class[a])
  BY <1>8, <1>10
<1>12. 0 \in 0 .. n - 1 /\ number[0] = 0
  <2>1. least(class[0]) \in Nat /\ least(class[0]) <= 0
    <3>1. <<0, 0>> \in pairs
      BY <1>1, <1>3 DEF IsEquivalence
    <3>. QED  BY <1>1, <1>2, <1>5, <3>1
  <2>2. least(class[0]) = 0
    BY <2>1
  <2>. QED  BY <1>1, <1>8, <1>10, <1>11, <2>2
<1>13. n \in Nat \ {0} /\ StatesOf(e) = 0 .. n - 1
  BY <1>4, <1>10, <1>12 DEF StatesOf
<1>. DEFINE class_of(a) == least(class[a])
<1>14. \A a, b \in reachable : <<a, b>> \in pairs => number[a] = number[b]
  BY <1>6
<1>15. \A a, b \in reachable : number[a] = number[b] => <<a, b>> \in pairs
  <2>. SUFFICES ASSUME NEW a \in reachable, NEW b \in reachable, number[a] = number[b]
                PROVE  <<a, b>> \in pairs
    OBVIOUS
  <2>1. class_of(a) = class_of(b)
    BY <1>11
  <2>2. <<a, class_of(a)>> \in pairs /\ <<b, class_of(a)>> \in pairs /\ class_of(a) \in reachable
    BY <1>5, <2>1
  <2>3. a \in StatesOf(d) /\ b \in StatesOf(d) /\ class_of(a) \in StatesOf(d)
    BY <1>1, <2>2
  <2>. QED  BY <1>3, <2>2, <2>3 DEF IsEquivalence
<1>. DEFINE k_of(a) == number[a]
<1>16. ASSUME NEW k \in 0 .. n - 1
       PROVE  nth(representatives, k) \in reachable /\ number[nth(representatives, k)] = k
  <2>1. PICK a \in reachable : nth(representatives, k) = class_of(a)
    BY <1>9, <1>10
  <2>2. <<a, class_of(a)>> \in pairs /\ class_of(a) \in reachable
    BY <1>5
  <2>3. number[a] = number[class_of(a)]
    BY <1>14, <2>2
  <2>4. rank(representatives, class_of(a)) = k
    BY <1>10, <2>1
  <2>. QED  BY <2>1, <2>2, <2>3, <2>4
<1>17. \A k \in 0 .. n - 1, bits \in Bits(d.names) :
          e.transition_function[k][bits] = number[after(nth(representatives, k), bits)]
  BY <1>4
<1>18. \A a \in reachable : number[a] \in 0 .. n - 1
  BY <1>11
<1>. HIDE DEF number, after, n
<1>19. IsExplicitDfa(e)
  <2>1. e.final_states \subseteq 0 .. n - 1
    BY <1>4, <1>18
  <2>2. e.transition_function \in [0 .. n - 1 -> [Bits(d.names) -> 0 .. n - 1]]
    <3>1. \A k \in 0 .. n - 1, bits \in Bits(d.names) :
              number[after(nth(representatives, k), bits)] \in 0 .. n - 1
      BY <1>1, <1>16, <1>18
    <3>. QED  BY <1>4, <3>1
  <2>. QED  BY <1>2, <1>4, <1>13, <2>1, <2>2 DEF IsExplicitDfa
<1>. DEFINE P == {<<a, number[a]>> : a \in reachable}
<1>20. \A a \in StatesOf(d), k \in StatesOf(e) : <<a, k>> \in P <=> a \in reachable /\ k = number[a]
  OBVIOUS
<1>21. <<0, 0>> \in P
  BY <1>1, <1>12
<1>. HIDE DEF P
<1>22. ASSUME NEW a \in StatesOf(d), NEW k \in StatesOf(e), <<a, k>> \in P
       PROVE  /\ a \in d.final_states <=> k \in e.final_states
              /\ \A letter \in Alphabet :
                    <<d.transition_function[a][seen(d.names, letter)],
                      e.transition_function[k][seen(e.names, letter)]>> \in P
  <2>1. a \in reachable /\ k = number[a] /\ k \in 0 .. n - 1
    BY <1>13, <1>20, <1>22
  <2>2. a \in d.final_states => k \in e.final_states
    BY <1>4, <2>1
  <2>3. ASSUME k \in e.final_states PROVE a \in d.final_states
    <3>1. PICK b \in d.final_states \cap reachable : k = number[b]
      BY <1>4, <2>3
    <3>2. <<a, b>> \in pairs
      BY <1>15, <2>1, <3>1
    <3>. QED  BY <1>1, <1>3, <2>1, <3>1, <3>2
  <2>4. ASSUME NEW letter \in Alphabet
        PROVE  <<d.transition_function[a][seen(d.names, letter)],
                 e.transition_function[k][seen(e.names, letter)]>> \in P
    <3>. DEFINE bits == seen(d.names, letter)
                r == nth(representatives, k)
    <3>1. bits \in Bits(d.names)
      BY <1>2, SeenBits
    <3>. HIDE DEF bits
    <3>2. r \in reachable /\ number[r] = number[a]
      BY <1>16, <2>1
    <3>3. <<a, r>> \in pairs
      BY <1>15, <2>1, <3>2
    <3>4. after(a, bits) \in reachable /\ after(r, bits) \in reachable
      BY <1>1, <2>1, <3>1, <3>2
    <3>5. <<after(a, bits), after(r, bits)>> \in pairs
      BY <1>1, <1>3, <2>1, <3>1, <3>2, <3>3
    <3>6. number[after(a, bits)] = number[after(r, bits)]
      BY <1>14, <3>4, <3>5
    <3>7. e.transition_function[k][bits] = number[after(a, bits)]
      BY <1>17, <2>1, <3>1, <3>6
    <3>8. after(a, bits) \in StatesOf(d) /\ number[after(a, bits)] \in StatesOf(e)
      BY <1>1, <1>13, <1>18, <3>4
    <3>9. <<after(a, bits), e.transition_function[k][bits]>> \in P
      BY <1>20, <3>4, <3>7, <3>8
    <3>. QED  BY <1>4, <3>9 DEF after, bits
  <2>. QED  BY <2>2, <2>3, <2>4
<1>23. Recognizes(e, J, good)
  BY <1>19, <1>21, <1>22, SameLanguage
<1>. QED  BY <1>4, <1>23 DEF e

\* The places of a table of m rows with n entries, counted row by row.
CountedRowByRow(m, n) ==
    /\ \A q \in 0 .. m * n - 1 : q \div n \in 0 .. m - 1 /\ q % n \in 0 .. n - 1
    /\ \A a \in 0 .. m - 1, b \in 0 .. n - 1 :
            /\ a * n + b \in 0 .. m * n - 1
            /\ (a * n + b) \div n = a /\ (a * n + b) % n = b

\* The pairs of states of a product are numbered like this.
LEMMA RowByRow ==
    ASSUME NEW m \in Nat, NEW n \in Nat \ {0}
    PROVE  CountedRowByRow(m, n)
<1>1. ASSUME NEW q \in 0 .. m * n - 1 PROVE q \div n \in 0 .. m - 1 /\ q % n \in 0 .. n - 1
  <2>1. m * n \in Nat /\ q \in Nat /\ q < m * n
    OBVIOUS
  <2>2. q \div n \in Int /\ q % n \in 0 .. n - 1 /\ q = n * (q \div n) + (q % n)
    OBVIOUS
  <2>3. q \div n >= 0
    BY <2>1, <2>2
  <2>4. q \div n < m
    <3>1. SUFFICES ASSUME q \div n >= m PROVE FALSE
      BY <2>2
    <3>2. n * (q \div n) >= n * m
      BY <2>2, <3>1
    <3>. QED  BY <2>1, <2>2, <3>2
  <2>. QED  BY <2>2, <2>3, <2>4
<1>2. ASSUME NEW a \in 0 .. m - 1, NEW b \in 0 .. n - 1
      PROVE  /\ a * n + b \in 0 .. m * n - 1
             /\ (a * n + b) \div n = a /\ (a * n + b) % n = b
  <2>1. a * n \in Nat /\ a * n + b \in Nat
    OBVIOUS
  <2>2. (a + 1) * n <= m * n
    OBVIOUS
  <2>3. (a + 1) * n = a * n + n
    OBVIOUS
  <2>4. a * n + b \in 0 .. m * n - 1
    BY <2>1, <2>2, <2>3
  <2>5. (a * n + b) \div n = a
    OBVIOUS
  <2>6. (a * n + b) % n = b
    OBVIOUS
  <2>. QED  BY <2>4, <2>5, <2>6
<1>. QED  BY <1>1, <1>2 DEF CountedRowByRow

Joined(type, good, other) == IF type = "AND" THEN good \cap other ELSE good \cup other

\* The product of two automata over the same names.
LEMMA ProductKeepsLanguage ==
    ASSUME NEW J, IsJudge(J), NEW lhs, NEW rhs, NEW good, NEW other,
           Recognizes(lhs, J, good), Recognizes(rhs, J, other), lhs.names = rhs.names, NEW type
    PROVE  /\ Recognizes(dfaProduct(lhs, rhs, type), J, Joined(type, good, other))
           /\ dfaProduct(lhs, rhs, type).names = lhs.names
<1>. DEFINE m == lhs.state_count
            n == rhs.state_count
            Q == 0 .. m * n - 1
            e == dfaProduct(lhs, rhs, type)
            accepts(state) == IF type = "AND"
                              THEN state \div n \in lhs.final_states /\ state % n \in rhs.final_states
                              ELSE state \div n \in lhs.final_states \/ state % n \in rhs.final_states
            after(state, bits) == lhs.transition_function[state \div n][bits] * n
                                    + rhs.transition_function[state % n][bits]
<1>1. /\ IsExplicitDfa(lhs) /\ IsExplicitDfa(rhs)
      /\ m \in Nat \ {0} /\ n \in Nat \ {0} /\ lhs.names \in Seq(Propositions)
      /\ StatesOf(lhs) = 0 .. m - 1 /\ StatesOf(rhs) = 0 .. n - 1
      /\ \A state \in 0 .. m - 1, bits \in Bits(lhs.names) :
            lhs.transition_function[state][bits] \in 0 .. m - 1
      /\ \A state \in 0 .. n - 1, bits \in Bits(lhs.names) :
            rhs.transition_function[state][bits] \in 0 .. n - 1
  <2>1. IsExplicitDfa(lhs) /\ IsExplicitDfa(rhs)
    BY DEF Recognizes
  <2>2. StatesOf(lhs) = 0 .. m - 1 /\ StatesOf(rhs) = 0 .. n - 1
    BY DEF StatesOf
  <2>. QED  BY <2>1, <2>2, ExplicitParts
<1>2. /\ \A q \in Q : q \div n \in 0 .. m - 1 /\ q % n \in 0 .. n - 1
      /\ \A a \in 0 .. m - 1, b \in 0 .. n - 1 :
            a * n + b \in Q /\ (a * n + b) \div n = a /\ (a * n + b) % n = b
  <2>1. m \in Nat /\ n \in Nat \ {0}
    BY <1>1
  <2>. HIDE DEF m, n
  <2>2. CountedRowByRow(m, n)
    BY <2>1, RowByRow
  <2>. QED  BY <2>2 DEF CountedRowByRow
<1>3. /\ e.names = lhs.names /\ e.state_count = m * n
      /\ e.final_states = {state \in Q : accepts(state)}
      /\ e.transition_function = [state \in Q |-> [bits \in Bits(lhs.names) |-> after(state, bits)]]
  BY DEF dfaProduct
<1>4. StatesOf(e) = Q
  BY <1>3 DEF StatesOf
<1>5. m * n \in Nat \ {0}
  BY <1>1
<1>. HIDE DEF m, n, Q, e
<1>6. \A state \in Q, bits \in Bits(lhs.names) :
        /\ after(state, bits) \in Q
        /\ after(state, bits) \div n = lhs.transition_function[state \div n][bits]
        /\ after(state, bits) % n = rhs.transition_function[state % n][bits]
  <2>. SUFFICES ASSUME NEW state \in Q, NEW bits \in Bits(lhs.names)
                PROVE  /\ after(state, bits) \in Q
                       /\ after(state, bits) \div n = lhs.transition_function[state \div n][bits]
                       /\ after(state, bits) % n = rhs.transition_function[state % n][bits]
    OBVIOUS
  <2>. DEFINE a == lhs.transition_function[state \div n][bits]
              b == rhs.transition_function[state % n][bits]
  <2>1. state \div n \in 0 .. m - 1 /\ state % n \in 0 .. n - 1
    BY <1>2
  <2>2. a \in 0 .. m - 1 /\ b \in 0 .. n - 1
    BY <1>1, <2>1
  <2>. HIDE DEF a, b
  <2>3. a * n + b \in Q /\ (a * n + b) \div n = a /\ (a * n + b) % n = b
    BY <1>2, <2>2
  <2>. QED  BY <2>3 DEF a, b
<1>. HIDE DEF after, accepts
<1>7. IsExplicitDfa(e)
  BY <1>1, <1>3, <1>4, <1>5, <1>6 DEF IsExplicitDfa
<1>8. PICK R : /\ Agrees(lhs, J, R)
               /\ \A state \in StatesOf(lhs), at \in J.places : <<state, at>> \in R =>
                    (state \in lhs.final_states <=> at \in good)
  BY DEF Recognizes
<1>9. PICK S : /\ Agrees(rhs, J, S)
               /\ \A state \in StatesOf(rhs), at \in J.places : <<state, at>> \in S =>
                    (state \in rhs.final_states <=> at \in other)
  BY DEF Recognizes
<1>. DEFINE T == {pair \in Q \X J.places : /\ <<pair[1] \div n, pair[2]>> \in R
                                           /\ <<pair[1] % n, pair[2]>> \in S}
<1>10. \A q \in Q, at \in J.places :
          <<q, at>> \in T <=> <<q \div n, at>> \in R /\ <<q % n, at>> \in S
  OBVIOUS
<1>. HIDE DEF T
<1>11. <<0, J.start>> \in T
  <2>1. 0 \in 0 .. m - 1 /\ 0 \in 0 .. n - 1 /\ 0 * n + 0 = 0
    BY <1>1
  <2>2. 0 \in Q /\ 0 \div n = 0 /\ 0 % n = 0
    BY <1>2, <2>1
  <2>3. J.start \in J.places /\ <<0, J.start>> \in R /\ <<0, J.start>> \in S
    BY <1>8, <1>9 DEF Agrees, IsJudge
  <2>. QED  BY <1>10, <2>2, <2>3
<1>12. ASSUME NEW q \in Q, NEW at \in J.places, NEW letter \in Alphabet, <<q, at>> \in T
       PROVE  <<e.transition_function[q][seen(e.names, letter)], J.step[at][letter]>> \in T
  <2>. DEFINE bits == seen(lhs.names, letter)
              a == q \div n
              b == q % n
              at2 == J.step[at][letter]
  <2>1. bits \in Bits(lhs.names)
    BY <1>1, SeenBits
  <2>2. a \in StatesOf(lhs) /\ b \in StatesOf(rhs) /\ <<a, at>> \in R /\ <<b, at>> \in S
    BY <1>1, <1>2, <1>10, <1>12
  <2>3. at2 \in J.places
    BY DEF IsJudge
  <2>4. <<lhs.transition_function[a][bits], at2>> \in R
        /\ <<rhs.transition_function[b][bits], at2>> \in S
    BY <1>8, <1>9, <2>2 DEF Agrees
  <2>5. e.transition_function[q][bits] = after(q, bits) /\ after(q, bits) \in Q
        /\ after(q, bits) \div n = lhs.transition_function[a][bits]
        /\ after(q, bits) % n = rhs.transition_function[b][bits]
    <3>. HIDE DEF bits
    <3>. QED  BY <1>3, <1>6, <2>1
  <2>. HIDE DEF bits, a, b, at2
  <2>6. <<after(q, bits), at2>> \in T
    BY <1>10, <2>3, <2>4, <2>5
  <2>. QED  BY <1>3, <2>5, <2>6 DEF bits, at2
<1>13. Agrees(e, J, T)
  BY <1>4, <1>11, <1>12 DEF Agrees
<1>14. ASSUME NEW q \in Q, NEW at \in J.places, <<q, at>> \in T
       PROVE  q \in e.final_states <=> at \in Joined(type, good, other)
  <2>1. q \div n \in StatesOf(lhs) /\ q % n \in StatesOf(rhs)
    BY <1>1, <1>2
  <2>2. /\ q \div n \in lhs.final_states <=> at \in good
        /\ q % n \in rhs.final_states <=> at \in other
    BY <1>8, <1>9, <1>10, <1>14, <2>1
  <2>3. q \in e.final_states <=> accepts(q)
    BY <1>3
  <2>. QED  BY <2>2, <2>3 DEF accepts, Joined
<1>15. Recognizes(e, J, Joined(type, good, other))
  BY <1>4, <1>7, <1>13, <1>14 DEF Recognizes
<1>. QED  BY <1>3, <1>15 DEF e

\* The complement.
LEMMA ComplementKeepsLanguage ==
    ASSUME NEW J, IsJudge(J), NEW d, NEW good, Recognizes(d, J, good)
    PROVE  Recognizes(dfa_complement(d), J, J.places \ good)
<1>. DEFINE e == dfa_complement(d)
<1>1. IsExplicitDfa(d)
  BY DEF Recognizes
<1>2. /\ e.names = d.names /\ e.state_count = d.state_count
      /\ e.transition_function = d.transition_function
      /\ e.final_states = StatesOf(d) \ d.final_states
  BY DEF dfa_complement
<1>. HIDE DEF e
<1>3. StatesOf(e) = StatesOf(d)
  BY <1>2 DEF StatesOf
<1>4. IsExplicitDfa(e)
  BY <1>1, <1>2, <1>3 DEF IsExplicitDfa
<1>5. PICK R : /\ Agrees(d, J, R)
               /\ \A state \in StatesOf(d), at \in J.places : <<state, at>> \in R =>
                    (state \in d.final_states <=> at \in good)
  BY DEF Recognizes
<1>6. Agrees(e, J, R)
  BY <1>2, <1>3, <1>5 DEF Agrees
<1>7. \A state \in StatesOf(e), at \in J.places : <<state, at>> \in R =>
          (state \in e.final_states <=> at \in J.places \ good)
  BY <1>2, <1>3, <1>5
<1>8. Recognizes(e, J, J.places \ good)
  BY <1>4, <1>6, <1>7 DEF Recognizes
<1>. QED  BY <1>8 DEF e

-----------------------------------------------------------------------------
(* The queue of automata *)

\* Where an element of a list without its i-th one was before.
Skipping(i, k) == IF k < i THEN k ELSE k + 1

\* A list without one of its elements.
LEMMA ListWithout ==
    ASSUME NEW S, NEW s \in Seq(S), NEW i \in 1 .. Len(s)
    PROVE  /\ RemoveAt(s, i) \in Seq(S) /\ Len(RemoveAt(s, i)) = Len(s) - 1
           /\ \A k \in 1 .. Len(s) - 1 :
                /\ Skipping(i, k) \in 1 .. Len(s)
                /\ RemoveAt(s, i)[k] = s[Skipping(i, k)]
           /\ \A m \in 1 .. Len(s) : m # i => \E k \in 1 .. Len(s) - 1 : m = Skipping(i, k)
<1>. DEFINE n == Len(s)
            before == SubSeq(s, 1, i - 1)
            after == SubSeq(s, i + 1, n)
<1>1. n \in Nat /\ i \in Nat /\ i - 1 \in Nat /\ \A k \in 1 .. n : s[k] \in S
  BY LenProperties, ElementOfSeq
<1>2. /\ before \in Seq(S) /\ Len(before) = i - 1
      /\ \A k \in 1 .. i - 1 : before[k] = s[k]
  <2>1. 1 \in Int /\ i - 1 \in Int /\ \A k \in 1 .. i - 1 : s[k] \in S
    BY <1>1
  <2>2. /\ before \in Seq(S) /\ Len(before) = IF 1 <= i - 1 THEN (i - 1) - 1 + 1 ELSE 0
        /\ \A k \in 1 .. (i - 1) - 1 + 1 : before[k] = s[1 + k - 1]
    BY <2>1, SubSeqProperties
  <2>3. (IF 1 <= i - 1 THEN (i - 1) - 1 + 1 ELSE 0) = i - 1
    BY <1>1
  <2>4. \A k \in 1 .. i - 1 : k \in 1 .. (i - 1) - 1 + 1 /\ 1 + k - 1 = k
    BY <1>1
  <2>. HIDE DEF before
  <2>. QED  BY <2>2, <2>3, <2>4
<1>3. /\ after \in Seq(S) /\ Len(after) = n - i
      /\ \A k \in 1 .. n - i : after[k] = s[i + k]
  <2>1. i + 1 \in Int /\ n \in Int /\ \A k \in i + 1 .. n : s[k] \in S
    BY <1>1
  <2>2. /\ after \in Seq(S) /\ Len(after) = IF i + 1 <= n THEN n - (i + 1) + 1 ELSE 0
        /\ \A k \in 1 .. n - (i + 1) + 1 : after[k] = s[(i + 1) + k - 1]
    <3>. HIDE DEF n
    <3>. QED  BY <2>1, SubSeqProperties
  <2>3. (IF i + 1 <= n THEN n - (i + 1) + 1 ELSE 0) = n - i
    BY <1>1
  <2>4. \A k \in 1 .. n - i : k \in 1 .. n - (i + 1) + 1 /\ (i + 1) + k - 1 = i + k
    BY <1>1
  <2>. HIDE DEF after, n
  <2>. QED  BY <2>2, <2>3, <2>4
<1>4. RemoveAt(s, i) = before \o after
  BY DEF RemoveAt
<1>. HIDE DEF before, after
<1>5. /\ before \o after \in Seq(S) /\ Len(before \o after) = Len(before) + Len(after)
      /\ \A k \in 1 .. Len(before) + Len(after) :
            (before \o after)[k] = IF k <= Len(before) THEN before[k] ELSE after[k - Len(before)]
  BY <1>2, <1>3, ConcatProperties
<1>6. Len(before) + Len(after) = n - 1
  BY <1>1, <1>2, <1>3
<1>7. ASSUME NEW k \in 1 .. n - 1
      PROVE  Skipping(i, k) \in 1 .. n /\ (before \o after)[k] = s[Skipping(i, k)]
  <2>1. CASE k < i
    <3>1. k <= Len(before) /\ k \in 1 .. i - 1 /\ k \in 1 .. n /\ Skipping(i, k) = k
      BY <1>1, <1>2, <2>1 DEF Skipping
    <3>. QED  BY <1>2, <1>5, <1>6, <3>1
  <2>2. CASE ~(k < i)
    <3>1. /\ ~(k <= Len(before)) /\ k - (i - 1) \in 1 .. n - i /\ i + (k - (i - 1)) = k + 1
          /\ k + 1 \in 1 .. n /\ Skipping(i, k) = k + 1
      BY <1>1, <1>2, <2>2 DEF Skipping
    <3>2. (before \o after)[k] = after[k - (i - 1)]
      BY <1>2, <1>5, <1>6, <3>1
    <3>. QED  BY <1>3, <3>1, <3>2
  <2>. QED  BY <2>1, <2>2
<1>8. ASSUME NEW m \in 1 .. n, m # i PROVE \E k \in 1 .. n - 1 : m = Skipping(i, k)
  <2>1. CASE m < i
    <3>1. m \in 1 .. n - 1 /\ Skipping(i, m) = m
      BY <1>1, <2>1 DEF Skipping
    <3>. QED  BY <3>1
  <2>2. CASE ~(m < i)
    <3>1. m - 1 \in 1 .. n - 1 /\ Skipping(i, m - 1) = m
      BY <1>1, <1>8, <2>2 DEF Skipping
    <3>. QED  BY <3>1
  <2>. QED  BY <2>1, <2>2
<1>. QED  BY <1>4, <1>5, <1>6, <1>7, <1>8

\* The place of a smallest automaton.
LEMMA TopOfQueue ==
    ASSUME NEW S, NEW queue \in Seq(S), queue # <<>>,
           \A i \in 1 .. Len(queue) : queue[i].state_count \in Nat
    PROVE  top(queue) \in 1 .. Len(queue)
<1>. DEFINE T == {queue[i].state_count : i \in 1 .. Len(queue)}
<1>1. Len(queue) \in Nat /\ DOMAIN queue = 1 .. Len(queue) /\ 1 \in 1 .. Len(queue)
  BY LenProperties, EmptySeq
<1>2. T \in SUBSET Nat /\ T # {}
  BY <1>1
<1>3. PICK m \in T : \A k \in T : m <= k
  <2>. HIDE DEF T
  <2>. QED  BY <1>2, LeastNumber
<1>4. PICK i \in 1 .. Len(queue) : m = queue[i].state_count
  BY <1>3
<1>5. \A j \in DOMAIN queue : queue[i].state_count <= queue[j].state_count
  BY <1>1, <1>3, <1>4
<1>. QED  BY <1>1, <1>4, <1>5 DEF top

\* Where the elements of a queue after two calls of pop() were before.
TwoArePopped(queue, S) ==
    \E a, b \in 1 .. Len(queue) : \E was \in [1 .. Len(queue) - 2 -> 1 .. Len(queue)] :
        /\ queue[top(queue)] = queue[a] /\ pop(queue)[top(pop(queue))] = queue[b]
        /\ pop(pop(queue)) \in Seq(S) /\ Len(pop(pop(queue))) = Len(queue) - 2
        /\ \A k \in 1 .. Len(queue) - 2 : pop(pop(queue))[k] = queue[was[k]]
        /\ \A i \in 1 .. Len(queue) : i = a \/ i = b \/ \E k \in 1 .. Len(queue) - 2 : i = was[k]

\* pop() is called twice.
LEMMA TwoPopped ==
    ASSUME NEW S, NEW queue \in Seq(S), Len(queue) > 1,
           \A i \in 1 .. Len(queue) : queue[i].state_count \in Nat
    PROVE  TwoArePopped(queue, S)
<1>. DEFINE n == Len(queue)
            a == top(queue)
            rest == pop(queue)
            c == top(rest)
<1>1. n \in Nat /\ n > 1 /\ queue # <<>>
  BY LenProperties, EmptySeq
<1>2. a \in 1 .. n
  BY <1>1, TopOfQueue
<1>3. /\ rest \in Seq(S) /\ Len(rest) = n - 1
      /\ \A k \in 1 .. n - 1 : Skipping(a, k) \in 1 .. n /\ rest[k] = queue[Skipping(a, k)]
      /\ \A m \in 1 .. n : m # a => \E k \in 1 .. n - 1 : m = Skipping(a, k)
  <2>. HIDE DEF a
  <2>. QED  BY <1>2, ListWithout DEF pop, a
<1>. HIDE DEF n, a, rest
<1>4. c \in 1 .. n - 1
  <2>1. rest # <<>>
    BY <1>1, <1>3, EmptySeq
  <2>2. \A i \in 1 .. Len(rest) : rest[i].state_count \in Nat
    BY <1>3 DEF n
  <2>. QED  BY <1>3, <2>1, <2>2, TopOfQueue
<1>5. /\ pop(rest) \in Seq(S) /\ Len(pop(rest)) = (n - 1) - 1
      /\ \A k \in 1 .. (n - 1) - 1 :
            Skipping(c, k) \in 1 .. n - 1 /\ pop(rest)[k] = rest[Skipping(c, k)]
      /\ \A m \in 1 .. n - 1 : m # c => \E k \in 1 .. (n - 1) - 1 : m = Skipping(c, k)
  <2>1. pop(rest) = RemoveAt(rest, c)
    BY DEF pop
  <2>. HIDE DEF c
  <2>2. c \in 1 .. Len(rest) /\ rest \in Seq(S)
    BY <1>3, <1>4
  <2>3. /\ RemoveAt(rest, c) \in Seq(S) /\ Len(RemoveAt(rest, c)) = Len(rest) - 1
        /\ \A k \in 1 .. Len(rest) - 1 :
             Skipping(c, k) \in 1 .. Len(rest) /\ RemoveAt(rest, c)[k] = rest[Skipping(c, k)]
        /\ \A m \in 1 .. Len(rest) : m # c => \E k \in 1 .. Len(rest) - 1 : m = Skipping(c, k)
    BY <2>2, ListWithout
  <2>4. Len(rest) = n - 1
    BY <1>3
  <2>. QED  BY <2>1, <2>3, <2>4
<1>6. (n - 1) - 1 = n - 2
  BY <1>1
<1>. HIDE DEF c
<1>. DEFINE b == Skipping(a, c)
            was == [k \in 1 .. n - 2 |-> Skipping(a, Skipping(c, k))]
<1>7. b \in 1 .. n /\ rest[c] = queue[b]
  BY <1>3, <1>4
<1>8. was \in [1 .. n - 2 -> 1 .. n]
  BY <1>3, <1>5, <1>6
<1>9. \A k \in 1 .. n - 2 : pop(rest)[k] = queue[was[k]]
  BY <1>3, <1>5, <1>6
<1>10. ASSUME NEW i \in 1 .. n
       PROVE  i = a \/ i = b \/ \E k \in 1 .. n - 2 : i = was[k]
  <2>. SUFFICES ASSUME i # a, i # b PROVE \E k \in 1 .. n - 2 : i = was[k]
    OBVIOUS
  <2>1. PICK m \in 1 .. n - 1 : i = Skipping(a, m)
    BY <1>3
  <2>2. PICK k \in 1 .. (n - 1) - 1 : m = Skipping(c, k)
    BY <1>5, <2>1
  <2>. QED  BY <1>6, <2>1, <2>2
<1>. HIDE DEF b, was
<1>11. pop(rest) \in Seq(S) /\ Len(pop(rest)) = n - 2
  BY <1>5, <1>6
<1>12. /\ queue[top(queue)] = queue[a] /\ rest[top(rest)] = queue[b]
       /\ pop(rest) \in Seq(S) /\ Len(pop(rest)) = n - 2
       /\ \A k \in 1 .. n - 2 : pop(rest)[k] = queue[was[k]]
       /\ \A i \in 1 .. n : i = a \/ i = b \/ \E k \in 1 .. n - 2 : i = was[k]
  BY <1>7, <1>9, <1>10, <1>11 DEF a, c
<1>13. \E x, y \in 1 .. n : \E w \in [1 .. n - 2 -> 1 .. n] :
                /\ queue[top(queue)] = queue[x] /\ rest[top(rest)] = queue[y]
                /\ pop(rest) \in Seq(S) /\ Len(pop(rest)) = n - 2
                /\ \A k \in 1 .. n - 2 : pop(rest)[k] = queue[w[k]]
                /\ \A i \in 1 .. n : i = x \/ i = y \/ \E k \in 1 .. n - 2 : i = w[k]
  BY <1>2, <1>7, <1>8, <1>12, Zenon
<1>. QED  BY <1>13, Zenon DEF n, rest, TwoArePopped

\* The automata that minimization gives.
MinimalDfas(names) ==
    {d \in [names : {names}, state_count : Nat, final_states : SUBSET Nat,
            transition_function : UNION {[0 .. n - 1 -> [Bits(names) -> 0 .. n - 1]] : n \in Nat}] :
        IsExplicitDfa(d)}

\* A minimized automaton is one of these.
LEMMA MinimizationGivesRecord ==
    ASSUME NEW d, IsExplicitDfa(dfaMinimize(d)), dfaMinimize(d).names = d.names
    PROVE  dfaMinimize(d) \in MinimalDfas(d.names)
<1>. DEFINE e == dfaMinimize(d)
<1>1. e = [names |-> e.names, state_count |-> e.state_count, final_states |-> e.final_states,
           transition_function |-> e.transition_function]
  BY DEF dfaMinimize
<1>. HIDE DEF e
<1>2. /\ e.state_count \in Nat /\ e.final_states \subseteq 0 .. e.state_count - 1
      /\ e.transition_function \in
            [0 .. e.state_count - 1 -> [Bits(e.names) -> 0 .. e.state_count - 1]]
  BY DEF IsExplicitDfa, StatesOf, e
<1>3. e.final_states \in SUBSET Nat
  BY <1>2
<1>. DEFINE F(n) == [0 .. n - 1 -> [Bits(e.names) -> 0 .. n - 1]]
<1>4. e.transition_function \in UNION {F(n) : n \in Nat}
  <2>1. e.transition_function \in F(e.state_count)
    BY <1>2
  <2>. HIDE DEF F
  <2>. QED  BY <1>2, <2>1
<1>5. e \in [names : {e.names}, state_count : Nat, final_states : SUBSET Nat,
             transition_function : UNION {F(n) : n \in Nat}]
  <2>. HIDE DEF F
  <2>. QED  BY <1>1, <1>2, <1>3, <1>4
<1>. QED  BY <1>5 DEF MinimalDfas, e

\* What a queue may hold: automata over the same names, given or minimized.
Queued(given, names, J) ==
    {d \in given \cup MinimalDfas(names) :
        d.names = names /\ \E good \in SUBSET J.places : Recognizes(d, J, good)}

\* What n automata accept together.
Together(type, n, goods, at) ==
    IF type = "AND" THEN \A i \in 1 .. n : at \in goods[i] ELSE \E i \in 1 .. n : at \in goods[i]

\* The queues whose automata accept the words that lead the judge to a good place.
QueuesFor(V, J, type, good) ==
    {queue \in Seq(V) :
        /\ Len(queue) > 0
        /\ \E goods \in [1 .. Len(queue) -> SUBSET J.places] :
            /\ \A i \in 1 .. Len(queue) : Recognizes(queue[i], J, goods[i])
            /\ \A at \in J.places : at \in good <=> Together(type, Len(queue), goods, at)}

\* Two automata of the queue are replaced by their product: one automaton less, and
\* the queue accepts the same words.
LEMMA TwoReplaced ==
    ASSUME NEW J, IsJudge(J), NEW given, NEW names, NEW type, NEW good,
           NEW queue \in QueuesFor(Queued(given, names, J), J, type, good), Len(queue) > 1
    PROVE  /\ replace_two(queue, type) \in QueuesFor(Queued(given, names, J), J, type, good)
           /\ Len(replace_two(queue, type)) = Len(queue) - 1
<1>. DEFINE V == Queued(given, names, J)
            n == Len(queue)
            rest == pop(queue)
            lhs == queue[top(queue)]
            rhs == rest[top(rest)]
            e == dfaMinimize(dfaProduct(lhs, rhs, type))
<1>1. PICK goods \in [1 .. n -> SUBSET J.places] :
            /\ \A i \in 1 .. n : Recognizes(queue[i], J, goods[i])
            /\ \A at \in J.places : at \in good <=> Together(type, n, goods, at)
  BY DEF QueuesFor
<1>2. queue \in Seq(V) /\ n \in Nat /\ n > 1 /\ \A i \in 1 .. n : queue[i] \in V
  <2>1. queue \in Seq(V)
    BY DEF QueuesFor
  <2>. QED  BY <2>1, LenProperties, ElementOfSeq
<1>3. \A i \in 1 .. n : queue[i].names = names /\ queue[i].state_count \in Nat
  BY <1>1, <1>2 DEF Queued, Recognizes, IsExplicitDfa
<1>. HIDE DEF V, n
<1>4. PICK a \in 1 .. n, b \in 1 .. n : \E was \in [1 .. n - 2 -> 1 .. n] :
            /\ lhs = queue[a] /\ rhs = queue[b]
            /\ pop(rest) \in Seq(V) /\ Len(pop(rest)) = n - 2
            /\ \A k \in 1 .. n - 2 : pop(rest)[k] = queue[was[k]]
            /\ \A i \in 1 .. n : i = a \/ i = b \/ \E k \in 1 .. n - 2 : i = was[k]
  <2>1. queue \in Seq(V) /\ Len(queue) > 1 /\ \A i \in 1 .. Len(queue) : queue[i].state_count \in Nat
    BY <1>2, <1>3 DEF n
  <2>2. TwoArePopped(queue, V)
    BY <2>1, TwoPopped
  <2>. QED  BY <2>2, Zenon DEF n, TwoArePopped
<1>4a. PICK was \in [1 .. n - 2 -> 1 .. n] :
            /\ lhs = queue[a] /\ rhs = queue[b]
            /\ pop(rest) \in Seq(V) /\ Len(pop(rest)) = n - 2
            /\ \A k \in 1 .. n - 2 : pop(rest)[k] = queue[was[k]]
            /\ \A i \in 1 .. n : i = a \/ i = b \/ \E k \in 1 .. n - 2 : i = was[k]
  BY <1>4
<1>5. replace_two(queue, type) = Append(pop(rest), e)
  BY DEF replace_two
<1>. DEFINE kept == pop(rest)
<1>. HIDE DEF lhs, rhs
<1>6. Recognizes(e, J, Joined(type, goods[a], goods[b])) /\ e.names = names
      /\ e \in MinimalDfas(names)
  <2>. DEFINE p == dfaProduct(lhs, rhs, type)
  <2>1. Recognizes(lhs, J, goods[a]) /\ Recognizes(rhs, J, goods[b])
        /\ lhs.names = names /\ rhs.names = names
    BY <1>1, <1>3, <1>4a
  <2>2. Recognizes(p, J, Joined(type, goods[a], goods[b])) /\ p.names = names
    BY <2>1, ProductKeepsLanguage
  <2>. HIDE DEF p
  <2>3. /\ Recognizes(dfaMinimize(p), J, Joined(type, goods[a], goods[b]))
        /\ dfaMinimize(p).names = p.names
    BY <2>2, MinimalKeepsLanguage
  <2>4. dfaMinimize(p) \in MinimalDfas(p.names)
    BY <2>3, MinimizationGivesRecord DEF Recognizes
  <2>. QED  BY <2>2, <2>3, <2>4 DEF p
<1>. HIDE DEF e, rest
<1>7. Joined(type, goods[a], goods[b]) \in SUBSET J.places
  <2>1. goods[a] \in SUBSET J.places /\ goods[b] \in SUBSET J.places
    OBVIOUS
  <2>. QED  BY <2>1 DEF Joined
<1>8. e \in V
  BY <1>6, <1>7 DEF V, Queued
<1>. DEFINE m == n - 1
            goods2 == [k \in 1 .. m |-> IF k = m THEN Joined(type, goods[a], goods[b])
                                        ELSE goods[was[k]]]
            queue2 == Append(kept, e)
<1>9. m \in Nat /\ m > 0 /\ m \in 1 .. m /\ n - 2 + 1 = m /\ 1 .. m = (1 .. n - 2) \cup {m}
      /\ m \notin 1 .. n - 2
  BY <1>2
<1>10. /\ queue2 \in Seq(V) /\ Len(queue2) = m
       /\ \A k \in 1 .. n - 2 : queue2[k] = queue[was[k]]
       /\ queue2[m] = e
  <2>. HIDE DEF kept, m
  <2>1. kept \in Seq(V) /\ Len(kept) = n - 2 /\ \A k \in 1 .. n - 2 : kept[k] = queue[was[k]]
    BY <1>4a DEF kept
  <2>2. /\ queue2 \in Seq(V) /\ Len(queue2) = Len(kept) + 1
        /\ \A k \in 1 .. Len(kept) : queue2[k] = kept[k]
        /\ queue2[Len(kept) + 1] = e
    BY <1>8, <2>1, AppendProperties
  <2>. HIDE DEF queue2
  <2>. QED  BY <1>9, <2>1, <2>2
<1>. HIDE DEF m, queue2
<1>11. /\ goods2[m] = Joined(type, goods[a], goods[b])
       /\ \A k \in 1 .. n - 2 : goods2[k] = goods[was[k]]
  BY <1>9
<1>12. goods2 \in [1 .. m -> SUBSET J.places]
  <2>1. \A k \in 1 .. m : k # m => was[k] \in 1 .. n
    BY <1>9
  <2>. QED  BY <1>7, <2>1
<1>. HIDE DEF goods2
<1>13. \A k \in 1 .. m : Recognizes(queue2[k], J, goods2[k])
  <2>1. \A k \in 1 .. n - 2 : was[k] \in 1 .. n
    OBVIOUS
  <2>. QED  BY <1>1, <1>6, <1>9, <1>10, <1>11, <2>1
<1>14. ASSUME NEW at PROVE Together(type, n, goods, at) <=> Together(type, m, goods2, at)
  <2>1. \A k \in 1 .. n - 2 : was[k] \in 1 .. n
    OBVIOUS
  <2>2. CASE type = "AND"
    <3>1. Together(type, n, goods, at) <=> \A i \in 1 .. n : at \in goods[i]
      BY <2>2 DEF Together
    <3>2. Together(type, m, goods2, at) <=> \A i \in 1 .. m : at \in goods2[i]
      BY <2>2 DEF Together
    <3>3. at \in goods2[m] <=> at \in goods[a] /\ at \in goods[b]
      BY <1>11, <2>2 DEF Joined
    <3>4. ASSUME \A i \in 1 .. n : at \in goods[i] PROVE \A k \in 1 .. m : at \in goods2[k]
      BY <1>9, <1>11, <2>1, <3>3, <3>4
    <3>5. ASSUME \A k \in 1 .. m : at \in goods2[k], NEW i \in 1 .. n PROVE at \in goods[i]
      <4>1. \A k \in 1 .. n - 2 : at \in goods[was[k]]
        BY <1>9, <1>11, <3>5
      <4>2. at \in goods[a] /\ at \in goods[b]
        BY <1>9, <3>3, <3>5
      <4>. QED  BY <1>4a, <4>1, <4>2
    <3>. QED  BY <3>1, <3>2, <3>4, <3>5
  <2>3. CASE type # "AND"
    <3>1. Together(type, n, goods, at) <=> \E i \in 1 .. n : at \in goods[i]
      BY <2>3 DEF Together
    <3>2. Together(type, m, goods2, at) <=> \E i \in 1 .. m : at \in goods2[i]
      BY <2>3 DEF Together
    <3>3. at \in goods2[m] <=> at \in goods[a] \/ at \in goods[b]
      BY <1>11, <2>3 DEF Joined
    <3>. QED  BY <1>4a, <1>9, <1>11, <2>1, <3>1, <3>2, <3>3
  <2>. QED  BY <2>2, <2>3
<1>15. \A at \in J.places : at \in good <=> Together(type, m, goods2, at)
  BY <1>1, <1>14
<1>16. queue2 \in QueuesFor(V, J, type, good) /\ Len(queue2) = n - 1
  BY <1>9, <1>10, <1>12, <1>13, <1>15 DEF QueuesFor, m
<1>. QED  BY <1>5, <1>16 DEF V, n, queue2, kept

\* The places that are good for n automata together.
GoodTogether(J, type, n, goods) == {at \in J.places : Together(type, n, goods, at)}

\* All automata of a queue, combined two by two.
LEMMA CombinedKeepsLanguage ==
    ASSUME NEW J, IsJudge(J), NEW S, NEW vector \in Seq(S), Len(vector) > 0, NEW names, NEW type,
           NEW goods \in [1 .. Len(vector) -> SUBSET J.places],
           \A i \in 1 .. Len(vector) :
                Recognizes(vector[i], J, goods[i]) /\ vector[i].names = names
    PROVE  Recognizes(combined(vector, type), J, GoodTogether(J, type, Len(vector), goods))
<1>. DEFINE n == Len(vector)
            given == ToSet(vector)
            V == Queued(given, names, J)
            good == {at \in J.places : Together(type, n, goods, at)}
            Q == QueuesFor(V, J, type, good)
            next(queue) == IF Len(queue) > 1 THEN replace_two(queue, type) ELSE queue
            step == [queue \in Q |-> next(queue)]
            IsCombining(g) == g = [k \in Nat |->
                IF k = 0 THEN vector
                ELSE IF Len(g[k - 1]) > 1 THEN replace_two(g[k - 1], type) ELSE g[k - 1]]
            s == CHOOSE g : IsCombining(g)
<1>1. n \in Nat /\ n > 0 /\ \A i \in 1 .. n : vector[i] \in given
  BY ListElements
<1>2. vector \in Seq(V)
  <2>1. \A i \in 1 .. n : vector[i] \in V
    <3>1. \A i \in 1 .. n : goods[i] \in SUBSET J.places
      OBVIOUS
    <3>. HIDE DEF n, given
    <3>. QED  BY <1>1, <3>1 DEF Queued, n
  <2>2. vector \in [1 .. n -> S]
    BY LenProperties
  <2>3. vector \in [1 .. n -> V]
    <3>. HIDE DEF V, n
    <3>. QED  BY <2>1, <2>2
  <2>. HIDE DEF V
  <2>. QED  BY <1>1, <2>3, SeqDef
<1>3. vector \in Q
  <2>. HIDE DEF V, n
  <2>1. \A at \in J.places : at \in good <=> Together(type, n, goods, at)
    OBVIOUS
  <2>. HIDE DEF good
  <2>. QED  BY <1>1, <1>2, <2>1 DEF QueuesFor, n
<1>. HIDE DEF good, n, given
<1>4. \A queue \in Q : /\ next(queue) \in Q
                       /\ Len(queue) > 1 => Len(next(queue)) = Len(queue) - 1
                       /\ ~(Len(queue) > 1) => next(queue) = queue
  BY TwoReplaced
<1>5. \A queue \in Q : Len(queue) \in Nat /\ Len(queue) > 0
  <2>. HIDE DEF V
  <2>1. \A queue \in Q : queue \in Seq(V) /\ Len(queue) > 0
    BY DEF QueuesFor
  <2>. HIDE DEF Q
  <2>. QED  BY <2>1, LenProperties
<1>. HIDE DEF Q
<1>6. step \in [Q -> Q]
  BY <1>4
<1>7. PICK f \in [Nat -> Q] : f[0] = vector /\ \A k \in Nat : f[k + 1] = step[f[k]]
  <2>. HIDE DEF step
  <2>1. \E f : Iterates(f, Q, vector, step)
    BY <1>3, <1>6, Iteration
  <2>. QED  BY <2>1 DEF Iterates
<1>8. \A k \in Nat : f[k] \in Q /\ f[k + 1] = next(f[k])
  <2>. HIDE DEF next
  <2>. QED  BY <1>7
<1>9. IsCombining(f)
  <2>1. ASSUME NEW k \in Nat
        PROVE  f[k] = IF k = 0 THEN vector
                      ELSE IF Len(f[k - 1]) > 1 THEN replace_two(f[k - 1], type) ELSE f[k - 1]
    <3>1. CASE k = 0
      BY <1>7, <3>1
    <3>2. CASE k # 0
      <4>1. k - 1 \in Nat /\ (k - 1) + 1 = k
        BY <3>2
      <4>2. f[(k - 1) + 1] = next(f[k - 1])
        BY <1>8, <4>1
      <4>. QED  BY <3>2, <4>1, <4>2
    <3>. QED  BY <3>1, <3>2
  <2>2. f = [k \in Nat |-> f[k]]
    BY <1>7
  <2>. QED  BY <2>1, <2>2
<1>10. IsCombining(s)
  <2>. HIDE DEF IsCombining
  <2>. QED  BY <1>9
<1>11. combined(vector, type) = s[n][1]
  BY DEF combined, n
<1>. HIDE DEF s
<1>12. s[0] = vector /\ \A k \in Nat : s[k + 1] = next(s[k])
  <2>1. \A k \in Nat : s[k] = IF k = 0 THEN vector
                              ELSE IF Len(s[k - 1]) > 1 THEN replace_two(s[k - 1], type) ELSE s[k - 1]
    BY <1>10
  <2>2. ASSUME NEW k \in Nat PROVE s[k + 1] = next(s[k])
    <3>1. k + 1 \in Nat /\ k + 1 # 0 /\ (k + 1) - 1 = k
      OBVIOUS
    <3>. QED  BY <2>1, <3>1
  <2>. QED  BY <2>1, <2>2
<1>. HIDE DEF next
<1>13. \A k \in Nat : s[k] \in Q
  BY <1>3, <1>4, <1>12, IterationStays
<1>14. Len(s[n]) = 1
  <2>. DEFINE T == {k \in Nat : ~(Len(s[k]) = 1 \/ Len(s[k]) + k = n)}
  <2>1. T = {}
    <3>. SUFFICES ASSUME T # {} PROVE FALSE
      OBVIOUS
    <3>1. PICK m \in T : \A k \in T : m <= k
      <4>1. T \in SUBSET Nat
        OBVIOUS
      <4>. HIDE DEF T
      <4>. QED  BY <4>1, LeastNumber
    <3>2. m # 0
      BY <1>1, <1>12, <3>1 DEF n
    <3>3. m - 1 \in Nat /\ ~(m <= m - 1) /\ (m - 1) + 1 = m
      BY <3>1, <3>2
    <3>4. Len(s[m - 1]) = 1 \/ Len(s[m - 1]) + (m - 1) = n
      BY <3>1, <3>3
    <3>5. s[m - 1] \in Q /\ s[m] = next(s[m - 1])
      BY <1>12, <1>13, <3>3
    <3>6. /\ Len(s[m - 1]) \in Nat /\ Len(s[m - 1]) > 0
          /\ Len(s[m - 1]) > 1 => Len(s[m]) = Len(s[m - 1]) - 1
          /\ ~(Len(s[m - 1]) > 1) => s[m] = s[m - 1]
      BY <1>4, <1>5, <3>5
    <3>. DEFINE a == Len(s[m - 1])
                b == Len(s[m])
    <3>7. m \in Nat /\ b # 1 /\ b + m # n
      BY <3>1
    <3>8. /\ a \in Nat /\ a > 0 /\ (a = 1 \/ a + (m - 1) = n)
          /\ a > 1 => b = a - 1
          /\ ~(a > 1) => b = a
      BY <3>4, <3>6
    <3>. HIDE DEF a, b, n
    <3>9. a # 1 /\ a > 1
      BY <3>7, <3>8
    <3>. QED  BY <1>1, <3>7, <3>8, <3>9
  <2>2. Len(s[n]) = 1 \/ Len(s[n]) + n = n
    BY <1>1, <2>1
  <2>3. Len(s[n]) \in Nat /\ Len(s[n]) > 0
    BY <1>1, <1>5, <1>13
  <2>. QED  BY <1>1, <2>2, <2>3
<1>15. PICK found \in [1 .. 1 -> SUBSET J.places] :
          /\ \A i \in 1 .. 1 : Recognizes(s[n][i], J, found[i])
          /\ \A at \in J.places : at \in good <=> Together(type, 1, found, at)
  <2>1. s[n] \in Q
    BY <1>1, <1>13
  <2>. QED  BY <1>14, <2>1 DEF QueuesFor, Q
<1>16. 1 \in 1 .. 1 /\ \A i \in 1 .. 1 : i = 1
  OBVIOUS
<1>17. \A at \in J.places : at \in good <=> at \in found[1]
  BY <1>15, <1>16 DEF Together
<1>18. Recognizes(s[n][1], J, good)
  BY <1>15, <1>16, <1>17 DEF Recognizes
<1>. QED  BY <1>11, <1>18 DEF good, n, GoodTogether

\* The names of a product are those of its factors.
LEMMA OrderedNames ==
    ASSUME NEW vector
    PROVE  /\ ordered_name_vector(vector) \in Seq(Propositions)
           /\ \A i \in DOMAIN vector : \A name \in ToSet(vector[i].names) \cap Propositions :
                \E p \in DOMAIN ordered_name_vector(vector) : ordered_name_vector(vector)[p] = name
<1>. DEFINE used == {p \in DOMAIN Alphabetical :
                        \E i \in DOMAIN vector : Alphabetical[p] \in ToSet(vector[i].names)}
            names == ordered_name_vector(vector)
            n == Cardinality(used)
<1>1. /\ Len(Alphabetical) \in Nat /\ DOMAIN Alphabetical = 1 .. Len(Alphabetical)
      /\ \A p \in DOMAIN Alphabetical : Alphabetical[p] \in Propositions
  BY SymbolicAssumption, LenProperties
<1>2. names = [k \in 1 .. n |-> Alphabetical[nth(used, k - 1)]]
  BY DEF ordered_name_vector
<1>3. used \subseteq DOMAIN Alphabetical /\ used \in SUBSET Nat /\ IsFiniteSet(used)
  <2>1. used \subseteq 1 .. Len(Alphabetical)
    BY <1>1
  <2>2. IsFiniteSet(1 .. Len(Alphabetical))
    BY <1>1, FS_Interval
  <2>. HIDE DEF used
  <2>3. IsFiniteSet(used)
    <3>. DEFINE T == 1 .. Len(Alphabetical)
    <3>1. IsFiniteSet(T) /\ used \in SUBSET T
      BY <2>1, <2>2
    <3>. HIDE DEF T
    <3>. QED  BY <3>1, FS_Subset
  <2>. QED  BY <1>1, <2>1, <2>3
<1>4. \A i \in DOMAIN vector : \A p \in DOMAIN Alphabetical :
          Alphabetical[p] \in ToSet(vector[i].names) => p \in used
  OBVIOUS
<1>. HIDE DEF used, names
<1>5. /\ n \in Nat
      /\ \A a \in used : rank(used, a) \in 0 .. n - 1 /\ nth(used, rank(used, a)) = a
      /\ \A k \in 0 .. n - 1 : nth(used, k) \in used
  BY <1>3, Ranks
<1>6. \A k \in 1 .. n : k - 1 \in 0 .. n - 1
  BY <1>5
<1>. HIDE DEF n
<1>7. names \in Seq(Propositions)
  <2>1. names \in [1 .. n -> Propositions]
    BY <1>1, <1>2, <1>3, <1>5, <1>6
  <2>. QED  BY <1>5, <2>1, SeqDef
<1>8. ASSUME NEW i \in DOMAIN vector, NEW name \in ToSet(vector[i].names) \cap Propositions
      PROVE  \E p \in DOMAIN names : names[p] = name
  <2>1. PICK p \in DOMAIN Alphabetical : Alphabetical[p] = name
    BY DEF Propositions, ToSet
  <2>2. p \in used
    BY <1>4, <2>1
  <2>3. rank(used, p) \in 0 .. n - 1 /\ nth(used, rank(used, p)) = p
    BY <1>5, <2>2
  <2>4. rank(used, p) + 1 \in 1 .. n /\ (rank(used, p) + 1) - 1 = rank(used, p)
    BY <1>5, <2>3
  <2>5. names[rank(used, p) + 1] = name /\ rank(used, p) + 1 \in DOMAIN names
    BY <1>2, <2>1, <2>3, <2>4
  <2>. QED  BY <2>5
<1>. QED  BY <1>7, <1>8 DEF names

\* The products accept where all are good, or one.
ProductsRecognize(J, vector, goods) ==
    /\ Recognizes(dfa_product_and(vector), J,
                  {at \in J.places : \A i \in 1 .. Len(vector) : at \in goods[i]})
    /\ Recognizes(dfa_product_or(vector), J,
                  {at \in J.places : \E i \in 1 .. Len(vector) : at \in goods[i]})

\* The product of any number of automata, over any names, accepts the words that all of
\* them accept, or some, whatever order the queue puts them in.
THEOREM ProductsKeepLanguage ==
    ASSUME NEW J, IsJudge(J), NEW S, NEW vector \in Seq(S), Len(vector) > 0,
           NEW goods \in [1 .. Len(vector) -> SUBSET J.places],
           \A i \in 1 .. Len(vector) : Recognizes(vector[i], J, goods[i])
    PROVE  ProductsRecognize(J, vector, goods)
<1>. DEFINE names == ordered_name_vector(vector)
            renamed == renamed_dfa_vector(vector)
            n == Len(vector)
            map(i) == index_map(vector[i], names)
<1>1. n \in Nat /\ DOMAIN vector = 1 .. n
  BY LenProperties
<1>2. ASSUME NEW i \in 1 .. n
      PROVE  /\ Recognizes(dfaReplaceIndices(vector[i], map(i), names), J, goods[i])
             /\ dfaReplaceIndices(vector[i], map(i), names).names = names
  <2>1. vector[i].names \in Seq(Propositions) /\ names \in Seq(Propositions)
    BY OrderedNames DEF Recognizes, IsExplicitDfa
  <2>2. ASSUME NEW j \in DOMAIN vector[i].names
        PROVE  map(i)[j] \in DOMAIN names /\ names[map(i)[j]] = vector[i].names[j]
    <3>1. vector[i].names[j] \in ToSet(vector[i].names) /\ vector[i].names[j] \in Propositions
      BY <2>1, LenProperties DEF ToSet
    <3>2. \E p \in DOMAIN names : names[p] = vector[i].names[j]
      BY <1>1, <3>1, OrderedNames
    <3>3. map(i)[j] = CHOOSE p \in DOMAIN names : names[p] = vector[i].names[j]
      BY DEF index_map
    <3>. HIDE DEF names, map
    <3>. QED  BY <3>2, <3>3
  <2>. DEFINE d == vector[i]
              m == map(i)
  <2>3. Recognizes(d, J, goods[i]) /\ \A j \in DOMAIN d.names : m[j] \in DOMAIN names /\ names[m[j]] = d.names[j]
    BY <2>2
  <2>. HIDE DEF d, m, names
  <2>4. /\ Recognizes(dfaReplaceIndices(d, m, names), J, goods[i])
        /\ dfaReplaceIndices(d, m, names).names = names
    BY <2>1, <2>3, RenamedKeepsLanguage
  <2>. QED  BY <2>4 DEF d, m
<1>3. renamed = [i \in 1 .. n |-> dfaReplaceIndices(vector[i], map(i), names)]
  BY <1>1 DEF renamed_dfa_vector
<1>4. dfa_product_and(vector) = combined(renamed, "AND") /\ dfa_product_or(vector) = combined(renamed, "OR")
  BY DEF dfa_product_and, dfa_product_or
<1>. HIDE DEF names, map, renamed
<1>5. /\ renamed \in Seq(ToSet(renamed)) /\ Len(renamed) = n
      /\ \A i \in 1 .. n : Recognizes(renamed[i], J, goods[i]) /\ renamed[i].names = names
  <2>1. renamed = [i \in 1 .. n |-> renamed[i]]
    BY <1>3
  <2>2. IsList(renamed) /\ Len(renamed) = n
    BY <1>1, <2>1, ListOf
  <2>. QED  BY <1>2, <1>3, <2>2 DEF IsList
<1>. HIDE DEF n
<1>6. goods \in [1 .. Len(renamed) -> SUBSET J.places] /\ Len(renamed) > 0
  BY <1>5 DEF n
<1>7. \A i \in 1 .. Len(renamed) : Recognizes(renamed[i], J, goods[i]) /\ renamed[i].names = names
  BY <1>5
<1>8. \A type : Recognizes(combined(renamed, type), J, GoodTogether(J, type, Len(renamed), goods))
  BY <1>5, <1>6, <1>7, CombinedKeepsLanguage
<1>9. /\ \A at : Together("AND", n, goods, at) <=> \A i \in 1 .. n : at \in goods[i]
      /\ \A at : Together("OR", n, goods, at) <=> \E i \in 1 .. n : at \in goods[i]
  BY DEF Together
<1>10. /\ GoodTogether(J, "AND", Len(renamed), goods) =
            {at \in J.places : \A i \in 1 .. n : at \in goods[i]}
       /\ GoodTogether(J, "OR", Len(renamed), goods) =
            {at \in J.places : \E i \in 1 .. n : at \in goods[i]}
  BY <1>5, <1>9 DEF GoodTogether
<1>. QED  BY <1>4, <1>8, <1>10 DEF n, ProductsRecognize

-----------------------------------------------------------------------------
(* Bases as a judge *)

\* Where the bases can be.
PlacesOf(bs) ==
    {at \in [DOMAIN bs -> [state : Nat, out : BOOLEAN]] :
        \A k \in DOMAIN bs : at[k].state \in StatesOf(bs[k].dfa)}

StepOf(bs, at, letter) == [k \in DOMAIN bs |-> base_step(bs[k], at[k], letter)]

JudgeOf(bs) ==
    [places |-> PlacesOf(bs),
     start |-> [k \in DOMAIN bs |-> base_start],
     step |-> [at \in PlacesOf(bs) |-> [letter \in Alphabet |-> StepOf(bs, at, letter)]]]

AcceptingIn(bs, at) == {k \in DOMAIN bs : base_accepts(bs[k], at[k])}

GoodFor(bs, accepts) == {at \in PlacesOf(bs) : AcceptingIn(bs, at) \in accepts}

AreBases(bs) ==
    /\ IsList(bs) /\ Len(bs) <= MaxBases
    /\ \A k \in 1 .. Len(bs) : IsExplicitDfa(bs[k].dfa)

\* Later bases do not count.
Settled(accepts, n) ==
    \A verdict \in Verdicts : verdict \in accepts <=> verdict \cap (1 .. n) \in accepts

\* What an automaton is for, judged by these bases.
IsFor(bs, d, accepts) ==
    /\ accepts \subseteq Verdicts
    /\ Settled(accepts, Len(bs))
    /\ Recognizes(d, JudgeOf(bs), GoodFor(bs, accepts))

\* A base stays within the states of its automaton.
LEMMA BaseSteps ==
    ASSUME NEW base, IsExplicitDfa(base.dfa), NEW at \in [state : Nat, out : BOOLEAN],
           at.state \in StatesOf(base.dfa), NEW letter \in Alphabet
    PROVE  /\ base_step(base, at, letter) \in [state : Nat, out : BOOLEAN]
           /\ base_step(base, at, letter).state \in StatesOf(base.dfa)
<1>. DEFINE bits == seen(base.dfa.names, letter)
            next == base.dfa.transition_function[at.state][bits]
<1>1. bits \in Bits(base.dfa.names)
  BY ExplicitParts, SeenBits
<1>2. next \in StatesOf(base.dfa) /\ next \in Nat
  <2>. HIDE DEF bits
  <2>. QED  BY <1>1, ExplicitParts
<1>3. base_step(base, at, letter) \in {[at EXCEPT !.out = TRUE], [at EXCEPT !.state = next]}
  BY DEF base_step
<1>. HIDE DEF next
<1>. QED  BY <1>2, <1>3

\* Bases judge words.
LEMMA BasesJudge ==
    ASSUME NEW bs, AreBases(bs)
    PROVE  /\ IsJudge(JudgeOf(bs)) /\ JudgeOf(bs).places = PlacesOf(bs)
           /\ JudgeOf(bs).start = [k \in DOMAIN bs |-> base_start]
           /\ \A at \in PlacesOf(bs), letter \in Alphabet :
                JudgeOf(bs).step[at][letter] = StepOf(bs, at, letter)
<1>1. /\ JudgeOf(bs).places = PlacesOf(bs)
      /\ JudgeOf(bs).start = [k \in DOMAIN bs |-> base_start]
      /\ \A at \in PlacesOf(bs), letter \in Alphabet :
            JudgeOf(bs).step[at][letter] = StepOf(bs, at, letter)
  BY DEF JudgeOf
<1>2. DOMAIN bs = 1 .. Len(bs) /\ \A k \in DOMAIN bs : IsExplicitDfa(bs[k].dfa)
  BY ListProperties DEF AreBases
<1>3. JudgeOf(bs).start \in PlacesOf(bs)
  <2>1. base_start \in [state : Nat, out : BOOLEAN] /\ base_start.state = 0
    BY DEF base_start
  <2>2. \A k \in DOMAIN bs : 0 \in StatesOf(bs[k].dfa)
    BY <1>2, ExplicitParts
  <2>. HIDE DEF base_start
  <2>. QED  BY <1>1, <2>1, <2>2 DEF PlacesOf
<1>4. ASSUME NEW at \in PlacesOf(bs), NEW letter \in Alphabet PROVE StepOf(bs, at, letter) \in PlacesOf(bs)
  <2>1. \A k \in DOMAIN bs : at[k] \in [state : Nat, out : BOOLEAN] /\ at[k].state \in StatesOf(bs[k].dfa)
    BY DEF PlacesOf
  <2>2. ASSUME NEW k \in DOMAIN bs
        PROVE  /\ base_step(bs[k], at[k], letter) \in [state : Nat, out : BOOLEAN]
               /\ base_step(bs[k], at[k], letter).state \in StatesOf(bs[k].dfa)
    BY <1>2, <2>1, BaseSteps
  <2>. QED  BY <2>2 DEF PlacesOf, StepOf
<1>. QED  BY <1>1, <1>3, <1>4 DEF IsJudge

\* A judge with more in view.
LEMMA FinerJudge ==
    ASSUME NEW J, NEW K, IsJudge(J), IsJudge(K), NEW h \in [K.places -> J.places],
           h[K.start] = J.start,
           \A at \in K.places, letter \in Alphabet : h[K.step[at][letter]] = J.step[h[at]][letter],
           NEW d, NEW good, Recognizes(d, J, good),
           NEW finer, \A at \in K.places : at \in finer <=> h[at] \in good
    PROVE  Recognizes(d, K, finer)
<1>1. PICK R : /\ Agrees(d, J, R)
               /\ \A state \in StatesOf(d), at \in J.places : <<state, at>> \in R =>
                    (state \in d.final_states <=> at \in good)
  BY DEF Recognizes
<1>. DEFINE T == {pair \in StatesOf(d) \X K.places : <<pair[1], h[pair[2]]>> \in R}
<1>2. \A state \in StatesOf(d), at \in K.places : <<state, at>> \in T <=> <<state, h[at]>> \in R
  OBVIOUS
<1>3. /\ IsExplicitDfa(d) /\ 0 \in StatesOf(d) /\ K.start \in K.places
      /\ \A state \in StatesOf(d), letter \in Alphabet :
            d.transition_function[state][seen(d.names, letter)] \in StatesOf(d)
      /\ \A at \in K.places, letter \in Alphabet : K.step[at][letter] \in K.places
  BY ExplicitParts, SeenBits DEF Recognizes, IsJudge
<1>. HIDE DEF T
<1>4. Agrees(d, K, T)
  <2>1. <<0, K.start>> \in T
    BY <1>1, <1>2, <1>3 DEF Agrees
  <2>2. ASSUME NEW state \in StatesOf(d), NEW at \in K.places, NEW letter \in Alphabet,
               <<state, at>> \in T
        PROVE  <<d.transition_function[state][seen(d.names, letter)], K.step[at][letter]>> \in T
    <3>1. <<state, h[at]>> \in R /\ h[at] \in J.places
      BY <1>2, <2>2
    <3>2. <<d.transition_function[state][seen(d.names, letter)], J.step[h[at]][letter]>> \in R
      BY <1>1, <3>1 DEF Agrees
    <3>3. h[K.step[at][letter]] = J.step[h[at]][letter]
      OBVIOUS
    <3>. QED  BY <1>2, <1>3, <3>2, <3>3
  <2>. QED  BY <2>1, <2>2 DEF Agrees
<1>5. \A state \in StatesOf(d), at \in K.places : <<state, at>> \in T =>
          (state \in d.final_states <=> at \in finer)
  BY <1>1, <1>2
<1>. QED  BY <1>3, <1>4, <1>5 DEF Recognizes

\* One list after the other.
OneAfter(s, t) ==
    /\ IsList(s \o t) /\ Len(s \o t) = Len(s) + Len(t)
    /\ DOMAIN (s \o t) = 1 .. Len(s) + Len(t)
    /\ \A i \in 1 .. Len(s) : (s \o t)[i] = s[i]
    /\ \A i \in 1 .. Len(t) : (s \o t)[Len(s) + i] = t[i]

\* The elements of a list that follows another one.
LEMMA OneListAfter ==
    ASSUME NEW s, NEW t, IsList(s), IsList(t)
    PROVE  OneAfter(s, t)
<1>. QED  BY ListsJoined DEF OneAfter

\* A further base.
LEMMA OneMoreBase ==
    ASSUME NEW bs, AreBases(bs), Len(bs) + 1 <= MaxBases, NEW base, IsExplicitDfa(base.dfa)
    PROVE  /\ AreBases(bs \o <<base>>) /\ Len(bs \o <<base>>) = Len(bs) + 1
           /\ Len(bs) \in Nat /\ DOMAIN (bs \o <<base>>) = 1 .. Len(bs) + 1
           /\ \A k \in 1 .. Len(bs) : (bs \o <<base>>)[k] = bs[k]
           /\ (bs \o <<base>>)[Len(bs) + 1] = base
<1>1. IsList(<<base>>) /\ Len(<<base>>) = 1 /\ <<base>>[1] = base
  <2>1. <<base>> \in Seq({base})
    OBVIOUS
  <2>. QED  BY <2>1, ListOver
<1>2. IsList(bs) /\ Len(bs) \in Nat
  BY ListProperties DEF AreBases
<1>. DEFINE more == bs \o <<base>>
<1>3. /\ IsList(more) /\ Len(more) = Len(bs) + 1 /\ DOMAIN more = 1 .. Len(bs) + 1
      /\ \A k \in 1 .. Len(bs) : more[k] = bs[k]
      /\ more[Len(bs) + 1] = base
  <2>. DEFINE one == <<base>>
  <2>1. IsList(one) /\ Len(one) = 1 /\ one[1] = base
    BY <1>1
  <2>. HIDE DEF one
  <2>2. /\ IsList(bs \o one) /\ Len(bs \o one) = Len(bs) + Len(one)
        /\ DOMAIN (bs \o one) = 1 .. Len(bs) + Len(one)
        /\ \A k \in 1 .. Len(bs) : (bs \o one)[k] = bs[k]
        /\ \A k \in 1 .. Len(one) : (bs \o one)[Len(bs) + k] = one[k]
    <3>1. OneAfter(bs, one)
      BY <1>2, <2>1, OneListAfter
    <3>. QED  BY <3>1 DEF OneAfter
  <2>3. 1 \in 1 .. Len(one)
    BY <2>1
  <2>4. (bs \o one)[Len(bs) + 1] = base
    BY <2>1, <2>2, <2>3
  <2>. QED  BY <2>1, <2>2, <2>4 DEF one
<1>. HIDE DEF more
<1>4. \A k \in 1 .. Len(bs) + 1 : k \in 1 .. Len(bs) \/ k = Len(bs) + 1
  BY <1>2
<1>5. AreBases(more)
  BY <1>3, <1>4 DEF AreBases
<1>. QED  BY <1>2, <1>3, <1>5 DEF more

\* What was explained by some bases still is when there are more.
LEMMA StillFor ==
    ASSUME NEW bs, AreBases(bs), Len(bs) + 1 <= MaxBases, NEW base, IsExplicitDfa(base.dfa),
           NEW d, NEW accepts, IsFor(bs, d, accepts)
    PROVE  IsFor(bs \o <<base>>, d, accepts)
<1>. DEFINE more == bs \o <<base>>
            n == Len(bs)
            J == JudgeOf(bs)
            K == JudgeOf(more)
            h == [at \in PlacesOf(more) |-> [k \in 1 .. n |-> at[k]]]
<1>1. /\ AreBases(more) /\ Len(more) = n + 1 /\ n \in Nat /\ DOMAIN more = 1 .. n + 1
      /\ \A k \in 1 .. n : more[k] = bs[k]
      /\ more[n + 1] = base /\ DOMAIN bs = 1 .. n
  BY OneMoreBase, ListProperties DEF AreBases
<1>. HIDE DEF more, n
<1>2. /\ IsJudge(J) /\ J.places = PlacesOf(bs) /\ J.start = [k \in 1 .. n |-> base_start]
      /\ \A at \in PlacesOf(bs), letter \in Alphabet : J.step[at][letter] = StepOf(bs, at, letter)
      /\ IsJudge(K) /\ K.places = PlacesOf(more) /\ K.start = [k \in 1 .. n + 1 |-> base_start]
      /\ \A at \in PlacesOf(more), letter \in Alphabet : K.step[at][letter] = StepOf(more, at, letter)
  <2>. HIDE DEF J, K
  <2>. QED  BY <1>1, BasesJudge DEF J, K
<1>. HIDE DEF J, K
<1>3. \A k \in 1 .. n : k \in 1 .. n + 1
  BY <1>1
<1>4. h \in [PlacesOf(more) -> PlacesOf(bs)]
  <2>1. ASSUME NEW at \in PlacesOf(more) PROVE [k \in 1 .. n |-> at[k]] \in PlacesOf(bs)
    BY <1>1, <1>3 DEF PlacesOf
  <2>. QED  BY <2>1
<1>5. h[K.start] = J.start
  <2>1. K.start \in PlacesOf(more)
    BY <1>2 DEF IsJudge
  <2>2. h[K.start] = [k \in 1 .. n |-> K.start[k]]
    BY <2>1
  <2>3. \A k \in 1 .. n : K.start[k] = base_start
    BY <1>2, <1>3
  <2>. HIDE DEF h
  <2>. QED  BY <1>2, <2>2, <2>3
<1>6. ASSUME NEW at \in PlacesOf(more), NEW letter \in Alphabet
      PROVE  h[K.step[at][letter]] = J.step[h[at]][letter]
  <2>1. h[at] \in PlacesOf(bs) /\ StepOf(more, at, letter) \in PlacesOf(more)
    BY <1>2, <1>4 DEF IsJudge
  <2>2. J.step[h[at]][letter] = StepOf(bs, h[at], letter)
        /\ h[K.step[at][letter]] = h[StepOf(more, at, letter)]
    BY <1>2, <2>1
  <2>3. h[StepOf(more, at, letter)] = [k \in 1 .. n |-> StepOf(more, at, letter)[k]]
    BY <2>1
  <2>4. \A k \in 1 .. n : /\ StepOf(more, at, letter)[k] = base_step(more[k], at[k], letter)
                          /\ h[at][k] = at[k] /\ more[k] = bs[k]
    BY <1>1, <1>3 DEF StepOf
  <2>5. StepOf(bs, h[at], letter) = [k \in 1 .. n |-> base_step(bs[k], h[at][k], letter)]
    BY <1>1 DEF StepOf
  <2>. HIDE DEF h
  <2>. QED  BY <2>2, <2>3, <2>4, <2>5
<1>7. ASSUME NEW at \in PlacesOf(more)
      PROVE  at \in GoodFor(more, accepts) <=> h[at] \in GoodFor(bs, accepts)
  <2>1. h[at] \in PlacesOf(bs)
    BY <1>4
  <2>2. \A k \in 1 .. n : h[at][k] = at[k]
    OBVIOUS
  <2>. HIDE DEF h
  <2>3. AcceptingIn(bs, h[at]) = AcceptingIn(more, at) \cap (1 .. n)
    BY <1>1, <1>3, <2>2 DEF AcceptingIn
  <2>4. AcceptingIn(more, at) \in Verdicts
    <3>1. AcceptingIn(more, at) \subseteq 1 .. n + 1 /\ n + 1 <= MaxBases
      BY <1>1 DEF AcceptingIn, n
    <3>2. 1 .. n + 1 \subseteq 1 .. MaxBases
      BY <1>1, <3>1, SymbolicAssumption
    <3>. QED  BY <3>1, <3>2 DEF Verdicts
  <2>5. AcceptingIn(more, at) \in accepts <=> AcceptingIn(bs, h[at]) \in accepts
    BY <2>3, <2>4 DEF IsFor, Settled, n
  <2>. QED  BY <2>1, <2>5 DEF GoodFor
<1>. HIDE DEF h
<1>8. Recognizes(d, J, GoodFor(bs, accepts))
  BY DEF IsFor, J
<1>9. Recognizes(d, K, GoodFor(more, accepts))
  BY <1>2, <1>4, <1>5, <1>6, <1>7, <1>8, FinerJudge
<1>10. Settled(accepts, n + 1)
  <2>1. 1 .. n \subseteq 1 .. n + 1
    BY <1>1
  <2>2. ASSUME NEW verdict \in Verdicts
        PROVE  verdict \in accepts <=> verdict \cap (1 .. n + 1) \in accepts
    <3>1. (verdict \cap (1 .. n + 1)) \cap (1 .. n) = verdict \cap (1 .. n)
      BY <2>1
    <3>2. verdict \cap (1 .. n + 1) \in Verdicts
      BY DEF Verdicts
    <3>. QED  BY <3>1, <3>2 DEF IsFor, Settled, n
  <2>. QED  BY <2>2 DEF Settled
<1>. QED  BY <1>1, <1>9, <1>10 DEF IsFor, K, more

-----------------------------------------------------------------------------
(* The automaton that a base stands for *)

OnePlaces(base) == {at \in [state : Nat, out : BOOLEAN] : at.state \in StatesOf(base.dfa)}

OneJudge(base) ==
    [places |-> OnePlaces(base),
     start |-> base_start,
     step |-> [at \in OnePlaces(base) |-> [letter \in Alphabet |-> base_step(base, at, letter)]]]

AcceptedBy(base) == {at \in OnePlaces(base) : base_accepts(base, at)}

\* A base alone judges words.
LEMMA OneBaseJudges ==
    ASSUME NEW base, IsExplicitDfa(base.dfa)
    PROVE  /\ IsJudge(OneJudge(base)) /\ OneJudge(base).places = OnePlaces(base)
           /\ OneJudge(base).start = base_start
           /\ \A at \in OnePlaces(base), letter \in Alphabet :
                OneJudge(base).step[at][letter] = base_step(base, at, letter)
<1>1. /\ OneJudge(base).places = OnePlaces(base) /\ OneJudge(base).start = base_start
      /\ \A at \in OnePlaces(base), letter \in Alphabet :
            OneJudge(base).step[at][letter] = base_step(base, at, letter)
  BY DEF OneJudge
<1>2. base_start \in OnePlaces(base)
  BY ExplicitParts DEF OnePlaces, base_start
<1>3. \A at \in OnePlaces(base), letter \in Alphabet : base_step(base, at, letter) \in OnePlaces(base)
  BY BaseSteps DEF OnePlaces
<1>. QED  BY <1>1, <1>2, <1>3 DEF IsJudge

\* An automaton that accepts with its final states.
LEMMA WholeIsJudged ==
    ASSUME NEW d, IsExplicitDfa(d)
    PROVE  Recognizes(d, OneJudge(Whole(d)), AcceptedBy(Whole(d)))
<1>. DEFINE base == Whole(d)
            J == OneJudge(base)
            R == {pair \in StatesOf(d) \X OnePlaces(base) :
                    pair[2].state = pair[1] /\ pair[2].out = FALSE}
<1>1. /\ base.dfa = d /\ base.final = d.final_states /\ DOMAIN base.moves = StatesOf(d)
      /\ \A state \in StatesOf(d) : base.moves[state] = Bits(d.names)
  BY DEF Whole
<1>. HIDE DEF base
<1>2. /\ J.places = OnePlaces(base) /\ J.start = base_start
      /\ \A at \in OnePlaces(base), letter \in Alphabet :
            J.step[at][letter] = base_step(base, at, letter)
      /\ J.start \in J.places
      /\ \A at \in J.places, letter \in Alphabet : J.step[at][letter] \in J.places
  BY <1>1, OneBaseJudges DEF IsJudge
<1>. HIDE DEF J
<1>3. \A state \in StatesOf(d), at \in OnePlaces(base) :
          <<state, at>> \in R <=> at.state = state /\ at.out = FALSE
  OBVIOUS
<1>. HIDE DEF R
<1>4. <<0, J.start>> \in R
  <2>1. base_start.state = 0 /\ base_start.out = FALSE
    BY DEF base_start
  <2>2. 0 \in StatesOf(d)
    BY ExplicitParts
  <2>. QED  BY <1>2, <1>3, <2>1, <2>2
<1>5. ASSUME NEW state \in StatesOf(d), NEW at \in OnePlaces(base), NEW letter \in Alphabet,
             <<state, at>> \in R
      PROVE  <<d.transition_function[state][seen(d.names, letter)], J.step[at][letter]>> \in R
  <2>. DEFINE bits == seen(d.names, letter)
              next == d.transition_function[state][bits]
  <2>1. at.state = state /\ at.out = FALSE /\ at \in [state : Nat, out : BOOLEAN]
    BY <1>3, <1>5 DEF OnePlaces
  <2>2. bits \in Bits(d.names) /\ next \in StatesOf(d)
    <3>1. bits \in Bits(d.names)
      BY SeenBits, ExplicitParts
    <3>. HIDE DEF bits
    <3>. QED  BY <3>1, ExplicitParts
  <2>3. base_step(base, at, letter) = [at EXCEPT !.state = next]
    BY <1>1, <2>1, <2>2 DEF base_step
  <2>. HIDE DEF next
  <2>4. [at EXCEPT !.state = next].state = next /\ [at EXCEPT !.state = next].out = FALSE
    BY <2>1
  <2>5. J.step[at][letter] = [at EXCEPT !.state = next] /\ J.step[at][letter] \in OnePlaces(base)
    BY <1>2, <2>3
  <2>6. <<next, J.step[at][letter]>> \in R
    BY <1>3, <2>2, <2>4, <2>5
  <2>. QED  BY <2>6 DEF next, bits
<1>6. ASSUME NEW state \in StatesOf(d), NEW at \in OnePlaces(base), <<state, at>> \in R
      PROVE  state \in d.final_states <=> at \in AcceptedBy(base)
  BY <1>1, <1>3, <1>6 DEF AcceptedBy, base_accepts
<1>7. Agrees(d, J, R)
  BY <1>2, <1>4, <1>5 DEF Agrees
<1>8. Recognizes(d, J, AcceptedBy(base))
  BY <1>2, <1>6, <1>7 DEF Recognizes
<1>. QED  BY <1>8 DEF J, base

\* An automaton that accepts once the word has made a move that is not kept.
LEMMA LeavingIsJudged ==
    ASSUME NEW d, IsExplicitDfa(d), NEW moves,
           DOMAIN moves \subseteq StatesOf(d), 0 \in DOMAIN moves
    PROVE  Recognizes(restrict_dfa_with_transitions(d, moves), OneJudge(Leaving(d, moves)),
                      AcceptedBy(Leaving(d, moves)))
<1>. DEFINE base == Leaving(d, moves)
            J == OneJudge(base)
            kept == DOMAIN moves
            n == Cardinality(kept)
            after(k, bits) == d.transition_function[nth(kept, k)][bits]
            target(k, bits) == IF k # n /\ bits \in moves[nth(kept, k)] /\ after(k, bits) \in kept
                               THEN rank(kept, after(k, bits)) ELSE n
            e == [names |-> d.names,
                  state_count |-> n + 1,
                  final_states |-> {n},
                  transition_function |-> [k \in 0 .. n |-> [bits \in Bits(d.names) |->
                        target(k, bits)]]]
            R == {pair \in (0 .. n) \X OnePlaces(base) :
                    \/ pair[2].out = TRUE /\ pair[1] = n
                    \/ pair[2].out = FALSE /\ pair[1] # n /\ pair[2].state = nth(kept, pair[1])}
<1>1. restrict_dfa_with_transitions(d, moves) = dfaMinimize(e)
  BY DEF restrict_dfa_with_transitions
<1>2. base.dfa = d /\ base.final = {} /\ base.moves = moves
  BY DEF Leaving
<1>. HIDE DEF base
<1>3. /\ n \in Nat
      /\ \A a \in kept : rank(kept, a) \in 0 .. n - 1 /\ nth(kept, rank(kept, a)) = a
      /\ \A k \in 0 .. n - 1 : nth(kept, k) \in kept
      /\ rank(kept, 0) = 0
  <2>1. kept \in SUBSET Nat /\ IsFiniteSet(kept)
    BY ExplicitParts, FS_Subset
  <2>. HIDE DEF kept
  <2>. QED  BY <2>1, Ranks DEF kept
<1>4. kept \subseteq StatesOf(d) /\ 0 \in kept
  OBVIOUS
<1>. HIDE DEF kept, n
<1>5. \A k \in 0 .. n : k = n \/ k \in 0 .. n - 1
  BY <1>3
<1>6. 0 # n /\ 0 \in 0 .. n /\ nth(kept, 0) = 0 /\ n \in 0 .. n /\ \A k \in 0 .. n - 1 : k \in 0 .. n /\ k # n
  BY <1>3, <1>4
<1>7. \A k \in 0 .. n, bits \in Bits(d.names) :
          target(k, bits) \in 0 .. n
  BY <1>3, <1>6
<1>8. /\ e.names = d.names /\ e.state_count = n + 1 /\ e.final_states = {n}
      /\ \A k \in 0 .. n, bits \in Bits(d.names) : e.transition_function[k][bits] = target(k, bits)
      /\ StatesOf(e) = 0 .. n
  <2>1. (n + 1) - 1 = n
    BY <1>3
  <2>. HIDE DEF target
  <2>. QED  BY <2>1 DEF StatesOf
<1>9. IsExplicitDfa(e)
  <2>1. e.transition_function = [k \in 0 .. n |-> [bits \in Bits(d.names) |-> target(k, bits)]]
    OBVIOUS
  <2>2. e.transition_function \in [0 .. n -> [Bits(d.names) -> 0 .. n]]
    <3>. HIDE DEF target, e
    <3>. QED  BY <1>7, <2>1
  <2>3. n + 1 \in Nat \ {0} /\ d.names \in Seq(Propositions)
    BY <1>3, ExplicitParts
  <2>. HIDE DEF e
  <2>. QED  BY <1>6, <1>8, <2>2, <2>3 DEF IsExplicitDfa
<1>. HIDE DEF e
<1>10. /\ IsJudge(J) /\ J.places = OnePlaces(base) /\ J.start = base_start
       /\ \A at \in OnePlaces(base), letter \in Alphabet :
            J.step[at][letter] = base_step(base, at, letter)
       /\ J.start \in J.places
       /\ \A at \in J.places, letter \in Alphabet : J.step[at][letter] \in J.places
  BY <1>2, OneBaseJudges DEF IsJudge
<1>. HIDE DEF J
<1>11. \A k \in 0 .. n, at \in OnePlaces(base) :
          <<k, at>> \in R <=> \/ at.out = TRUE /\ k = n
                              \/ at.out = FALSE /\ k # n /\ at.state = nth(kept, k)
  OBVIOUS
<1>. HIDE DEF R
<1>12. <<0, J.start>> \in R
  BY <1>6, <1>10, <1>11 DEF base_start
<1>13. ASSUME NEW k \in 0 .. n, NEW at \in OnePlaces(base), NEW letter \in Alphabet, <<k, at>> \in R
       PROVE  <<e.transition_function[k][seen(e.names, letter)], J.step[at][letter]>> \in R
  <2>. DEFINE bits == seen(d.names, letter)
              next == d.transition_function[at.state][bits]
  <2>1. /\ at \in [state : Nat, out : BOOLEAN] /\ at.state \in StatesOf(d)
        /\ \/ at.out = TRUE /\ k = n
           \/ at.out = FALSE /\ k # n /\ at.state = nth(kept, k)
    BY <1>2, <1>11, <1>13 DEF OnePlaces
  <2>2. bits \in Bits(d.names)
    BY SeenBits, ExplicitParts
  <2>3. e.transition_function[k][bits] = target(k, bits) /\ target(k, bits) \in 0 .. n
    <3>. HIDE DEF target, bits
    <3>. QED  BY <1>7, <1>8, <2>2
  <2>4. J.step[at][letter] = base_step(base, at, letter) /\ J.step[at][letter] \in OnePlaces(base)
    BY <1>10
  <2>5. base_step(base, at, letter) = IF at.out \/ bits \notin moves[at.state] \/ next \notin kept
                                      THEN [at EXCEPT !.out = TRUE]
                                      ELSE [at EXCEPT !.state = next]
    BY <1>2 DEF base_step, kept
  <2>6. CASE at.out = TRUE \/ bits \notin moves[at.state] \/ next \notin kept
    <3>1. base_step(base, at, letter).out = TRUE
      BY <2>1, <2>5, <2>6
    <3>2. target(k, bits) = n
      BY <2>1, <2>6
    <3>3. <<n, J.step[at][letter]>> \in R
      BY <1>6, <1>11, <2>4, <3>1
    <3>. HIDE DEF target
    <3>. QED  BY <1>8, <2>3, <3>2, <3>3
  <2>7. CASE at.out = FALSE /\ bits \in moves[at.state] /\ next \in kept
    <3>1. base_step(base, at, letter) = [at EXCEPT !.state = next]
      BY <2>5, <2>7
    <3>2. target(k, bits) = rank(kept, next)
      BY <2>1, <2>7
    <3>. HIDE DEF target, next
    <3>3. base_step(base, at, letter).out = FALSE /\ base_step(base, at, letter).state = next
      BY <2>1, <2>7, <3>1
    <3>4. rank(kept, next) \in 0 .. n - 1 /\ nth(kept, rank(kept, next)) = next
      BY <1>3, <2>7
    <3>5. rank(kept, next) \in 0 .. n /\ rank(kept, next) # n
      BY <1>6, <3>4
    <3>6. <<rank(kept, next), J.step[at][letter]>> \in R
      BY <1>11, <2>4, <3>3, <3>4, <3>5
    <3>. QED  BY <1>8, <2>3, <3>2, <3>6
  <2>. QED  BY <2>1, <2>6, <2>7
<1>14. ASSUME NEW k \in 0 .. n, NEW at \in OnePlaces(base), <<k, at>> \in R
       PROVE  k \in e.final_states <=> at \in AcceptedBy(base)
  BY <1>2, <1>8, <1>11, <1>14 DEF AcceptedBy, base_accepts
<1>15. Agrees(e, J, R)
  BY <1>8, <1>10, <1>12, <1>13 DEF Agrees
<1>16. Recognizes(e, J, AcceptedBy(base))
  BY <1>8, <1>9, <1>10, <1>14, <1>15 DEF Recognizes
<1>17. Recognizes(dfaMinimize(e), J, AcceptedBy(base))
  BY <1>10, <1>16, MinimalKeepsLanguage
<1>. QED  BY <1>1, <1>17 DEF J, base

-----------------------------------------------------------------------------
(* A further base and its automaton *)

ByBase(n) == {verdict \in Verdicts : n \in verdict}

\* The automaton that a new base stands for is explained by the bases, the new one among them.
LEMMA NewestBase ==
    ASSUME NEW bs, AreBases(bs), Len(bs) + 1 <= MaxBases, NEW base, IsExplicitDfa(base.dfa),
           NEW d, Recognizes(d, OneJudge(base), AcceptedBy(base))
    PROVE  IsFor(bs \o <<base>>, d, ByBase(Len(bs) + 1))
<1>. DEFINE more == bs \o <<base>>
            n == Len(bs)
            J == OneJudge(base)
            K == JudgeOf(more)
            h == [at \in PlacesOf(more) |-> at[n + 1]]
            accepts == ByBase(n + 1)
<1>1. /\ AreBases(more) /\ Len(more) = n + 1 /\ n \in Nat /\ DOMAIN more = 1 .. n + 1
      /\ more[n + 1] = base
  BY OneMoreBase
<1>. HIDE DEF more, n
<1>2. /\ IsJudge(J) /\ J.places = OnePlaces(base) /\ J.start = base_start
      /\ \A at \in OnePlaces(base), letter \in Alphabet : J.step[at][letter] = base_step(base, at, letter)
  <2>. HIDE DEF J
  <2>. QED  BY OneBaseJudges DEF J
<1>3. /\ IsJudge(K) /\ K.places = PlacesOf(more) /\ K.start = [k \in 1 .. n + 1 |-> base_start]
      /\ \A at \in PlacesOf(more), letter \in Alphabet : K.step[at][letter] = StepOf(more, at, letter)
      /\ K.start \in K.places
      /\ \A at \in K.places, letter \in Alphabet : K.step[at][letter] \in K.places
  <2>. HIDE DEF K
  <2>. QED  BY <1>1, BasesJudge DEF K, IsJudge
<1>4. Recognizes(d, J, AcceptedBy(base))
  OBVIOUS
<1>. HIDE DEF J, K
<1>5. n + 1 \in 1 .. n + 1 /\ n + 1 <= MaxBases
  BY <1>1 DEF n
<1>6. \A at \in PlacesOf(more) : at[n + 1] \in OnePlaces(base) /\ h[at] = at[n + 1]
  BY <1>1, <1>5 DEF PlacesOf, OnePlaces
<1>. HIDE DEF h
<1>7. h \in [PlacesOf(more) -> OnePlaces(base)]
  <2>1. h = [at \in PlacesOf(more) |-> h[at]]
    BY DEF h
  <2>. QED  BY <1>6, <2>1
<1>8. h[K.start] = J.start
  BY <1>2, <1>3, <1>5, <1>6
<1>9. ASSUME NEW at \in PlacesOf(more), NEW letter \in Alphabet
      PROVE  h[K.step[at][letter]] = J.step[h[at]][letter]
  <2>1. h[K.step[at][letter]] = StepOf(more, at, letter)[n + 1]
    BY <1>3, <1>6
  <2>2. StepOf(more, at, letter)[n + 1] = base_step(base, at[n + 1], letter)
    BY <1>1, <1>5 DEF StepOf
  <2>3. J.step[h[at]][letter] = base_step(base, at[n + 1], letter)
    BY <1>2, <1>6
  <2>. QED  BY <2>1, <2>2, <2>3
<1>10. ASSUME NEW at \in PlacesOf(more)
       PROVE  at \in GoodFor(more, accepts) <=> h[at] \in AcceptedBy(base)
  <2>1. AcceptingIn(more, at) \in Verdicts
    <3>1. AcceptingIn(more, at) \subseteq 1 .. n + 1
      BY <1>1 DEF AcceptingIn
    <3>2. 1 .. n + 1 \subseteq 1 .. MaxBases
      BY <1>1, <1>5, SymbolicAssumption
    <3>. QED  BY <3>1, <3>2 DEF Verdicts
  <2>2. AcceptingIn(more, at) \in accepts <=> base_accepts(base, at[n + 1])
    BY <1>1, <1>5, <2>1 DEF AcceptingIn, ByBase
  <2>. HIDE DEF accepts
  <2>. QED  BY <1>6, <2>2 DEF GoodFor, AcceptedBy
<1>11. Recognizes(d, K, GoodFor(more, accepts))
  <2>. HIDE DEF accepts
  <2>. QED  BY <1>2, <1>3, <1>4, <1>7, <1>8, <1>9, <1>10, FinerJudge
<1>12. accepts \subseteq Verdicts /\ Settled(accepts, n + 1)
  <2>1. ASSUME NEW verdict \in Verdicts
        PROVE  verdict \in accepts <=> verdict \cap (1 .. n + 1) \in accepts
    <3>1. verdict \cap (1 .. n + 1) \in Verdicts
      BY DEF Verdicts
    <3>. QED  BY <1>5, <3>1 DEF ByBase
  <2>2. accepts \subseteq Verdicts
    BY DEF ByBase
  <2>. QED  BY <2>1, <2>2 DEF Settled
<1>13. IsFor(more, d, accepts)
  BY <1>1, <1>11, <1>12 DEF IsFor, K
<1>. QED  BY <1>13 DEF more, n

-----------------------------------------------------------------------------
(* The explicit automata at hand *)

\* A list without its last element.
LEMMA ListFront ==
    ASSUME NEW s, IsList(s), s # <<>>
    PROVE  /\ IsList(Front(s)) /\ Len(s) \in 1 .. Len(s) /\ Len(Front(s)) = Len(s) - 1
           /\ Last(s) = s[Len(s)]
           /\ \A i \in 1 .. Len(s) - 1 : Front(s)[i] = s[i] /\ i \in 1 .. Len(s)
<1>. DEFINE S == ToSet(s)
            n == Len(s)
<1>1. s \in Seq(S) /\ n \in Nat
  BY ListProperties DEF IsList
<1>2. n # 0
  <2>. HIDE DEF S
  <2>. QED  BY <1>1, EmptySeq
<1>3. \A i \in 1 .. n : s[i] \in S
  <2>. HIDE DEF S
  <2>. QED  BY <1>1, LenProperties
<1>. HIDE DEF S, n
<1>4. 1 \in Int /\ n - 1 \in Int /\ \A i \in 1 .. n - 1 : s[i] \in S
  BY <1>1, <1>3
<1>5. /\ SubSeq(s, 1, n - 1) \in Seq(S)
      /\ Len(SubSeq(s, 1, n - 1)) = IF 1 <= n - 1 THEN (n - 1) - 1 + 1 ELSE 0
      /\ \A i \in 1 .. (n - 1) - 1 + 1 : SubSeq(s, 1, n - 1)[i] = s[1 + i - 1]
  BY <1>4, SubSeqProperties
<1>6. /\ Len(SubSeq(s, 1, n - 1)) = n - 1
      /\ \A i \in 1 .. n - 1 : SubSeq(s, 1, n - 1)[i] = s[i] /\ i \in 1 .. n
  BY <1>1, <1>2, <1>5
<1>7. Front(s) = SubSeq(s, 1, n - 1) /\ Last(s) = s[n]
  BY DEF Front, Last, n
<1>8. IsList(Front(s))
  BY <1>5, <1>7, ListOver
<1>9. n \in 1 .. n
  BY <1>1, <1>2
<1>. QED  BY <1>6, <1>7, <1>8, <1>9 DEF n

\* Each automaton is explained by the bases.
AllFor(bs, list) ==
    /\ IsList(list)
    /\ \A i \in 1 .. Len(list) : IsFor(bs, list[i].dfa, list[i].accepts)

ExplicitInv == AreBases(bases) /\ AllFor(bases, explicit_dfas)

\* One more automaton at hand.
LEMMA OneMoreFor ==
    ASSUME NEW bs, NEW list, AllFor(bs, list), NEW entry, IsFor(bs, entry.dfa, entry.accepts)
    PROVE  AllFor(bs, Append(list, entry))
<1>1. /\ IsList(Append(list, entry)) /\ Len(Append(list, entry)) = Len(list) + 1
      /\ \A i \in 1 .. Len(list) : Append(list, entry)[i] = list[i]
      /\ Append(list, entry)[Len(list) + 1] = entry
  BY ListAppended DEF AllFor
<1>2. Len(list) \in Nat
  BY ListProperties DEF AllFor
<1>3. \A i \in 1 .. Len(list) + 1 : i \in 1 .. Len(list) \/ i = Len(list) + 1
  BY <1>2
<1>. QED  BY <1>1, <1>3 DEF AllFor

\* One automaton less at hand.
LEMMA AllButLastFor ==
    ASSUME NEW bs, NEW list, AllFor(bs, list), list # <<>>
    PROVE  AllFor(bs, Front(list)) /\ IsFor(bs, Last(list).dfa, Last(list).accepts)
BY ListFront DEF AllFor

\* One more base.
LEMMA AllStillFor ==
    ASSUME NEW bs, AreBases(bs), Len(bs) + 1 <= MaxBases, NEW base, IsExplicitDfa(base.dfa),
           NEW list, AllFor(bs, list)
    PROVE  AllFor(bs \o <<base>>, list)
BY StillFor DEF AllFor

\* What stays the same when there is no new base.
LEMMA NoNewBase ==
    ASSUME AreBases(bases), NEW list, Explicit(list, <<>>)
    PROVE  bases' = bases /\ explicit_dfas' = list
<1>1. bases \o <<>> = bases
  <2>1. bases \in Seq(ToSet(bases))
    BY DEF AreBases, IsList
  <2>. QED  BY <2>1, ConcatEmptySeq
<1>. QED  BY <1>1 DEF Explicit

\* What changes when there is a new base.
LEMMA NewBase ==
    ASSUME AreBases(bases), NEW base, IsExplicitDfa(base.dfa), NEW list, Explicit(list, <<base>>)
    PROVE  /\ bases' = bases \o <<base>> /\ explicit_dfas' = list
           /\ Len(bases) + 1 <= MaxBases
           /\ AreBases(bases \o <<base>>)
<1>1. Len(<<base>>) = 1
  OBVIOUS
<1>2. Len(bases) + 1 <= MaxBases
  BY <1>1 DEF Explicit
<1>. QED  BY <1>2, OneMoreBase DEF Explicit

\* The automaton of a formula comes with a base of its own.
LEMMA FormulaFor ==
    ASSUME ExplicitInv, NEW d \in FormulaDfas, BuildFormula(d)
    PROVE  ExplicitInv'
<1>. DEFINE base == Whole(d)
            entry == [dfa |-> d, accepts |-> ByNextBase]
            more == bases \o <<base>>
<1>1. IsExplicitDfa(d) /\ base.dfa = d
  BY SymbolicAssumption DEF Whole
<1>2. Explicit(Append(explicit_dfas, entry), <<base>>)
  BY DEF BuildFormula
<1>3. /\ bases' = more /\ explicit_dfas' = Append(explicit_dfas, entry)
      /\ Len(bases) + 1 <= MaxBases /\ AreBases(more)
  <2>. HIDE DEF base, entry
  <2>. QED  BY <1>1, <1>2, NewBase DEF ExplicitInv
<1>4. AllFor(more, explicit_dfas)
  <2>. HIDE DEF base
  <2>. QED  BY <1>1, <1>3, AllStillFor DEF ExplicitInv
<1>5. IsFor(more, d, ByBase(Len(bases) + 1))
  <2>1. Recognizes(d, OneJudge(base), AcceptedBy(base))
    BY <1>1, WholeIsJudged
  <2>. HIDE DEF base
  <2>. QED  BY <1>1, <1>3, <2>1, NewestBase DEF ExplicitInv
<1>6. entry.dfa = d /\ entry.accepts = ByBase(Len(bases) + 1)
  BY DEF ByNextBase, ByBase
<1>. HIDE DEF entry, more
<1>7. AllFor(more, Append(explicit_dfas, entry))
  BY <1>4, <1>5, <1>6, OneMoreFor
<1>. QED  BY <1>3, <1>7 DEF ExplicitInv

\* The latest automaton is restricted.
LEMMA RestrictedFor ==
    ASSUME ExplicitInv, explicit_dfas # <<>>, NEW moves,
           DOMAIN moves \subseteq StatesOf(Last(explicit_dfas).dfa), 0 \in DOMAIN moves,
           OnLatest(restrict_dfa_with_transitions(Last(explicit_dfas).dfa, moves), ByNextBase,
                    <<Leaving(Last(explicit_dfas).dfa, moves)>>)
    PROVE  ExplicitInv'
<1>. DEFINE d == Last(explicit_dfas).dfa
            base == Leaving(d, moves)
            entry == [dfa |-> restrict_dfa_with_transitions(d, moves), accepts |-> ByNextBase]
            more == bases \o <<base>>
            list == Front(explicit_dfas)
<1>1. AllFor(bases, list) /\ IsExplicitDfa(d) /\ AreBases(bases)
  BY AllButLastFor DEF ExplicitInv, IsFor, Recognizes
<1>2. base.dfa = d
  BY DEF Leaving
<1>3. Explicit(Append(list, entry), <<base>>)
  BY DEF OnLatest
<1>4. /\ bases' = more /\ explicit_dfas' = Append(list, entry)
      /\ Len(bases) + 1 <= MaxBases /\ AreBases(more)
  <2>. HIDE DEF base, entry, list, d
  <2>. QED  BY <1>1, <1>2, <1>3, NewBase
<1>5. AllFor(more, list)
  <2>. HIDE DEF base, list, d
  <2>. QED  BY <1>1, <1>2, <1>4, AllStillFor
<1>6. IsFor(more, entry.dfa, ByBase(Len(bases) + 1))
  <2>1. Recognizes(entry.dfa, OneJudge(base), AcceptedBy(base))
    BY <1>1, LeavingIsJudged
  <2>. HIDE DEF base, entry, d
  <2>. QED  BY <1>1, <1>2, <1>4, <2>1, NewestBase
<1>7. entry.accepts = ByBase(Len(bases) + 1)
  BY DEF ByNextBase, ByBase
<1>. HIDE DEF entry, more, list
<1>8. AllFor(more, Append(list, entry))
  BY <1>5, <1>6, <1>7, OneMoreFor
<1>. QED  BY <1>4, <1>8 DEF ExplicitInv

\* A restriction to states or to moves.
LEMMA RestrictionFor ==
    ASSUME ExplicitInv, BuildRestriction
    PROVE  ExplicitInv'
<1>. DEFINE d == Last(explicit_dfas).dfa
<1>1. explicit_dfas # <<>>
  BY DEF BuildRestriction
<1>2. IsExplicitDfa(d)
  BY <1>1, AllButLastFor DEF ExplicitInv, IsFor, Recognizes
<1>3. CASE \E states \in SUBSET StatesOf(d) :
             /\ 0 \in states
             /\ OnLatest(restrict_dfa_with_states(d, states), ByNextBase,
                         <<Leaving(d, [state \in states |-> Bits(d.names)])>>)
  <2>1. PICK states \in SUBSET StatesOf(d) :
             /\ 0 \in states
             /\ OnLatest(restrict_dfa_with_states(d, states), ByNextBase,
                         <<Leaving(d, [state \in states |-> Bits(d.names)])>>)
    BY <1>3
  <2>. DEFINE moves == [state \in states |-> Bits(d.names)]
  <2>2. DOMAIN moves = states
    OBVIOUS
  <2>3. restrict_dfa_with_states(d, states) = restrict_dfa_with_transitions(d, moves)
    BY DEF restrict_dfa_with_states
  <2>. HIDE DEF moves
  <2>. QED  BY <1>1, <2>1, <2>2, <2>3, RestrictedFor DEF moves
<1>4. CASE \E value \in {0, 1} :
             LET moves == [state \in StatesOf(d) |->
                             {bits \in Bits(d.names) : \A i \in DOMAIN bits : bits[i] = value}]
             IN  OnLatest(restrict_dfa_with_transitions(d, moves), ByNextBase,
                          <<Leaving(d, moves)>>)
  <2>1. PICK value \in {0, 1} :
             LET moves == [state \in StatesOf(d) |->
                             {bits \in Bits(d.names) : \A i \in DOMAIN bits : bits[i] = value}]
             IN  OnLatest(restrict_dfa_with_transitions(d, moves), ByNextBase,
                          <<Leaving(d, moves)>>)
    BY <1>4
  <2>. DEFINE moves == [state \in StatesOf(d) |->
                             {bits \in Bits(d.names) : \A i \in DOMAIN bits : bits[i] = value}]
  <2>2. OnLatest(restrict_dfa_with_transitions(d, moves), ByNextBase, <<Leaving(d, moves)>>)
    BY <2>1
  <2>3. DOMAIN moves \subseteq StatesOf(d) /\ 0 \in DOMAIN moves
    BY <1>2, ExplicitParts
  <2>. HIDE DEF moves
  <2>. QED  BY <1>1, <2>2, <2>3, RestrictedFor
<1>. QED  BY <1>3, <1>4 DEF BuildRestriction

\* Another automaton for the latest one, and the same bases.
LEMMA LatestFor ==
    ASSUME ExplicitInv, explicit_dfas # <<>>, NEW dfa, NEW accepts, IsFor(bases, dfa, accepts),
           OnLatest(dfa, accepts, <<>>)
    PROVE  ExplicitInv'
<1>. DEFINE entry == [dfa |-> dfa, accepts |-> accepts]
            list == Front(explicit_dfas)
<1>1. AllFor(bases, list) /\ AreBases(bases)
  BY AllButLastFor DEF ExplicitInv
<1>2. Explicit(Append(list, entry), <<>>)
  BY DEF OnLatest
<1>3. entry.dfa = dfa /\ entry.accepts = accepts
  OBVIOUS
<1>. HIDE DEF entry, list
<1>4. bases' = bases /\ explicit_dfas' = Append(list, entry)
  BY <1>1, <1>2, NoNewBase
<1>5. AllFor(bases, Append(list, entry))
  BY <1>1, <1>3, OneMoreFor
<1>. QED  BY <1>1, <1>4, <1>5 DEF ExplicitInv

\* The bases that accept are a verdict.
LEMMA VerdictOf ==
    ASSUME NEW bs, AreBases(bs), NEW at
    PROVE  AcceptingIn(bs, at) \in Verdicts /\ AcceptingIn(bs, at) \subseteq 1 .. Len(bs)
<1>1. DOMAIN bs = 1 .. Len(bs) /\ Len(bs) \in Nat /\ Len(bs) <= MaxBases
  BY ListProperties DEF AreBases
<1>2. 1 .. Len(bs) \subseteq 1 .. MaxBases
  BY <1>1, SymbolicAssumption
<1>. QED  BY <1>1, <1>2 DEF AcceptingIn, Verdicts

\* The complement accepts for the other verdicts.
LEMMA ComplementFor ==
    ASSUME NEW bs, AreBases(bs), NEW d, NEW accepts, IsFor(bs, d, accepts)
    PROVE  IsFor(bs, dfa_complement(d), Verdicts \ accepts)
<1>. DEFINE J == JudgeOf(bs)
<1>1. IsJudge(J) /\ J.places = PlacesOf(bs) /\ Recognizes(d, J, GoodFor(bs, accepts))
  BY BasesJudge DEF IsFor
<1>. HIDE DEF J
<1>2. Recognizes(dfa_complement(d), J, J.places \ GoodFor(bs, accepts))
  BY <1>1, ComplementKeepsLanguage
<1>3. GoodFor(bs, Verdicts \ accepts) = J.places \ GoodFor(bs, accepts)
  BY <1>1, VerdictOf DEF GoodFor
<1>4. Settled(Verdicts \ accepts, Len(bs))
  <2>1. \A verdict \in Verdicts : verdict \cap (1 .. Len(bs)) \in Verdicts
    BY DEF Verdicts
  <2>. QED  BY <2>1 DEF Settled, IsFor
<1>. QED  BY <1>2, <1>3, <1>4 DEF IsFor, J

\* Minimization leaves what an automaton is for.
LEMMA MinimalFor ==
    ASSUME NEW bs, AreBases(bs), NEW d, NEW accepts, IsFor(bs, d, accepts)
    PROVE  IsFor(bs, dfa_minimize(d), accepts)
<1>. DEFINE J == JudgeOf(bs)
<1>1. IsJudge(J) /\ Recognizes(d, J, GoodFor(bs, accepts))
  BY BasesJudge DEF IsFor
<1>. HIDE DEF J
<1>2. Recognizes(dfaMinimize(d), J, GoodFor(bs, accepts))
  BY <1>1, MinimalKeepsLanguage
<1>. QED  BY <1>2 DEF IsFor, J, dfa_minimize

\* The automata at hand, all together.
AllTogether(list) == {s \in Verdicts : \A i \in DOMAIN list : s \in list[i].accepts}

AnyOf(list) == UNION {list[i].accepts : i \in DOMAIN list}

\* The products are for the verdicts that all, or some, of the factors are for.
LEMMA ProductsFor ==
    ASSUME NEW bs, AreBases(bs), NEW list, AllFor(bs, list), Len(list) > 1
    PROVE  /\ IsFor(bs, dfa_product_and([i \in DOMAIN list |-> list[i].dfa]), AllTogether(list))
           /\ IsFor(bs, dfa_product_or([i \in DOMAIN list |-> list[i].dfa]), AnyOf(list))
<1>. DEFINE J == JudgeOf(bs)
            n == Len(list)
            vector == [i \in DOMAIN list |-> list[i].dfa]
            goods == [i \in 1 .. n |-> GoodFor(bs, list[i].accepts)]
<1>1. n \in Nat /\ DOMAIN list = 1 .. n /\ n > 1
  BY ListProperties DEF AllFor
<1>2. IsJudge(J) /\ J.places = PlacesOf(bs)
  BY BasesJudge
<1>3. \A i \in 1 .. n : /\ Recognizes(list[i].dfa, J, GoodFor(bs, list[i].accepts))
                        /\ list[i].accepts \subseteq Verdicts /\ Settled(list[i].accepts, Len(bs))
  BY DEF AllFor, IsFor
<1>. HIDE DEF J, n
<1>4. IsList(vector) /\ Len(vector) = n /\ \A i \in 1 .. n : vector[i] = list[i].dfa
  <2>1. vector = [i \in 1 .. n |-> vector[i]] /\ \A i \in 1 .. n : vector[i] = list[i].dfa
    BY <1>1
  <2>. HIDE DEF vector
  <2>. QED  BY <1>1, <2>1, ListOf
<1>5. /\ goods \in [1 .. n -> SUBSET J.places]
      /\ \A i \in 1 .. n : goods[i] = GoodFor(bs, list[i].accepts)
  BY <1>2 DEF GoodFor
<1>. HIDE DEF vector, goods
<1>6. /\ Recognizes(dfa_product_and(vector), J, {at \in J.places : \A i \in 1 .. n : at \in goods[i]})
      /\ Recognizes(dfa_product_or(vector), J, {at \in J.places : \E i \in 1 .. n : at \in goods[i]})
  <2>1. vector \in Seq(ToSet(vector)) /\ Len(vector) > 0
    BY <1>1, <1>4 DEF IsList
  <2>2. goods \in [1 .. Len(vector) -> SUBSET J.places]
        /\ \A i \in 1 .. Len(vector) : Recognizes(vector[i], J, goods[i])
    BY <1>3, <1>4, <1>5
  <2>3. ProductsRecognize(J, vector, goods)
    BY <1>2, <2>1, <2>2, ProductsKeepLanguage
  <2>. QED  BY <1>4, <2>3 DEF ProductsRecognize
<1>7. GoodFor(bs, AllTogether(list)) = {at \in J.places : \A i \in 1 .. n : at \in goods[i]}
  BY <1>1, <1>2, <1>5, VerdictOf DEF GoodFor, AllTogether
<1>8. GoodFor(bs, AnyOf(list)) = {at \in J.places : \E i \in 1 .. n : at \in goods[i]}
  BY <1>1, <1>2, <1>5, VerdictOf DEF GoodFor, AnyOf
<1>9. \A verdict \in Verdicts : verdict \cap (1 .. Len(bs)) \in Verdicts
  BY DEF Verdicts
<1>10. AllTogether(list) \subseteq Verdicts /\ Settled(AllTogether(list), Len(bs))
  BY <1>1, <1>3, <1>9 DEF AllTogether, Settled
<1>11. AnyOf(list) \subseteq Verdicts /\ Settled(AnyOf(list), Len(bs))
  <2>1. \A verdict : verdict \in AnyOf(list) <=> \E i \in 1 .. n : verdict \in list[i].accepts
    BY <1>1 DEF AnyOf
  <2>. QED  BY <1>3, <1>9, <2>1 DEF Settled
<1>. QED  BY <1>6, <1>7, <1>8, <1>10, <1>11 DEF IsFor, J, vector

\* One automaton for all at hand.
LEMMA ProductFor ==
    ASSUME ExplicitInv, NEW dfa, NEW accepts, IsFor(bases, dfa, accepts),
           Explicit(<<[dfa |-> dfa, accepts |-> accepts]>>, <<>>)
    PROVE  ExplicitInv'
<1>. DEFINE entry == [dfa |-> dfa, accepts |-> accepts]
<1>1. Explicit(<<entry>>, <<>>) /\ AreBases(bases)
  BY DEF ExplicitInv
<1>2. IsFor(bases, entry.dfa, entry.accepts)
  OBVIOUS
<1>. HIDE DEF entry
<1>3. bases' = bases /\ explicit_dfas' = <<entry>>
  BY <1>1, NoNewBase
<1>4. IsList(<<entry>>) /\ Len(<<entry>>) = 1 /\ <<entry>>[1] = entry
  <2>1. <<entry>> \in Seq({entry})
    OBVIOUS
  <2>. QED  BY <2>1, ListOver
<1>5. AllFor(bases, <<entry>>)
  <2>. DEFINE one == <<entry>>
  <2>1. IsList(one) /\ Len(one) = 1 /\ one[1] = entry
    BY <1>4
  <2>. HIDE DEF one
  <2>2. AllFor(bases, one)
    BY <1>2, <2>1 DEF AllFor
  <2>. QED  BY <2>2 DEF one
<1>. QED  BY <1>1, <1>3, <1>5 DEF ExplicitInv

\* Only the explicit automata and the bases count.
LEMMA ExplicitStays ==
    ASSUME ExplicitInv, bases' = bases, explicit_dfas' = explicit_dfas
    PROVE  ExplicitInv'
BY DEF ExplicitInv

\* No step spoils the explicit automata.
LEMMA NextExplicitInv == ExplicitInv /\ [DfaNext]_dfa_vars => ExplicitInv'
<1>. SUFFICES ASSUME ExplicitInv, [DfaNext]_dfa_vars PROVE ExplicitInv'
  OBVIOUS
<1>1. ASSUME NEW d \in FormulaDfas, BuildFormula(d) PROVE ExplicitInv'
  BY <1>1, FormulaFor
<1>2. CASE BuildAnd
  <2>. DEFINE dfa == dfa_product_and([i \in DOMAIN explicit_dfas |-> explicit_dfas[i].dfa])
  <2>1. Len(explicit_dfas) > 1 /\ Explicit(<<[dfa |-> dfa, accepts |-> AllTogether(explicit_dfas)]>>, <<>>)
    BY <1>2 DEF BuildAnd, OnAll, AllTogether
  <2>2. IsFor(bases, dfa, AllTogether(explicit_dfas))
    BY <2>1, ProductsFor DEF ExplicitInv
  <2>. HIDE DEF dfa
  <2>. QED  BY <2>1, <2>2, ProductFor
<1>3. CASE BuildOr
  <2>. DEFINE dfa == dfa_product_or([i \in DOMAIN explicit_dfas |-> explicit_dfas[i].dfa])
  <2>1. Len(explicit_dfas) > 1 /\ Explicit(<<[dfa |-> dfa, accepts |-> AnyOf(explicit_dfas)]>>, <<>>)
    BY <1>3 DEF BuildOr, OnAll, AnyOf
  <2>2. IsFor(bases, dfa, AnyOf(explicit_dfas))
    BY <2>1, ProductsFor DEF ExplicitInv
  <2>. HIDE DEF dfa
  <2>. QED  BY <2>1, <2>2, ProductFor
<1>4. CASE BuildComplement
  <2>. DEFINE last == Last(explicit_dfas)
  <2>1. explicit_dfas # <<>> /\ OnLatest(dfa_complement(last.dfa), Verdicts \ last.accepts, <<>>)
    BY <1>4 DEF BuildComplement
  <2>2. IsFor(bases, last.dfa, last.accepts)
    BY <2>1, AllButLastFor DEF ExplicitInv
  <2>. HIDE DEF last
  <2>3. IsFor(bases, dfa_complement(last.dfa), Verdicts \ last.accepts)
    BY <2>2, ComplementFor DEF ExplicitInv
  <2>. QED  BY <2>1, <2>3, LatestFor
<1>5. CASE BuildMinimal
  <2>. DEFINE last == Last(explicit_dfas)
  <2>1. explicit_dfas # <<>> /\ OnLatest(dfa_minimize(last.dfa), last.accepts, <<>>)
    BY <1>5 DEF BuildMinimal
  <2>2. IsFor(bases, last.dfa, last.accepts)
    BY <2>1, AllButLastFor DEF ExplicitInv
  <2>. HIDE DEF last
  <2>3. IsFor(bases, dfa_minimize(last.dfa), last.accepts)
    BY <2>2, MinimalFor DEF ExplicitInv
  <2>. QED  BY <2>1, <2>3, LatestFor
<1>6. CASE BuildRestriction
  BY <1>6, RestrictionFor
<1>7. CASE BuildSymbolic
  <2>1. explicit_dfas # <<>> /\ explicit_dfas' = Front(explicit_dfas) /\ bases' = bases
    BY <1>7 DEF BuildSymbolic
  <2>2. AllFor(bases, Front(explicit_dfas))
    BY <2>1, AllButLastFor DEF ExplicitInv
  <2>. QED  BY <2>1, <2>2 DEF ExplicitInv
<1>8. ASSUME \/ \E ids \in DfaPairs : product_AND(ids) \/ product_OR(ids)
             \/ \E id \in DOMAIN dfas : complement(id)
             \/ \E ids \in DfaPairs : new_sink_states(ids[1], Unsafe(dfas[ids[2]]))
             \/ \E id \in DOMAIN dfas :
                    restrict_symbolic_dfa_with_states(id, Acceptable(dfas[id]))
             \/ \E id \in DOMAIN dfas :
                    restrict_symbolic_dfa_with_transitions(id, MovesTo(dfas[id], Acceptable(dfas[id])))
             \/ \E id \in DOMAIN dfas : Start(id)
             \/ \E letter \in Alphabet : Read(letter)
             \/ UNCHANGED dfa_vars
      PROVE  ExplicitInv'
  <2>1. bases' = bases /\ explicit_dfas' = explicit_dfas
    BY <1>8 DEF product_AND, product_OR, Product, complement, new_sink_states,
                restrict_symbolic_dfa_with_states, restrict_symbolic_dfa_with_transitions,
                Change, Start, Read, dfa_vars
  <2>. QED  BY <2>1, ExplicitStays
<1>. QED  BY <1>1, <1>2, <1>3, <1>4, <1>5, <1>6, <1>7, <1>8 DEF DfaNext

-----------------------------------------------------------------------------
(* The variables of symbolic automata *)

IsGroup(group, size) ==
    IsList(group) /\ \A i \in 1 .. Len(group) : group[i] \in 0 .. size - 1

\* The manager has no variables but those of the automata.
VariablesInv ==
    /\ bdd_size \in 0 .. MaxVariables /\ state_variable_count = bdd_size
    /\ IsFiniteSet(Known)
    /\ IsList(state_variables)
    /\ \A id \in 1 .. Len(state_variables) : IsGroup(state_variables[id], bdd_size)

\* Within the bounds, different variables have different names.
LEMMA AsManyNames ==
    ASSUME bdd_size \in Nat, state_variable_count = bdd_size, MaxAutomata # 0,
           NEW n \in Nat, bdd_size + n <= MaxVariables
    PROVE  Cardinality(NewStateNames(n)) = n
<1>. DEFINE I == 0 .. n - 1
            f == [i \in I |-> StateName(bdd_size + i)]
            most == MaxVariables * MaxAutomata
<1>1. MaxVariables \in Nat /\ MaxAutomata \in Nat
  BY BoundsAssumption
<1>2. most \in Nat /\ MaxVariables <= most
  <2>1. MaxAutomata - 1 \in Nat /\ MaxAutomata = (MaxAutomata - 1) + 1
    BY <1>1
  <2>2. \A x, y \in Nat : x * y \in Nat /\ x * (y + 1) = x * y + x
    OBVIOUS
  <2>3. /\ MaxVariables * (MaxAutomata - 1) \in Nat
        /\ MaxVariables * ((MaxAutomata - 1) + 1) = MaxVariables * (MaxAutomata - 1) + MaxVariables
    BY <1>1, <2>1, <2>2
  <2>. DEFINE smaller == MaxVariables * (MaxAutomata - 1)
  <2>4. smaller \in Nat /\ most = smaller + MaxVariables
    BY <2>1, <2>3
  <2>. HIDE DEF smaller, most
  <2>. QED  BY <1>1, <2>4
<1>. HIDE DEF most
<1>3. \A i \in I : bdd_size + i \in 0 .. most
  BY <1>1, <1>2
<1>4. \A i, j \in I : StateName(bdd_size + i) = StateName(bdd_size + j) => i = j
  <2>. SUFFICES ASSUME NEW i \in I, NEW j \in I, StateName(bdd_size + i) = StateName(bdd_size + j)
                PROVE  i = j
    OBVIOUS
  <2>1. bdd_size + i = bdd_size + j
    BY <1>3, NamesAssumption DEF most
  <2>. QED  BY <2>1
<1>5. IsFiniteSet(I) /\ Cardinality(I) = n
  <2>1. IsFiniteSet(I) /\ Cardinality(I) = IF 0 > n - 1 THEN 0 ELSE (n - 1) - 0 + 1
    BY FS_Interval
  <2>. QED  BY <2>1
<1>6. f \in Bijection(I, NewStateNames(n))
  <2>1. NewStateNames(n) = {StateName(bdd_size + i) : i \in I}
    BY DEF NewStateNames
  <2>2. f \in [I -> NewStateNames(n)] /\ \A t \in NewStateNames(n) : \E i \in I : f[i] = t
    BY <2>1
  <2>3. \A i, j \in I : f[i] = f[j] => i = j
    BY <1>4
  <2>. HIDE DEF I, f
  <2>. QED  BY <2>2, <2>3, Fun_IsBij
<1>7. IsFiniteSet(NewStateNames(n))
  BY NewStateNamesAreFinite
<1>8. ExistsBijection(I, NewStateNames(n))
  BY <1>6 DEF ExistsBijection
<1>. HIDE DEF I
<1>. QED  BY <1>5, <1>7, <1>8, FS_Bijection

\* New variables for an automaton.
LEMMA VariablesCreated ==
    ASSUME VariablesInv, NEW n \in Nat, create_state_variables(n)
    PROVE  /\ VariablesInv'
           /\ bdd_size' = bdd_size + n
           /\ state_variables' = Append(state_variables, new_state_variables(n))
           /\ IsList(new_state_variables(n)) /\ Len(new_state_variables(n)) = n
           /\ \A i \in 1 .. n : new_state_variables(n)[i] = bdd_size + i - 1
<1>. DEFINE group == new_state_variables(n)
<1>1. /\ bdd_size + n <= MaxVariables /\ Len(state_variables) < MaxAutomata
      /\ register(state_names(n))
      /\ state_variables' = Append(state_variables, group)
      /\ state_variable_count' = state_variable_count + n
  BY DEF create_state_variables
<1>2. bdd_size \in Nat /\ MaxVariables \in Nat /\ state_variable_count = bdd_size
  BY BoundsAssumption DEF VariablesInv
<1>3. MaxAutomata # 0 /\ Len(state_variables) \in Nat
  <2>1. Len(state_variables) \in Nat
    BY ListProperties DEF VariablesInv
  <2>. QED  BY <1>1, <2>1, BoundsAssumption
<1>4. /\ DOMAIN state_names(n) = NewStateNames(n) /\ IsFiniteSet(NewStateNames(n))
      /\ Cardinality(NewStateNames(n)) = n
  BY <1>1, <1>2, <1>3, AsManyNames, NewStateNamesAreFinite
<1>5. /\ bdd_size' = bdd_size + n
      /\ Known' = Known \cup NewStateNames(n)
  BY <1>1, <1>4, WrittenEntries DEF register, Known
<1>6. IsFiniteSet(Known')
  BY <1>4, <1>5, FS_Union DEF VariablesInv
<1>7. /\ IsList(group) /\ Len(group) = n /\ \A i \in 1 .. n : group[i] = bdd_size + i - 1
  <2>1. group = [i \in 1 .. n |-> bdd_size + i - 1]
    BY DEF new_state_variables
  <2>2. group = [i \in 1 .. n |-> group[i]]
    BY <2>1
  <2>3. \A i \in 1 .. n : group[i] = bdd_size + i - 1
    BY <2>1
  <2>. HIDE DEF group
  <2>. QED  BY <2>2, <2>3, ListOf
<1>. HIDE DEF group
<1>8. /\ IsList(state_variables') /\ Len(state_variables') = Len(state_variables) + 1
      /\ \A id \in 1 .. Len(state_variables) : state_variables'[id] = state_variables[id]
      /\ state_variables'[Len(state_variables) + 1] = group
  BY <1>1, ListAppended DEF VariablesInv
<1>9. IsGroup(group, bdd_size + n)
  BY <1>2, <1>7 DEF IsGroup
<1>10. \A id \in 1 .. Len(state_variables) : IsGroup(state_variables[id], bdd_size + n)
  <2>1. \A index \in 0 .. bdd_size - 1 : index \in 0 .. bdd_size + n - 1
    BY <1>2
  <2>. QED  BY <2>1 DEF VariablesInv, IsGroup
<1>11. \A id \in 1 .. Len(state_variables') : IsGroup(state_variables'[id], bdd_size')
  <2>1. \A id \in 1 .. Len(state_variables) + 1 :
            id \in 1 .. Len(state_variables) \/ id = Len(state_variables) + 1
    BY <1>3
  <2>. QED  BY <1>5, <1>8, <1>9, <1>10, <2>1
<1>12. bdd_size' \in 0 .. MaxVariables /\ state_variable_count' = bdd_size'
  BY <1>1, <1>2, <1>5
<1>13. VariablesInv'
  BY <1>6, <1>8, <1>11, <1>12 DEF VariablesInv
<1>. QED  BY <1>1, <1>5, <1>7, <1>13 DEF group

\* A group of variables that exist.
LEMMA VariablesShared ==
    ASSUME VariablesInv, NEW group, IsGroup(group, bdd_size),
           state_variables' = Append(state_variables, group),
           UNCHANGED <<bdd_size, name_to_variable, state_variable_count>>
    PROVE  VariablesInv'
<1>1. Len(state_variables) \in Nat
  BY ListProperties DEF VariablesInv
<1>2. /\ IsList(state_variables') /\ Len(state_variables') = Len(state_variables) + 1
      /\ \A id \in 1 .. Len(state_variables) : state_variables'[id] = state_variables[id]
      /\ state_variables'[Len(state_variables) + 1] = group
  BY ListAppended DEF VariablesInv
<1>3. \A id \in 1 .. Len(state_variables) + 1 :
          id \in 1 .. Len(state_variables) \/ id = Len(state_variables) + 1
  BY <1>1
<1>4. \A id \in 1 .. Len(state_variables') : IsGroup(state_variables'[id], bdd_size)
  BY <1>2, <1>3 DEF VariablesInv
<1>5. bdd_size' = bdd_size /\ Known' = Known /\ state_variable_count' = state_variable_count
  BY DEF Known
<1>. QED  BY <1>2, <1>4, <1>5 DEF VariablesInv

\* Two groups, one after the other.
LEMMA GroupsJoined ==
    ASSUME NEW size, NEW g, NEW h, IsGroup(g, size), IsGroup(h, size)
    PROVE  IsGroup(g \o h, size)
<1>1. OneAfter(g, h) /\ Len(g) \in Nat /\ Len(h) \in Nat
  BY OneListAfter, ListProperties DEF IsGroup
<1>2. ASSUME NEW i \in 1 .. Len(g) + Len(h)
      PROVE  i \in 1 .. Len(g) \/ \E j \in 1 .. Len(h) : i = Len(g) + j
  <2>. DEFINE a == Len(g)
              b == Len(h)
  <2>1. a \in Nat /\ b \in Nat /\ i \in 1 .. a + b
    BY <1>1
  <2>. HIDE DEF a, b
  <2>2. i \in 1 .. a \/ (i - a \in 1 .. b /\ i = a + (i - a))
    BY <2>1
  <2>. QED  BY <2>2 DEF a, b
<1>3. ASSUME NEW i \in 1 .. Len(g \o h) PROVE (g \o h)[i] \in 0 .. size - 1
  <2>1. i \in 1 .. Len(g) + Len(h)
    BY <1>1 DEF OneAfter
  <2>2. CASE i \in 1 .. Len(g)
    BY <1>1, <2>2 DEF OneAfter, IsGroup
  <2>3. CASE \E j \in 1 .. Len(h) : i = Len(g) + j
    BY <1>1, <2>3 DEF OneAfter, IsGroup
  <2>. QED  BY <1>2, <2>1, <2>2, <2>3
<1>. QED  BY <1>1, <1>3 DEF OneAfter, IsGroup

-----------------------------------------------------------------------------
(* What a symbolic automaton is for *)

Purposes == [accepts : SUBSET Verdicts, sinks : SUBSET Valuations, kept : SUBSET AllMoves, mixed : BOOLEAN]

Automata(group) ==
    [automaton_id : Nat,
     initial_state : [1 .. Len(group) -> {0, 1}],
     final_states : SUBSET Valuations,
     transition_function : [1 .. Len(group) -> SUBSET AllMoves],
     purpose : Purposes]

\* The variables have the values that the letter gives them.
Follows(a, group, v, letter, w) ==
    /\ w \in Valuations
    /\ \A i \in 1 .. Len(group) : w[group[i]] = 1 <=> <<v, letter>> \in a.transition_function[i]

\* Valuations are related to where the bases are: at the start, after each move
\* that is kept, and where something is kept they accept alike.
StartsTogether(bs, a, group, R) ==
    \A v \in state_vector_to_bdd(group, a.initial_state) : <<v, JudgeOf(bs).start>> \in R

StepTogether(bs, a, group, R) ==
    \A v \in Valuations, at \in PlacesOf(bs), letter \in Alphabet, w \in Valuations :
        <<v, at>> \in R /\ <<v, letter>> \in a.purpose.kept /\ Follows(a, group, v, letter, w)
            => <<w, StepOf(bs, at, letter)>> \in R

AcceptTogether(bs, a, R) ==
    \A v \in Valuations, at \in PlacesOf(bs) :
        <<v, at>> \in R /\ ~LeavesIn(a, v) =>
            (v \in a.final_states <=> AcceptingIn(bs, at) \in a.purpose.accepts)

Explains(bs, a, group, R) ==
    StartsTogether(bs, a, group, R) /\ StepTogether(bs, a, group, R) /\ AcceptTogether(bs, a, R)

IsExplained(bs, a, group) == \E R : Explains(bs, a, group, R)

\* A variable in both groups has the same component in both automata.
Fit(a, g, b, h) ==
    \A i \in 1 .. Len(g), j \in 1 .. Len(h) :
        g[i] = h[j] => a.transition_function[i] = b.transition_function[j]

\* The states of the set keep their bits.
SinksStay(a, group) ==
    \A v \in a.purpose.sinks, letter \in Alphabet, i \in 1 .. Len(group) :
        <<v, letter>> \in a.transition_function[i] <=> v[group[i]] = 1

IsSound(bs, a, group) ==
    /\ a \in Automata(group)
    /\ SinksStay(a, group)
    /\ a.purpose.mixed = FALSE => Fit(a, group, a, group)
    /\ a.purpose.mixed = FALSE /\ a.purpose.sinks = {} => IsExplained(bs, a, group)

\* Built and not changed.
IsUnchanged(a) == a.purpose.mixed = FALSE /\ a.purpose.sinks = {} /\ a.purpose.kept = AllMoves

\* There is a letter.
LEMMA SomeLetter == \E letter : letter \in Alphabet
<1>1. [name \in Propositions |-> 0] \in Alphabet
  BY DEF Alphabet
<1>. QED  BY <1>1

\* What an automaton is for when it was only built.
LEMMA PlainParts ==
    ASSUME NEW accepts
    PROVE  /\ Plain(accepts).accepts = accepts /\ Plain(accepts).sinks = {}
           /\ Plain(accepts).kept = AllMoves /\ Plain(accepts).mixed = FALSE
           /\ accepts \subseteq Verdicts => Plain(accepts) \in Purposes
BY DEF Plain, Purposes

-----------------------------------------------------------------------------
(* The encoding of an explicit automaton *)

\* The valuations of a state.
LEMMA StateValuations ==
    ASSUME NEW group, IsList(group), NEW state \in Nat
    PROVE  \A v : v \in state_to_bdd(group, state) <=>
               /\ v \in Valuations
               /\ \A i \in 1 .. Len(group) : v[group[i]] = state_to_binary(state, Len(group))[i]
<1>1. Len(group) \in Nat
  BY ListProperties
<1>2. DOMAIN state_to_binary(state, Len(group)) = 1 .. Len(group)
  BY DEF state_to_binary
<1>. QED  BY <1>2 DEF state_to_bdd, state_vector_to_bdd

\* They are of one state only.
LEMMA OneStateOnly ==
    ASSUME NEW count \in Nat \ {0}, NEW group, IsList(group), Len(group) = bit_count_of(count),
           NEW a \in 0 .. count - 1, NEW b \in 0 .. count - 1, NEW v,
           v \in state_to_bdd(group, a), v \in state_to_bdd(group, b)
    PROVE  a = b
<1>. DEFINE n == Len(group)
<1>1. n \in Nat /\ a \in Nat /\ b \in Nat
  BY ListProperties
<1>2. \A i \in 1 .. n : state_to_binary(a, n)[i] = state_to_binary(b, n)[i]
  BY <1>1, StateValuations
<1>. HIDE DEF n
<1>3. state_to_binary(a, n) = state_to_binary(b, n)
  <2>. DEFINE p == state_to_binary(a, n)
              q == state_to_binary(b, n)
  <2>1. p \in [1 .. n -> {0, 1}] /\ q \in [1 .. n -> {0, 1}] /\ \A i \in 1 .. n : p[i] = q[i]
    BY <1>1, <1>2, Bits01
  <2>. DEFINE S == 1 .. n
  <2>. HIDE DEF p, q
  <2>2. p = q
    <3>1. p \in [S -> {0, 1}] /\ q \in [S -> {0, 1}] /\ \A i \in S : p[i] = q[i]
      BY <2>1
    <3>. HIDE DEF S
    <3>. QED  BY <3>1
  <2>. QED  BY <2>2 DEF p, q
<1>. QED  BY <1>3, EncodingIsInjective DEF n

\* What from_explicit() makes of an automaton.
IsEncoding(a, d, group) ==
    /\ a.initial_state = state_to_binary(0, Len(group))
    /\ a.final_states = state_set_to_bdd(group, d.final_states)
    /\ a.transition_function = symbolic_transition_function(group, from_dfa_mona(d))

\* The components give the bits of the next state.
LEMMA EncodedStep ==
    ASSUME NEW d, IsExplicitDfa(d), NEW group, IsList(group), Len(group) = bit_count_of(d.state_count),
           NEW a, IsEncoding(a, d, group),
           NEW v \in Valuations, NEW state \in StatesOf(d), v \in state_to_bdd(group, state),
           NEW letter \in Alphabet, NEW i \in 1 .. Len(group)
    PROVE  <<v, letter>> \in a.transition_function[i] <=>
               state_to_binary(d.transition_function[state][seen(d.names, letter)], Len(group))[i] = 1
<1>. DEFINE e == from_dfa_mona(d)
            n == Len(group)
            part(j) == {m \in state_to_bdd(group, j) \X Alphabet :
                    state_to_binary(e.transition_function[j][m[2]], n)[i] = 1}
<1>1. e.transition_function = [j \in StatesOf(d) |-> [l \in Alphabet |->
            d.transition_function[j][seen(d.names, l)]]]
  BY DEF from_dfa_mona
<1>2. DOMAIN group = 1 .. n /\ d.state_count \in Nat \ {0} /\ StatesOf(d) = 0 .. d.state_count - 1
  BY ListProperties, ExplicitParts DEF StatesOf
<1>3. a.transition_function[i] = UNION {part(j) : j \in StatesOf(d)}
  <2>1. a.transition_function = symbolic_transition_function(group, e)
    BY DEF IsEncoding
  <2>. HIDE DEF e
  <2>. QED  BY <1>1, <1>2, <2>1 DEF symbolic_transition_function
<1>. HIDE DEF e
<1>4. \A j \in StatesOf(d) : <<v, letter>> \in part(j) <=>
          v \in state_to_bdd(group, j) /\ state_to_binary(e.transition_function[j][letter], n)[i] = 1
  OBVIOUS
<1>5. \A j \in StatesOf(d) : v \in state_to_bdd(group, j) => j = state
  BY <1>2, OneStateOnly
<1>6. e.transition_function[state][letter] = d.transition_function[state][seen(d.names, letter)]
  BY <1>1
<1>. HIDE DEF part
<1>. QED  BY <1>3, <1>4, <1>5, <1>6

\* An encoding has as many bits and components as its group has variables.
LEMMA EncodingTypes ==
    ASSUME NEW d, IsExplicitDfa(d), NEW group, IsList(group), NEW a, IsEncoding(a, d, group)
    PROVE  /\ a.initial_state \in [1 .. Len(group) -> {0, 1}]
           /\ a.final_states \in SUBSET Valuations
           /\ a.transition_function \in [1 .. Len(group) -> SUBSET AllMoves]
<1>. DEFINE e == from_dfa_mona(d)
            n == Len(group)
            part(i, j) == {m \in state_to_bdd(group, j) \X Alphabet :
                    state_to_binary(e.transition_function[j][m[2]], n)[i] = 1}
<1>1. DOMAIN group = 1 .. n /\ n \in Nat
  BY ListProperties
<1>2. \A j : state_to_bdd(group, j) \subseteq Valuations
  BY DEF state_to_bdd, state_vector_to_bdd
<1>3. a.initial_state \in [1 .. n -> {0, 1}]
  BY <1>1, Bits01 DEF IsEncoding
<1>4. a.final_states \in SUBSET Valuations
  BY <1>2 DEF IsEncoding, state_set_to_bdd
<1>5. a.transition_function = [i \in 1 .. n |-> UNION {part(i, j) : j \in DOMAIN e.transition_function}]
  BY <1>1 DEF IsEncoding, symbolic_transition_function
<1>6. \A i, j : part(i, j) \in SUBSET AllMoves
  BY <1>2 DEF AllMoves
<1>7. \A i \in 1 .. n : UNION {part(i, j) : j \in DOMAIN e.transition_function} \in SUBSET AllMoves
  <2>. HIDE DEF part, e
  <2>. QED  BY <1>6
<1>. HIDE DEF part, e
<1>. QED  BY <1>3, <1>4, <1>5, <1>7

\* An encoding accepts what the explicit automaton accepts: valuations are related to the
\* places where the judge can be in the state that they encode.
LEMMA EncodingIsExplained ==
    ASSUME NEW bs, AreBases(bs), NEW d, NEW accepts, IsFor(bs, d, accepts),
           NEW group, IsList(group), Len(group) = bit_count_of(d.state_count),
           \A i \in 1 .. Len(group) : group[i] \in 0 .. MaxVariables - 1,
           NEW a, IsEncoding(a, d, group), a.purpose.accepts = accepts
    PROVE  IsExplained(bs, a, group)
<1>. DEFINE J == JudgeOf(bs)
            n == Len(group)
<1>1. /\ IsJudge(J) /\ J.places = PlacesOf(bs)
      /\ \A at \in PlacesOf(bs), letter \in Alphabet : J.step[at][letter] = StepOf(bs, at, letter)
      /\ J.start \in J.places
      /\ \A at \in J.places, letter \in Alphabet : J.step[at][letter] \in J.places
  BY BasesJudge DEF IsJudge
<1>. HIDE DEF J
<1>2. Recognizes(d, J, GoodFor(bs, accepts))
  BY DEF IsFor, J
<1>3. PICK S : /\ Agrees(d, J, S)
               /\ \A state \in StatesOf(d), at \in J.places : <<state, at>> \in S =>
                    (state \in d.final_states <=> at \in GoodFor(bs, accepts))
  BY <1>2 DEF Recognizes
<1>4. IsExplicitDfa(d)
  BY <1>2 DEF Recognizes
<1>5. /\ d.state_count \in Nat \ {0} /\ StatesOf(d) = 0 .. d.state_count - 1
      /\ StatesOf(d) \subseteq Nat /\ 0 \in StatesOf(d) /\ d.final_states \subseteq StatesOf(d)
      /\ \A state \in StatesOf(d), letter \in Alphabet :
            d.transition_function[state][seen(d.names, letter)] \in StatesOf(d)
  <2>1. \A letter \in Alphabet : seen(d.names, letter) \in Bits(d.names)
    BY <1>4, SeenBits, ExplicitParts
  <2>. QED  BY <1>4, <2>1, ExplicitParts DEF StatesOf
<1>6. \A v, x, y : v \in state_to_bdd(group, x) /\ v \in state_to_bdd(group, y)
                     /\ x \in StatesOf(d) /\ y \in StatesOf(d) => x = y
  BY <1>5, OneStateOnly
<1>. DEFINE R == {pair \in Valuations \X PlacesOf(bs) :
                    \E state \in StatesOf(d) :
                        pair[1] \in state_to_bdd(group, state) /\ <<state, pair[2]>> \in S}
<1>7. \A v \in Valuations, at \in PlacesOf(bs) : <<v, at>> \in R <=>
          \E state \in StatesOf(d) : v \in state_to_bdd(group, state) /\ <<state, at>> \in S
  OBVIOUS
<1>8. \A v, at : <<v, at>> \in R => v \in Valuations /\ at \in PlacesOf(bs)
  OBVIOUS
<1>. HIDE DEF R
<1>9. ASSUME NEW v \in state_vector_to_bdd(group, a.initial_state) PROVE <<v, J.start>> \in R
  <2>1. v \in state_to_bdd(group, 0)
    BY DEF IsEncoding, state_to_bdd
  <2>2. v \in Valuations
    BY DEF state_vector_to_bdd
  <2>. QED  BY <1>1, <1>3, <1>5, <1>7, <2>1, <2>2 DEF Agrees
<1>10. ASSUME NEW v \in Valuations, NEW at \in PlacesOf(bs), NEW letter \in Alphabet, NEW w \in Valuations,
              <<v, at>> \in R, Follows(a, group, v, letter, w)
       PROVE  <<w, StepOf(bs, at, letter)>> \in R
  <2>1. PICK state \in StatesOf(d) : v \in state_to_bdd(group, state) /\ <<state, at>> \in S
    BY <1>7, <1>10
  <2>. DEFINE next == d.transition_function[state][seen(d.names, letter)]
  <2>2. next \in StatesOf(d) /\ next \in Nat
    BY <1>5
  <2>3. \A i \in 1 .. n : <<v, letter>> \in a.transition_function[i] <=> state_to_binary(next, n)[i] = 1
    BY <1>4, <2>1, EncodedStep
  <2>4. <<next, StepOf(bs, at, letter)>> \in S
    BY <1>1, <1>3, <2>1 DEF Agrees
  <2>. HIDE DEF next
  <2>5. ASSUME NEW i \in 1 .. n PROVE w[group[i]] = state_to_binary(next, n)[i]
    <3>1. w[group[i]] = 1 <=> state_to_binary(next, n)[i] = 1
      BY <1>10, <2>3 DEF Follows
    <3>2. state_to_binary(next, n)[i] \in {0, 1}
      <4>1. state_to_binary(next, n) \in [1 .. n -> {0, 1}]
        BY <2>2, Bits01, ListProperties
      <4>. QED  BY <4>1
    <3>3. w[group[i]] \in {0, 1}
      BY DEF Valuations
    <3>. QED  BY <3>1, <3>2, <3>3
  <2>6. w \in state_to_bdd(group, next)
    BY <2>2, <2>5, StateValuations
  <2>. QED  BY <1>1, <1>7, <2>2, <2>4, <2>6
<1>11. ASSUME NEW v \in Valuations, NEW at \in PlacesOf(bs), <<v, at>> \in R
       PROVE  v \in a.final_states <=> AcceptingIn(bs, at) \in a.purpose.accepts
  <2>1. PICK state \in StatesOf(d) : v \in state_to_bdd(group, state) /\ <<state, at>> \in S
    BY <1>7, <1>11
  <2>2. v \in a.final_states <=> \E other \in d.final_states : v \in state_to_bdd(group, other)
    BY DEF IsEncoding, state_set_to_bdd
  <2>3. v \in a.final_states <=> state \in d.final_states
    BY <1>5, <1>6, <2>1, <2>2
  <2>4. state \in d.final_states <=> at \in GoodFor(bs, accepts)
    BY <1>1, <1>3, <2>1
  <2>. QED  BY <2>3, <2>4 DEF GoodFor
<1>12. Explains(bs, a, group, R)
  <2>1. StartsTogether(bs, a, group, R)
    BY <1>9 DEF StartsTogether, J
  <2>2. StepTogether(bs, a, group, R)
    BY <1>10 DEF StepTogether
  <2>3. AcceptTogether(bs, a, R)
    BY <1>11 DEF AcceptTogether
  <2>. QED  BY <2>1, <2>2, <2>3 DEF Explains
<1>. QED  BY <1>12 DEF IsExplained

-----------------------------------------------------------------------------
(* Changes and complements *)

\* A function on the first numbers is a list.
LEMMA FunctionIsList ==
    ASSUME NEW n \in Nat, NEW S, NEW s \in [1 .. n -> S]
    PROVE  s \in Seq(S) /\ IsList(s) /\ Len(s) = n
<1>1. s = [i \in 1 .. n |-> s[i]]
  OBVIOUS
<1>2. IsList(s) /\ Len(s) = n
  BY <1>1, ListOf
<1>. QED  BY <1>2, SeqDef

\* Where everything is kept nothing is left.
LEMMA NothingLeft ==
    ASSUME NEW a, a.purpose.kept = AllMoves, NEW v \in Valuations
    PROVE  ~LeavesIn(a, v)
BY SomeLetter DEF LeavesIn, AllMoves

\* An automaton that agrees with another one on the moves it keeps.
LEMMA StillExplained ==
    ASSUME NEW bs, AreBases(bs), NEW a, NEW group, IsExplained(bs, a, group), NEW c,
           c.initial_state = a.initial_state,
           \A v \in Valuations, letter \in Alphabet : <<v, letter>> \in c.purpose.kept =>
                /\ <<v, letter>> \in a.purpose.kept
                /\ \A i \in 1 .. Len(group) :
                    <<v, letter>> \in c.transition_function[i] <=> <<v, letter>> \in a.transition_function[i],
           \A v \in Valuations, verdict \in Verdicts : ~LeavesIn(c, v) =>
                /\ ~LeavesIn(a, v)
                /\ (v \in a.final_states <=> verdict \in a.purpose.accepts) =>
                        (v \in c.final_states <=> verdict \in c.purpose.accepts)
    PROVE  IsExplained(bs, c, group)
<1>1. PICK R : Explains(bs, a, group, R)
  BY DEF IsExplained
<1>2. StartsTogether(bs, c, group, R)
  BY <1>1 DEF Explains, StartsTogether
<1>3. StepTogether(bs, c, group, R)
  <2>. SUFFICES ASSUME NEW v \in Valuations, NEW at \in PlacesOf(bs), NEW letter \in Alphabet,
                       NEW w \in Valuations,
                       <<v, at>> \in R, <<v, letter>> \in c.purpose.kept, Follows(c, group, v, letter, w)
                PROVE  <<w, StepOf(bs, at, letter)>> \in R
    BY DEF StepTogether
  <2>1. Follows(a, group, v, letter, w) /\ <<v, letter>> \in a.purpose.kept
    BY DEF Follows
  <2>. QED  BY <1>1, <2>1 DEF Explains, StepTogether
<1>4. AcceptTogether(bs, c, R)
  <2>. SUFFICES ASSUME NEW v \in Valuations, NEW at \in PlacesOf(bs), <<v, at>> \in R, ~LeavesIn(c, v)
                PROVE  v \in c.final_states <=> AcceptingIn(bs, at) \in c.purpose.accepts
    BY DEF AcceptTogether
  <2>1. AcceptingIn(bs, at) \in Verdicts
    BY VerdictOf
  <2>2. ~LeavesIn(a, v)
    BY <2>1
  <2>3. v \in a.final_states <=> AcceptingIn(bs, at) \in a.purpose.accepts
    BY <1>1, <2>2 DEF Explains, AcceptTogether
  <2>. QED  BY <2>1, <2>3
<1>5. Explains(bs, c, group, R)
  BY <1>2, <1>3, <1>4 DEF Explains
<1>. QED  BY <1>5 DEF IsExplained

\* An automaton for the complement: its variables are those of the other.
ComplementedSoundly(bs, c, a, group, id) ==
    /\ IsSound(bs, c, group) /\ c.automaton_id = id
    /\ IsUnchanged(c) => IsUnchanged(a)
    /\ c.transition_function = a.transition_function

\* Only the final states of the complement are others.
LEMMA ComplementSound ==
    ASSUME NEW bs, AreBases(bs), NEW group, NEW a, IsSound(bs, a, group), NEW id \in Nat
    PROVE  ComplementedSoundly(bs,
               [a EXCEPT !.automaton_id = id, !.final_states = Valuations \ @,
                         !.purpose.accepts = Verdicts \ @], a, group, id)
<1>. DEFINE c == [a EXCEPT !.automaton_id = id, !.final_states = Valuations \ @,
                           !.purpose.accepts = Verdicts \ @]
<1>1. a \in Automata(group)
  BY DEF IsSound
<1>2. /\ c.automaton_id = id /\ c.initial_state = a.initial_state
      /\ c.final_states = Valuations \ a.final_states
      /\ c.transition_function = a.transition_function
      /\ c.purpose.accepts = Verdicts \ a.purpose.accepts
      /\ c.purpose.sinks = a.purpose.sinks /\ c.purpose.kept = a.purpose.kept
      /\ c.purpose.mixed = a.purpose.mixed
  BY <1>1 DEF Automata, Purposes
<1>3. c \in Automata(group)
  <2>1. c.purpose \in Purposes
    BY <1>1 DEF Automata, Purposes
  <2>. QED  BY <1>1, <2>1 DEF Automata
<1>. HIDE DEF c
<1>4. SinksStay(c, group) /\ (c.purpose.mixed = FALSE => Fit(c, group, c, group))
  BY <1>2 DEF IsSound, SinksStay, Fit
<1>5. ASSUME c.purpose.mixed = FALSE, c.purpose.sinks = {} PROVE IsExplained(bs, c, group)
  <2>1. IsExplained(bs, a, group)
    BY <1>2, <1>5 DEF IsSound
  <2>2. ASSUME NEW v \in Valuations, NEW verdict \in Verdicts, ~LeavesIn(c, v)
        PROVE  /\ ~LeavesIn(a, v)
               /\ (v \in a.final_states <=> verdict \in a.purpose.accepts) =>
                        (v \in c.final_states <=> verdict \in c.purpose.accepts)
    BY <1>2, <2>2 DEF LeavesIn
  <2>. QED  BY <1>2, <2>1, <2>2, StillExplained
<1>6. IsSound(bs, c, group)
  BY <1>3, <1>4, <1>5 DEF IsSound
<1>7. IsUnchanged(c) => IsUnchanged(a)
  BY <1>2 DEF IsUnchanged
<1>8. ComplementedSoundly(bs, c, a, group, id)
  BY <1>2, <1>6, <1>7 DEF ComplementedSoundly
<1>. QED  BY <1>8 DEF c

\* An automaton that was changed: it is sound, and if it looks as if it had not been
\* changed it was not.
ChangedSoundly(bs, c, a, group) ==
    /\ IsSound(bs, c, group) /\ c.automaton_id = a.automaton_id
    /\ IsUnchanged(c) => IsUnchanged(a) /\ c.transition_function = a.transition_function

\* Making sinks keeps an automaton sound: the states of the set keep their bits.
LEMMA SinksSound ==
    ASSUME NEW bs, AreBases(bs), NEW group, IsList(group), NEW a, IsSound(bs, a, group),
           a.purpose.sinks = {}, a.purpose.kept = AllMoves, NEW states \in SUBSET Valuations
    PROVE  ChangedSoundly(bs, [a EXCEPT !.transition_function = sink_bits(group, @, states),
                                        !.purpose.sinks = states], a, group)
<1>. DEFINE c == [a EXCEPT !.transition_function = sink_bits(group, @, states),
                           !.purpose.sinks = states]
            bits(i) == {m \in a.transition_function[i] : m[1] \notin states}
                            \cup {v \in states : v[group[i]] = 1} \X Alphabet
<1>1. a \in Automata(group) /\ DOMAIN group = 1 .. Len(group)
  BY ListProperties DEF IsSound
<1>2. /\ c.automaton_id = a.automaton_id /\ c.initial_state = a.initial_state
      /\ c.final_states = a.final_states
      /\ c.transition_function = sink_bits(group, a.transition_function, states)
      /\ c.purpose.accepts = a.purpose.accepts
      /\ c.purpose.sinks = states /\ c.purpose.kept = a.purpose.kept
      /\ c.purpose.mixed = a.purpose.mixed
  BY <1>1 DEF Automata, Purposes
<1>3. c.transition_function = [i \in 1 .. Len(group) |-> bits(i)]
  BY <1>1, <1>2 DEF sink_bits
<1>4. a.transition_function \in [1 .. Len(group) -> SUBSET AllMoves]
  BY <1>1 DEF Automata
<1>5. \A i \in 1 .. Len(group) : bits(i) \in SUBSET AllMoves
  BY <1>4 DEF AllMoves
<1>6. c \in Automata(group)
  <2>1. c.purpose \in Purposes
    BY <1>1 DEF Automata, Purposes
  <2>2. sink_bits(group, a.transition_function, states) \in [1 .. Len(group) -> SUBSET AllMoves]
    <3>. HIDE DEF bits, c
    <3>. QED  BY <1>2, <1>3, <1>5
  <2>. QED  BY <1>1, <2>1, <2>2 DEF Automata
<1>. HIDE DEF c
<1>7. \A v \in Valuations, letter \in Alphabet, i \in 1 .. Len(group) :
          <<v, letter>> \in c.transition_function[i] <=>
              \/ v \notin states /\ <<v, letter>> \in a.transition_function[i]
              \/ v \in states /\ v[group[i]] = 1
  BY <1>3
<1>8. SinksStay(c, group)
  BY <1>2, <1>7 DEF SinksStay
<1>9. c.purpose.mixed = FALSE => Fit(c, group, c, group)
  <2>1. ASSUME NEW i \in 1 .. Len(group), NEW j \in 1 .. Len(group), group[i] = group[j],
               a.transition_function[i] = a.transition_function[j]
        PROVE  bits(i) = bits(j)
    BY <2>1
  <2>. HIDE DEF bits
  <2>. QED  BY <1>2, <1>3, <2>1 DEF IsSound, Fit
<1>10. ASSUME states = {} PROVE c.transition_function = a.transition_function
  <2>1. \A i \in 1 .. Len(group) : bits(i) = a.transition_function[i]
    BY <1>10
  <2>. HIDE DEF bits
  <2>. QED  BY <1>3, <1>4, <2>1
<1>11. ASSUME c.purpose.mixed = FALSE, c.purpose.sinks = {} PROVE IsExplained(bs, c, group)
  <2>1. IsExplained(bs, a, group)
    BY <1>2, <1>11 DEF IsSound
  <2>2. c.transition_function = a.transition_function
    BY <1>2, <1>10, <1>11
  <2>3. ASSUME NEW v \in Valuations, NEW verdict \in Verdicts, ~LeavesIn(c, v)
        PROVE  /\ ~LeavesIn(a, v)
               /\ (v \in a.final_states <=> verdict \in a.purpose.accepts) =>
                        (v \in c.final_states <=> verdict \in c.purpose.accepts)
    BY <1>2, <2>3 DEF LeavesIn
  <2>. QED  BY <1>2, <2>1, <2>2, <2>3, StillExplained
<1>12. IsSound(bs, c, group)
  BY <1>6, <1>8, <1>9, <1>11 DEF IsSound
<1>13. IsUnchanged(c) => IsUnchanged(a) /\ c.transition_function = a.transition_function
  BY <1>2, <1>10 DEF IsUnchanged
<1>14. ChangedSoundly(bs, c, a, group)
  BY <1>2, <1>12, <1>13 DEF ChangedSoundly
<1>. QED  BY <1>14 DEF c

\* Keeping some moves only, and the final states that have one.
LEMMA RestrictedSound ==
    ASSUME NEW bs, AreBases(bs), NEW group, IsList(group), NEW a, IsSound(bs, a, group),
           a.purpose.sinks = {}, a.purpose.kept = AllMoves, NEW c, NEW kept \in SUBSET AllMoves,
           /\ c \in Automata(group)
           /\ c.automaton_id = a.automaton_id /\ c.initial_state = a.initial_state
           /\ \A v \in Valuations, letter \in Alphabet : <<v, letter>> \in kept =>
                    (v \in c.final_states <=> v \in a.final_states)
           /\ c.transition_function = [i \in 1 .. Len(group) |-> a.transition_function[i] \cap kept]
           /\ c.purpose.accepts = a.purpose.accepts /\ c.purpose.sinks = a.purpose.sinks
           /\ c.purpose.kept = kept /\ c.purpose.mixed = a.purpose.mixed
    PROVE  ChangedSoundly(bs, c, a, group)
<1>1. a.transition_function \in [1 .. Len(group) -> SUBSET AllMoves]
  BY DEF IsSound, Automata
<1>2. SinksStay(c, group)
  BY DEF SinksStay
<1>3. c.purpose.mixed = FALSE => Fit(c, group, c, group)
  BY DEF IsSound, Fit
<1>4. ASSUME kept = AllMoves PROVE c.transition_function = a.transition_function
  <2>1. \A i \in 1 .. Len(group) : a.transition_function[i] \cap kept = a.transition_function[i]
    BY <1>1, <1>4
  <2>. QED  BY <1>1, <2>1
<1>5. ASSUME c.purpose.mixed = FALSE PROVE IsExplained(bs, c, group)
  <2>1. IsExplained(bs, a, group)
    BY <1>5 DEF IsSound
  <2>2. ASSUME NEW v \in Valuations, NEW letter \in Alphabet, <<v, letter>> \in kept
        PROVE  /\ <<v, letter>> \in a.purpose.kept
               /\ \A i \in 1 .. Len(group) :
                    <<v, letter>> \in c.transition_function[i] <=> <<v, letter>> \in a.transition_function[i]
    BY <2>2
  <2>3. ASSUME NEW v \in Valuations, NEW verdict \in Verdicts, ~LeavesIn(c, v)
        PROVE  /\ ~LeavesIn(a, v)
               /\ (v \in a.final_states <=> verdict \in a.purpose.accepts) =>
                        (v \in c.final_states <=> verdict \in c.purpose.accepts)
    <3>1. PICK letter \in Alphabet : <<v, letter>> \in kept
      BY <2>3 DEF LeavesIn
    <3>2. v \in c.final_states <=> v \in a.final_states
      BY <3>1
    <3>3. ~LeavesIn(a, v)
      BY NothingLeft
    <3>. QED  BY <3>2, <3>3
  <2>. QED  BY <2>1, <2>2, <2>3, StillExplained
<1>6. IsSound(bs, c, group)
  BY <1>2, <1>3, <1>5 DEF IsSound
<1>7. IsUnchanged(c) => IsUnchanged(a) /\ c.transition_function = a.transition_function
  BY <1>4 DEF IsUnchanged
<1>. QED  BY <1>6, <1>7 DEF ChangedSoundly

\* The moves of some states are kept.
LEMMA RestrictedToStates ==
    ASSUME NEW bs, AreBases(bs), NEW group, IsList(group), NEW a, IsSound(bs, a, group),
           a.purpose.sinks = {}, a.purpose.kept = AllMoves, NEW states \in SUBSET Valuations
    PROVE  ChangedSoundly(bs,
               [a EXCEPT !.transition_function = [i \in DOMAIN @ |-> @[i] \cap (states \X Alphabet)],
                         !.final_states = @ \cap states,
                         !.purpose.kept = states \X Alphabet], a, group)
<1>. DEFINE kept == states \X Alphabet
            tf == [i \in 1 .. Len(group) |-> a.transition_function[i] \cap kept]
            c == [a EXCEPT !.transition_function = tf,
                           !.final_states = @ \cap states,
                           !.purpose.kept = kept]
<1>1. a \in Automata(group) /\ a.transition_function \in [1 .. Len(group) -> SUBSET AllMoves]
  BY DEF IsSound, Automata
<1>2. kept \in SUBSET AllMoves /\ \A v, letter : <<v, letter>> \in kept => v \in states
  BY DEF AllMoves
<1>3. tf \in [1 .. Len(group) -> SUBSET AllMoves]
  <2>. HIDE DEF kept
  <2>. QED  BY <1>1, <1>2
<1>4. [a EXCEPT !.transition_function = [i \in DOMAIN @ |-> @[i] \cap (states \X Alphabet)],
                !.final_states = @ \cap states,
                !.purpose.kept = states \X Alphabet] = c
  BY <1>1
<1>. HIDE DEF tf, kept
<1>5. /\ c.automaton_id = a.automaton_id /\ c.initial_state = a.initial_state
      /\ c.final_states = a.final_states \cap states
      /\ c.transition_function = tf
      /\ c.purpose.accepts = a.purpose.accepts
      /\ c.purpose.sinks = a.purpose.sinks /\ c.purpose.kept = kept
      /\ c.purpose.mixed = a.purpose.mixed
  BY <1>1 DEF Automata, Purposes
<1>6. c \in Automata(group)
  <2>1. c.purpose \in Purposes
    BY <1>1, <1>2 DEF Automata, Purposes
  <2>. QED  BY <1>1, <1>3, <2>1 DEF Automata
<1>. HIDE DEF c
<1>7. ChangedSoundly(bs, c, a, group)
  <2>1. \A v \in Valuations, letter \in Alphabet : <<v, letter>> \in kept =>
            (v \in c.final_states <=> v \in a.final_states)
    BY <1>2, <1>5
  <2>2. c.transition_function = [i \in 1 .. Len(group) |-> a.transition_function[i] \cap kept]
    BY <1>5 DEF tf
  <2>. QED  BY <1>2, <1>5, <1>6, <2>1, <2>2, RestrictedSound
<1>. QED  BY <1>4, <1>7

\* Some moves are kept.
LEMMA RestrictedToMoves ==
    ASSUME NEW bs, AreBases(bs), NEW group, IsList(group), NEW a, IsSound(bs, a, group),
           a.purpose.sinks = {}, a.purpose.kept = AllMoves, NEW kept \in SUBSET AllMoves
    PROVE  ChangedSoundly(bs,
               [a EXCEPT !.transition_function = [i \in DOMAIN @ |-> @[i] \cap kept],
                         !.purpose.kept = kept], a, group)
<1>. DEFINE tf == [i \in 1 .. Len(group) |-> a.transition_function[i] \cap kept]
            c == [a EXCEPT !.transition_function = tf, !.purpose.kept = kept]
<1>1. a \in Automata(group) /\ a.transition_function \in [1 .. Len(group) -> SUBSET AllMoves]
  BY DEF IsSound, Automata
<1>3. tf \in [1 .. Len(group) -> SUBSET AllMoves]
  BY <1>1
<1>4. [a EXCEPT !.transition_function = [i \in DOMAIN @ |-> @[i] \cap kept],
                !.purpose.kept = kept] = c
  BY <1>1
<1>. HIDE DEF tf
<1>5. /\ c.automaton_id = a.automaton_id /\ c.initial_state = a.initial_state
      /\ c.final_states = a.final_states
      /\ c.transition_function = tf
      /\ c.purpose.accepts = a.purpose.accepts
      /\ c.purpose.sinks = a.purpose.sinks /\ c.purpose.kept = kept
      /\ c.purpose.mixed = a.purpose.mixed
  BY <1>1 DEF Automata, Purposes
<1>6. c \in Automata(group)
  <2>1. c.purpose \in Purposes
    BY <1>1 DEF Automata, Purposes
  <2>. QED  BY <1>1, <1>3, <2>1 DEF Automata
<1>. HIDE DEF c
<1>7. ChangedSoundly(bs, c, a, group)
  <2>1. c.transition_function = [i \in 1 .. Len(group) |-> a.transition_function[i] \cap kept]
    BY <1>5 DEF tf
  <2>. QED  BY <1>5, <1>6, <2>1, RestrictedSound
<1>. QED  BY <1>4, <1>7

-----------------------------------------------------------------------------
(* Products *)

\* A position in a joined list is one in the first list or in the second.
LEMMA IndexOfJoined ==
    ASSUME NEW a \in Nat, NEW b \in Nat, NEW i \in 1 .. a + b
    PROVE  i \in 1 .. a \/ \E j \in 1 .. b : i = a + j
<1>1. i \in 1 .. a \/ (i - a \in 1 .. b /\ i = a + (i - a))
  OBVIOUS
<1>. QED  BY <1>1

\* One automaton's variables and components, then the other's.
IsJoined(c, a, g, b, h) ==
    /\ IsList(g) /\ IsList(h) /\ a \in Automata(g) /\ b \in Automata(h)
    /\ c.initial_state = a.initial_state \o b.initial_state
    /\ c.transition_function = a.transition_function \o b.transition_function

\* What is at the positions of the two.
JoinedParts(c, a, g, b, h) ==
    /\ \A i \in 1 .. Len(g) :
            /\ i \in 1 .. Len(g \o h) /\ (g \o h)[i] = g[i]
            /\ c.transition_function[i] = a.transition_function[i]
            /\ c.initial_state[i] = a.initial_state[i]
    /\ \A j \in 1 .. Len(h) :
            /\ Len(g) + j \in 1 .. Len(g \o h) /\ (g \o h)[Len(g) + j] = h[j]
            /\ c.transition_function[Len(g) + j] = b.transition_function[j]
            /\ c.initial_state[Len(g) + j] = b.initial_state[j]
    /\ \A i \in 1 .. Len(g \o h) : i \in 1 .. Len(g) \/ \E j \in 1 .. Len(h) : i = Len(g) + j

\* The parts of a joined automaton are those of its factors.
LEMMA JoinedPositions ==
    ASSUME NEW c, NEW a, NEW g, NEW b, NEW h, IsJoined(c, a, g, b, h)
    PROVE  /\ JoinedParts(c, a, g, b, h) /\ IsList(g \o h)
           /\ c.initial_state \in [1 .. Len(g \o h) -> {0, 1}]
           /\ c.transition_function \in [1 .. Len(g \o h) -> SUBSET AllMoves]
<1>. DEFINE m == Len(g)
            n == Len(h)
            S == SUBSET AllMoves
<1>1. m \in Nat /\ n \in Nat
  BY ListProperties DEF IsJoined
<1>2. /\ a.initial_state \in [1 .. m -> {0, 1}] /\ a.transition_function \in [1 .. m -> S]
      /\ b.initial_state \in [1 .. n -> {0, 1}] /\ b.transition_function \in [1 .. n -> S]
  BY DEF IsJoined, Automata
<1>. HIDE DEF m, n, S
<1>3. /\ IsList(a.initial_state) /\ Len(a.initial_state) = m /\ a.initial_state \in Seq({0, 1})
      /\ IsList(b.initial_state) /\ Len(b.initial_state) = n /\ b.initial_state \in Seq({0, 1})
      /\ IsList(a.transition_function) /\ Len(a.transition_function) = m /\ a.transition_function \in Seq(S)
      /\ IsList(b.transition_function) /\ Len(b.transition_function) = n /\ b.transition_function \in Seq(S)
  BY <1>1, <1>2, FunctionIsList
<1>4. /\ OneAfter(g, h) /\ OneAfter(a.initial_state, b.initial_state)
      /\ OneAfter(a.transition_function, b.transition_function)
  BY <1>3, OneListAfter DEF IsJoined
<1>5. Len(g) = m /\ Len(h) = n
  BY DEF m, n
<1>6. Len(g \o h) = m + n /\ IsList(g \o h)
  BY <1>4, <1>5 DEF OneAfter
<1>7. ASSUME NEW i \in 1 .. m
      PROVE  /\ i \in 1 .. m + n /\ (g \o h)[i] = g[i]
             /\ c.transition_function[i] = a.transition_function[i]
             /\ c.initial_state[i] = a.initial_state[i]
  <2>1. i \in 1 .. m + n
    BY <1>1
  <2>. QED  BY <1>3, <1>4, <1>5, <2>1 DEF OneAfter, IsJoined
<1>8. ASSUME NEW j \in 1 .. n
      PROVE  /\ m + j \in 1 .. m + n /\ (g \o h)[m + j] = h[j]
             /\ c.transition_function[m + j] = b.transition_function[j]
             /\ c.initial_state[m + j] = b.initial_state[j]
  <2>1. m + j \in 1 .. m + n
    BY <1>1
  <2>2. (g \o h)[m + j] = h[j]
    BY <1>4, <1>5 DEF OneAfter
  <2>3. c.transition_function[m + j] = b.transition_function[j]
    BY <1>3, <1>4 DEF OneAfter, IsJoined
  <2>4. c.initial_state[m + j] = b.initial_state[j]
    BY <1>3, <1>4 DEF OneAfter, IsJoined
  <2>. QED  BY <2>1, <2>2, <2>3, <2>4
<1>9. \A i \in 1 .. m + n : i \in 1 .. m \/ \E j \in 1 .. n : i = m + j
  BY <1>1, IndexOfJoined
<1>10. JoinedParts(c, a, g, b, h)
  BY <1>5, <1>6, <1>7, <1>8, <1>9 DEF JoinedParts
<1>11. /\ c.initial_state \in Seq({0, 1}) /\ Len(c.initial_state) = m + n
       /\ c.transition_function \in Seq(S) /\ Len(c.transition_function) = m + n
  BY <1>3, <1>4, ConcatProperties DEF OneAfter, IsJoined
<1>12. /\ c.initial_state \in [1 .. m + n -> {0, 1}]
       /\ c.transition_function \in [1 .. m + n -> S]
  BY <1>11, LenProperties
<1>. QED  BY <1>6, <1>10, <1>12 DEF S

\* Fitting together goes both ways.
LEMMA FitOtherWay ==
    ASSUME NEW a, NEW g, NEW b, NEW h, Fit(a, g, b, h)
    PROVE  Fit(b, h, a, g)
BY DEF Fit

\* What fits both fits the product.
LEMMA FitJoined ==
    ASSUME NEW c, NEW a, NEW g, NEW b, NEW h, IsJoined(c, a, g, b, h),
           NEW o, NEW k, Fit(a, g, o, k), Fit(b, h, o, k)
    PROVE  Fit(c, g \o h, o, k)
<1>1. JoinedParts(c, a, g, b, h)
  BY JoinedPositions
<1>2. ASSUME NEW i \in 1 .. Len(g \o h), NEW j \in 1 .. Len(k), (g \o h)[i] = k[j]
      PROVE  c.transition_function[i] = o.transition_function[j]
  <2>1. CASE i \in 1 .. Len(g)
    BY <1>1, <1>2, <2>1 DEF JoinedParts, Fit
  <2>2. CASE \E l \in 1 .. Len(h) : i = Len(g) + l
    <3>1. PICK l \in 1 .. Len(h) : i = Len(g) + l
      BY <2>2
    <3>. QED  BY <1>1, <1>2, <3>1 DEF JoinedParts, Fit
  <2>. QED  BY <1>1, <2>1, <2>2 DEF JoinedParts
<1>. QED  BY <1>2 DEF Fit

\* Factors that fit together make an automaton that fits itself.
LEMMA FitItself ==
    ASSUME NEW c, NEW a, NEW g, NEW b, NEW h, IsJoined(c, a, g, b, h),
           Fit(a, g, a, g), Fit(b, h, b, h), Fit(a, g, b, h)
    PROVE  Fit(c, g \o h, c, g \o h)
<1>1. Fit(b, h, a, g)
  BY FitOtherWay
<1>2. Fit(c, g \o h, a, g) /\ Fit(c, g \o h, b, h)
  BY <1>1, FitJoined
<1>3. Fit(a, g, c, g \o h) /\ Fit(b, h, c, g \o h)
  BY <1>2, FitOtherWay
<1>. QED  BY <1>3, FitJoined

\* How the verdicts of two automata are put together.
IsCombination(c, a, b) ==
    /\ c.final_states \subseteq Valuations
    /\ \A v \in Valuations, verdict \in Verdicts :
            (v \in a.final_states <=> verdict \in a.purpose.accepts)
            /\ (v \in b.final_states <=> verdict \in b.purpose.accepts)
                => (v \in c.final_states <=> verdict \in c.purpose.accepts)

\* The product of two unchanged automata is explained by what explains both.
LEMMA ProductExplained ==
    ASSUME NEW bs, AreBases(bs), NEW c, NEW a, NEW g, NEW b, NEW h, IsJoined(c, a, g, b, h),
           IsExplained(bs, a, g), IsExplained(bs, b, h), IsUnchanged(a), IsUnchanged(b),
           IsCombination(c, a, b)
    PROVE  IsExplained(bs, c, g \o h)
<1>1. JoinedParts(c, a, g, b, h) /\ IsList(g \o h)
  BY JoinedPositions
<1>2. PICK S : Explains(bs, a, g, S)
  BY DEF IsExplained
<1>3. PICK T : Explains(bs, b, h, T)
  BY DEF IsExplained
<1>. DEFINE R == S \cap T
<1>4. \A v, at : <<v, at>> \in R <=> <<v, at>> \in S /\ <<v, at>> \in T
  OBVIOUS
<1>. HIDE DEF R
<1>5. StartsTogether(bs, c, g \o h, R)
  <2>. SUFFICES ASSUME NEW v \in state_vector_to_bdd(g \o h, c.initial_state)
                PROVE  <<v, JudgeOf(bs).start>> \in R
    BY DEF StartsTogether
  <2>1. DOMAIN c.initial_state = 1 .. Len(g \o h)
    BY JoinedPositions
  <2>2. v \in Valuations /\ \A i \in 1 .. Len(g \o h) : v[(g \o h)[i]] = c.initial_state[i]
    BY <2>1 DEF state_vector_to_bdd
  <2>3. DOMAIN a.initial_state = 1 .. Len(g) /\ DOMAIN b.initial_state = 1 .. Len(h)
    BY DEF IsJoined, Automata
  <2>4. v \in state_vector_to_bdd(g, a.initial_state)
    BY <1>1, <2>2, <2>3 DEF JoinedParts, state_vector_to_bdd
  <2>5. v \in state_vector_to_bdd(h, b.initial_state)
    <3>1. ASSUME NEW j \in 1 .. Len(h) PROVE v[h[j]] = b.initial_state[j]
      <4>1. PICK i \in 1 .. Len(g \o h) : (g \o h)[i] = h[j] /\ c.initial_state[i] = b.initial_state[j]
        BY <1>1 DEF JoinedParts
      <4>. QED  BY <2>2, <4>1
    <3>. QED  BY <2>2, <2>3, <3>1 DEF state_vector_to_bdd
  <2>. QED  BY <1>2, <1>3, <1>4, <2>4, <2>5 DEF Explains, StartsTogether
<1>6. StepTogether(bs, c, g \o h, R)
  <2>. SUFFICES ASSUME NEW v \in Valuations, NEW at \in PlacesOf(bs), NEW letter \in Alphabet,
                       NEW w \in Valuations,
                       <<v, at>> \in R, Follows(c, g \o h, v, letter, w)
                PROVE  <<w, StepOf(bs, at, letter)>> \in R
    BY DEF StepTogether
  <2>1. Follows(a, g, v, letter, w)
    BY <1>1 DEF JoinedParts, Follows
  <2>2. Follows(b, h, v, letter, w)
    <3>1. ASSUME NEW j \in 1 .. Len(h)
          PROVE  w[h[j]] = 1 <=> <<v, letter>> \in b.transition_function[j]
      <4>1. PICK i \in 1 .. Len(g \o h) :
                (g \o h)[i] = h[j] /\ c.transition_function[i] = b.transition_function[j]
        BY <1>1 DEF JoinedParts
      <4>. QED  BY <4>1 DEF Follows
    <3>. QED  BY <3>1 DEF Follows
  <2>3. <<v, letter>> \in a.purpose.kept /\ <<v, letter>> \in b.purpose.kept
    BY DEF IsUnchanged, AllMoves
  <2>. QED  BY <1>2, <1>3, <1>4, <2>1, <2>2, <2>3 DEF Explains, StepTogether
<1>7. AcceptTogether(bs, c, R)
  <2>. SUFFICES ASSUME NEW v \in Valuations, NEW at \in PlacesOf(bs), <<v, at>> \in R
                PROVE  v \in c.final_states <=> AcceptingIn(bs, at) \in c.purpose.accepts
    BY DEF AcceptTogether
  <2>1. AcceptingIn(bs, at) \in Verdicts
    BY VerdictOf
  <2>2. ~LeavesIn(a, v) /\ ~LeavesIn(b, v)
    BY NothingLeft DEF IsUnchanged
  <2>3. /\ v \in a.final_states <=> AcceptingIn(bs, at) \in a.purpose.accepts
        /\ v \in b.final_states <=> AcceptingIn(bs, at) \in b.purpose.accepts
    BY <1>2, <1>3, <1>4, <2>2 DEF Explains, AcceptTogether
  <2>. QED  BY <2>1, <2>3 DEF IsCombination
<1>8. Explains(bs, c, g \o h, R)
  BY <1>5, <1>6, <1>7 DEF Explains
<1>. QED  BY <1>8 DEF IsExplained

\* The product of two sound automata that fit together is sound.
LEMMA ProductSound ==
    ASSUME NEW bs, AreBases(bs), NEW c, NEW a, NEW g, NEW b, NEW h, IsJoined(c, a, g, b, h),
           IsSound(bs, a, g), IsSound(bs, b, h),
           IsUnchanged(a) /\ IsUnchanged(b) => Fit(a, g, b, h),
           NEW mixed \in BOOLEAN, mixed = FALSE => IsUnchanged(a) /\ IsUnchanged(b),
           IsCombination(c, a, b),
           NEW id \in Nat, NEW final_states, NEW accepts \in SUBSET Verdicts,
           c = [automaton_id |-> id,
                initial_state |-> a.initial_state \o b.initial_state,
                final_states |-> final_states,
                transition_function |-> a.transition_function \o b.transition_function,
                purpose |-> [Plain(accepts) EXCEPT !.mixed = mixed]]
    PROVE  IsSound(bs, c, g \o h)
<1>1. /\ c.initial_state \in [1 .. Len(g \o h) -> {0, 1}]
      /\ c.transition_function \in [1 .. Len(g \o h) -> SUBSET AllMoves]
  BY JoinedPositions
<1>2. /\ c.purpose \in Purposes /\ c.purpose.sinks = {} /\ c.purpose.kept = AllMoves
      /\ c.purpose.mixed = mixed
  BY DEF Plain, Purposes
<1>3. c \in Automata(g \o h)
  <2>1. final_states \in SUBSET Valuations
    BY DEF IsCombination
  <2>. QED  BY <1>1, <1>2, <2>1 DEF Automata
<1>4. SinksStay(c, g \o h)
  BY <1>2 DEF SinksStay
<1>5. ASSUME mixed = FALSE PROVE Fit(c, g \o h, c, g \o h) /\ IsExplained(bs, c, g \o h)
  <2>1. /\ IsUnchanged(a) /\ IsUnchanged(b) /\ Fit(a, g, b, h)
        /\ Fit(a, g, a, g) /\ Fit(b, h, b, h)
        /\ IsExplained(bs, a, g) /\ IsExplained(bs, b, h)
    BY <1>5 DEF IsUnchanged, IsSound
  <2>2. Fit(c, g \o h, c, g \o h)
    BY <2>1, FitItself
  <2>3. IsExplained(bs, c, g \o h)
    BY <2>1, ProductExplained
  <2>. QED  BY <2>2, <2>3
<1>. QED  BY <1>2, <1>3, <1>4, <1>5 DEF IsSound

-----------------------------------------------------------------------------
(* The symbolic automata *)

\* Every automaton is sound, and those that were not changed fit together.
AutomataInv ==
    /\ IsList(dfas) /\ Len(dfas) = Len(state_variables)
    /\ \A id \in 1 .. Len(dfas) :
            IsSound(bases, dfas[id], state_variables[id]) /\ dfas[id].automaton_id = id
    /\ \A id, other \in 1 .. Len(dfas) :
            IsUnchanged(dfas[id]) /\ IsUnchanged(dfas[other]) =>
                Fit(dfas[id], state_variables[id], dfas[other], state_variables[other])

SymbolicInv == ExplicitInv /\ VariablesInv /\ AutomataInv

\* A further automaton, which fits the others.
IsFurther(a, group) ==
    /\ IsSound(bases, a, group) /\ a.automaton_id = Len(dfas) + 1
    /\ \A other \in 1 .. Len(dfas) : IsUnchanged(a) /\ IsUnchanged(dfas[other]) =>
            Fit(a, group, dfas[other], state_variables[other])

\* One more automaton.
LEMMA AutomatonAdded ==
    ASSUME SymbolicInv, VariablesInv', bases' = bases, NEW group, NEW a, IsFurther(a, group),
           state_variables' = Append(state_variables, group), dfas' = Append(dfas, a)
    PROVE  AutomataInv'
<1>. DEFINE n == Len(dfas)
<1>1. n \in Nat /\ Len(state_variables) = n
  BY ListProperties DEF SymbolicInv, AutomataInv
<1>2. /\ IsList(dfas') /\ Len(dfas') = n + 1 /\ dfas'[n + 1] = a
      /\ \A id \in 1 .. n : dfas'[id] = dfas[id]
  BY ListAppended DEF SymbolicInv, AutomataInv
<1>3. /\ Len(state_variables') = n + 1 /\ state_variables'[n + 1] = group
      /\ \A id \in 1 .. n : state_variables'[id] = state_variables[id]
  BY <1>1, ListAppended DEF SymbolicInv, VariablesInv
<1>. HIDE DEF n
<1>4. \A id \in 1 .. n + 1 : id \in 1 .. n \/ id = n + 1
  BY <1>1
<1>5. ASSUME NEW id \in 1 .. n + 1
      PROVE  IsSound(bases, dfas'[id], state_variables'[id]) /\ dfas'[id].automaton_id = id
  <2>1. CASE id \in 1 .. n
    BY <1>2, <1>3, <2>1 DEF SymbolicInv, AutomataInv, n
  <2>2. CASE id = n + 1
    BY <1>2, <1>3, <2>2 DEF IsFurther, n
  <2>. QED  BY <1>4, <2>1, <2>2
<1>6. ASSUME NEW id \in 1 .. n + 1, NEW other \in 1 .. n + 1,
             IsUnchanged(dfas'[id]), IsUnchanged(dfas'[other])
      PROVE  Fit(dfas'[id], state_variables'[id], dfas'[other], state_variables'[other])
  <2>1. CASE id \in 1 .. n /\ other \in 1 .. n
    BY <1>2, <1>3, <1>6, <2>1 DEF SymbolicInv, AutomataInv, n
  <2>2. CASE id = n + 1 /\ other \in 1 .. n
    BY <1>2, <1>3, <1>6, <2>2 DEF IsFurther, n
  <2>3. CASE id \in 1 .. n /\ other = n + 1
    <3>1. Fit(dfas'[other], state_variables'[other], dfas'[id], state_variables'[id])
      BY <1>2, <1>3, <1>6, <2>3 DEF IsFurther, n
    <3>. QED  BY <3>1, FitOtherWay
  <2>4. CASE id = n + 1 /\ other = n + 1
    BY <1>5, <1>6, <2>4 DEF IsSound, IsUnchanged
  <2>. QED  BY <1>4, <2>1, <2>2, <2>3, <2>4
<1>. QED  BY <1>2, <1>3, <1>5, <1>6 DEF AutomataInv

\* One automaton is changed.
LEMMA AutomatonChanged ==
    ASSUME SymbolicInv, NEW id \in DOMAIN dfas, NEW a, Change(id, a),
           ChangedSoundly(bases, a, dfas[id], state_variables[id])
    PROVE  SymbolicInv'
<1>. DEFINE n == Len(dfas)
<1>1. n \in Nat /\ Len(state_variables) = n /\ DOMAIN dfas = 1 .. n /\ IsList(dfas)
  BY ListProperties DEF SymbolicInv, AutomataInv
<1>2. /\ dfas' = [dfas EXCEPT ![id] = a]
      /\ bases' = bases /\ explicit_dfas' = explicit_dfas /\ state_variables' = state_variables
      /\ bdd_size' = bdd_size /\ state_variable_count' = state_variable_count
      /\ name_to_variable' = name_to_variable
  BY DEF Change, vars
<1>. HIDE DEF n
<1>3. IsList(dfas') /\ Len(dfas') = n
  <2>1. DOMAIN dfas' = 1 .. n
    BY <1>1, <1>2
  <2>2. dfas' = [i \in 1 .. n |-> dfas'[i]]
    BY <1>1, <1>2, <2>1
  <2>. QED  BY <1>1, <2>2, ListOf
<1>4. dfas'[id] = a /\ \A other \in 1 .. n : other # id => dfas'[other] = dfas[other]
  BY <1>1, <1>2
<1>5. ASSUME NEW i \in 1 .. n
      PROVE  /\ IsSound(bases, dfas'[i], state_variables[i]) /\ dfas'[i].automaton_id = i
             /\ IsUnchanged(dfas'[i]) => IsUnchanged(dfas[i])
                    /\ dfas'[i].transition_function = dfas[i].transition_function
  <2>1. CASE i = id
    BY <1>1, <1>4, <2>1 DEF ChangedSoundly, SymbolicInv, AutomataInv, n
  <2>2. CASE i # id
    BY <1>4, <2>2 DEF SymbolicInv, AutomataInv, n
  <2>. QED  BY <2>1, <2>2
<1>6. ASSUME NEW i \in 1 .. n, NEW j \in 1 .. n, IsUnchanged(dfas'[i]), IsUnchanged(dfas'[j])
      PROVE  Fit(dfas'[i], state_variables[i], dfas'[j], state_variables[j])
  <2>1. Fit(dfas[i], state_variables[i], dfas[j], state_variables[j])
    BY <1>5, <1>6 DEF SymbolicInv, AutomataInv, n
  <2>. QED  BY <1>5, <1>6, <2>1 DEF Fit
<1>7. AutomataInv'
  BY <1>1, <1>2, <1>3, <1>5, <1>6 DEF AutomataInv
<1>8. ExplicitInv'
  BY <1>2, ExplicitStays DEF SymbolicInv
<1>9. VariablesInv'
  BY <1>2 DEF SymbolicInv, VariablesInv, Known
<1>. QED  BY <1>7, <1>8, <1>9 DEF SymbolicInv

-----------------------------------------------------------------------------
(* Building automata *)

\* The latest explicit automaton becomes a symbolic one, over new variables.
LEMMA SymbolicBuilt ==
    ASSUME SymbolicInv, BuildSymbolic, ExplicitInv'
    PROVE  SymbolicInv'
<1>. DEFINE latest == Last(explicit_dfas)
            d == latest.dfa
            e == from_dfa_mona(d)
            n == bit_count_of(d.state_count)
            group == new_state_variables(n)
            a == [automaton_id |-> Len(state_variables) + 1,
                  initial_state |-> state_to_binary(0, n),
                  final_states |-> state_set_to_bdd(group, d.final_states),
                  transition_function |-> symbolic_transition_function(group, e),
                  purpose |-> Plain(latest.accepts)]
<1>1. /\ explicit_dfas # <<>> /\ from_explicit(e, latest.accepts) /\ bases' = bases
  BY DEF BuildSymbolic
<1>2. e.state_count = d.state_count /\ e.initial_state = 0 /\ e.final_states = d.final_states
  BY DEF from_dfa_mona
<1>3. create_state_variables(n) /\ dfas' = Append(dfas, a)
  <2>1. create_state_variables(n) /\ Build(a)
    BY <1>1, <1>2 DEF from_explicit
  <2>. HIDE DEF a
  <2>. QED  BY <2>1 DEF Build
<1>4. IsFor(bases, d, latest.accepts) /\ AreBases(bases)
  BY <1>1, AllButLastFor DEF SymbolicInv, ExplicitInv
<1>5. IsExplicitDfa(d) /\ d.state_count \in Nat \ {0} /\ latest.accepts \subseteq Verdicts
  BY <1>4, ExplicitParts DEF IsFor, Recognizes
<1>6. n \in Nat
  BY <1>5, BitCount
<1>7. Len(state_variables) = Len(dfas) /\ Len(dfas) \in Nat /\ bdd_size \in Nat
  BY ListProperties DEF SymbolicInv, AutomataInv, VariablesInv
<1>8. /\ VariablesInv' /\ bdd_size' = bdd_size + n
      /\ state_variables' = Append(state_variables, group)
      /\ IsList(group) /\ Len(group) = n
      /\ \A i \in 1 .. n : group[i] = bdd_size + i - 1
  <2>. HIDE DEF n
  <2>. QED  BY <1>3, <1>6, VariablesCreated DEF SymbolicInv
<1>9. /\ IsEncoding(a, d, group) /\ a.purpose = Plain(latest.accepts)
      /\ a.automaton_id = Len(dfas) + 1
  <2>1. Len(group) = n
    BY <1>8
  <2>. HIDE DEF n, group, e
  <2>. QED  BY <1>7, <2>1 DEF IsEncoding, e
<1>10. /\ a.initial_state \in [1 .. Len(group) -> {0, 1}]
       /\ a.final_states \in SUBSET Valuations
       /\ a.transition_function \in [1 .. Len(group) -> SUBSET AllMoves]
  <2>. HIDE DEF a, group, d
  <2>. QED  BY <1>5, <1>8, <1>9, EncodingTypes
<1>11. /\ a.purpose \in Purposes /\ a.purpose.sinks = {} /\ a.purpose.kept = AllMoves
       /\ a.purpose.mixed = FALSE /\ a.purpose.accepts = latest.accepts
  <2>. HIDE DEF a, latest
  <2>. QED  BY <1>5, <1>9, PlainParts DEF latest
<1>12. a \in Automata(group)
  <2>1. Len(state_variables) + 1 \in Nat
    BY <1>7
  <2>. HIDE DEF group, n, e, d
  <2>. QED  BY <1>10, <1>11, <2>1 DEF Automata
<1>. HIDE DEF a, group, n, e
<1>13. IsExplained(bases, a, group)
  <2>1. \A i \in 1 .. Len(group) : group[i] \in 0 .. MaxVariables - 1
    <3>1. bdd_size + n <= MaxVariables
      BY <1>3 DEF create_state_variables
    <3>. QED  BY <1>6, <1>7, <1>8, <3>1, BoundsAssumption
  <2>2. Len(group) = bit_count_of(d.state_count)
    BY <1>8 DEF n
  <2>. HIDE DEF d, latest
  <2>. QED  BY <1>4, <1>8, <1>9, <1>11, <2>1, <2>2, EncodingIsExplained
<1>14. Fit(a, group, a, group)
  BY <1>6, <1>7, <1>8 DEF Fit
<1>15. ASSUME NEW other \in 1 .. Len(dfas)
       PROVE  Fit(a, group, dfas[other], state_variables[other])
  <2>1. IsGroup(state_variables[other], bdd_size)
    BY <1>7 DEF SymbolicInv, VariablesInv
  <2>2. \A i \in 1 .. Len(group), j \in 1 .. Len(state_variables[other]) :
            group[i] # state_variables[other][j]
    BY <1>6, <1>7, <1>8, <2>1 DEF IsGroup
  <2>. QED  BY <2>2 DEF Fit
<1>16. IsFurther(a, group)
  <2>1. SinksStay(a, group)
    BY <1>11 DEF SinksStay
  <2>2. IsSound(bases, a, group)
    BY <1>12, <1>13, <1>14, <2>1 DEF IsSound
  <2>. QED  BY <1>9, <1>15, <2>2 DEF IsFurther
<1>17. AutomataInv'
  BY <1>1, <1>3, <1>8, <1>16, AutomatonAdded
<1>. QED  BY <1>8, <1>17 DEF SymbolicInv

\* The two factors of a product.
LEMMA Factors ==
    ASSUME SymbolicInv, NEW ids \in DfaPairs
    PROVE  \E x, y \in 1 .. Len(dfas) :
               /\ ids = <<x, y>> /\ DOMAIN ids = {1, 2}
               /\ Factor(ids, 1) = dfas[x] /\ Factor(ids, 2) = dfas[y]
               /\ state_variables[Factor(ids, 1).automaton_id] = state_variables[x]
               /\ state_variables[Factor(ids, 2).automaton_id] = state_variables[y]
<1>1. DOMAIN dfas = 1 .. Len(dfas)
  BY ListProperties DEF SymbolicInv, AutomataInv
<1>2. PICK x \in 1 .. Len(dfas), y \in 1 .. Len(dfas) : ids = <<x, y>>
  BY <1>1 DEF DfaPairs
<1>3. /\ DOMAIN ids = {1, 2} /\ Factor(ids, 1) = dfas[x] /\ Factor(ids, 2) = dfas[y]
  BY <1>2 DEF Factor
<1>4. dfas[x].automaton_id = x /\ dfas[y].automaton_id = y
  BY DEF SymbolicInv, AutomataInv
<1>. QED  BY <1>2, <1>3, <1>4

\* A product over the variables of its factors, whose final states put theirs together.
LEMMA ProductAdded ==
    ASSUME SymbolicInv, NEW ids \in DfaPairs, NEW final_states, NEW accepts \in SUBSET Verdicts,
           Product(ids, final_states, accepts), ExplicitInv',
           final_states \subseteq Valuations,
           \A v \in Valuations, verdict \in Verdicts :
                (\A i \in {1, 2} : v \in Factor(ids, i).final_states <=>
                                        verdict \in Factor(ids, i).purpose.accepts)
                    => (v \in final_states <=> verdict \in accepts)
    PROVE  SymbolicInv'
<1>1. PICK x \in 1 .. Len(dfas), y \in 1 .. Len(dfas) :
               /\ ids = <<x, y>> /\ DOMAIN ids = {1, 2}
               /\ Factor(ids, 1) = dfas[x] /\ Factor(ids, 2) = dfas[y]
               /\ state_variables[Factor(ids, 1).automaton_id] = state_variables[x]
               /\ state_variables[Factor(ids, 2).automaton_id] = state_variables[y]
  BY Factors
<1>. DEFINE a == dfas[x]
            b == dfas[y]
            g == state_variables[x]
            h == state_variables[y]
            mixed == \E i \in DOMAIN ids :
                        Factor(ids, i).purpose # Plain(Factor(ids, i).purpose.accepts)
            c == [automaton_id |-> Len(state_variables) + 1,
                  initial_state |-> a.initial_state \o b.initial_state,
                  final_states |-> final_states,
                  transition_function |-> a.transition_function \o b.transition_function,
                  purpose |-> [Plain(accepts) EXCEPT !.mixed = mixed]]
<1>2. /\ IsSound(bases, a, g) /\ IsSound(bases, b, h)
      /\ IsUnchanged(a) /\ IsUnchanged(b) => Fit(a, g, b, h)
      /\ AreBases(bases)
  BY DEF SymbolicInv, AutomataInv, ExplicitInv
<1>3. /\ Len(state_variables) = Len(dfas) /\ Len(dfas) \in Nat
      /\ IsGroup(g, bdd_size) /\ IsGroup(h, bdd_size) /\ IsList(g) /\ IsList(h)
  BY ListProperties DEF SymbolicInv, AutomataInv, VariablesInv, IsGroup
<1>4. /\ a.initial_state \in Seq({0, 1}) /\ b.initial_state \in Seq({0, 1})
      /\ a.transition_function \in Seq(SUBSET AllMoves) /\ b.transition_function \in Seq(SUBSET AllMoves)
  <2>1. Len(g) \in Nat /\ Len(h) \in Nat
    BY <1>3, ListProperties
  <2>. DEFINE S == SUBSET AllMoves
  <2>2. /\ a.initial_state \in [1 .. Len(g) -> {0, 1}] /\ b.initial_state \in [1 .. Len(h) -> {0, 1}]
        /\ a.transition_function \in [1 .. Len(g) -> S] /\ b.transition_function \in [1 .. Len(h) -> S]
    BY <1>2 DEF IsSound, Automata
  <2>. HIDE DEF a, b, g, h, S
  <2>3. /\ a.initial_state \in Seq({0, 1}) /\ b.initial_state \in Seq({0, 1})
        /\ a.transition_function \in Seq(S) /\ b.transition_function \in Seq(S)
    BY <2>1, <2>2, FunctionIsList
  <2>. QED  BY <2>3 DEF S
<1>5. FlattenSeq([i \in DOMAIN ids |-> Factor(ids, i).initial_state]) = a.initial_state \o b.initial_state
  <2>1. [i \in DOMAIN ids |-> Factor(ids, i).initial_state] = <<a.initial_state, b.initial_state>>
    BY <1>1
  <2>. HIDE DEF a, b
  <2>. QED  BY <1>4, <2>1, FlattenPair
<1>6. FlattenSeq([i \in DOMAIN ids |-> Factor(ids, i).transition_function]) =
          a.transition_function \o b.transition_function
  <2>1. [i \in DOMAIN ids |-> Factor(ids, i).transition_function] =
            <<a.transition_function, b.transition_function>>
    BY <1>1
  <2>. DEFINE S == SUBSET AllMoves
  <2>2. a.transition_function \in Seq(S) /\ b.transition_function \in Seq(S)
    BY <1>4
  <2>. HIDE DEF a, b, S
  <2>. QED  BY <2>1, <2>2, FlattenPair
<1>7. state_variables' = Append(state_variables, g \o h)
  <2>. DEFINE automaton_ids == [i \in DOMAIN ids |-> Factor(ids, i).automaton_id]
              groups == [i \in DOMAIN automaton_ids |-> state_variables[automaton_ids[i]]]
  <2>1. groups = <<g, h>>
    BY <1>1
  <2>2. state_variables' = Append(state_variables, FlattenSeq(groups))
    BY DEF Product, create_product_state_space
  <2>. DEFINE S == ToSet(g) \cup ToSet(h)
  <2>3. g \in Seq(S) /\ h \in Seq(S)
    <3>1. g \in Seq(ToSet(g)) /\ h \in Seq(ToSet(h))
      BY <1>3 DEF IsList
    <3>. HIDE DEF g, h
    <3>2. \A i \in DOMAIN g : g[i] \in S
      BY <3>1, LenProperties
    <3>3. \A i \in DOMAIN h : h[i] \in S
      BY <3>1, LenProperties
    <3>. HIDE DEF S
    <3>4. /\ Len(g) \in Nat /\ g \in [1 .. Len(g) -> S]
          /\ Len(h) \in Nat /\ h \in [1 .. Len(h) -> S]
      BY <3>1, <3>2, <3>3, LenProperties
    <3>. QED  BY <3>4, SeqDef
  <2>. HIDE DEF g, h, S, groups
  <2>. QED  BY <2>1, <2>2, <2>3, FlattenPair
<1>8. dfas' = Append(dfas, c) /\ bases' = bases
      /\ UNCHANGED <<bdd_size, name_to_variable, state_variable_count>>
  <2>1. Build([automaton_id |-> Len(state_variables) + 1,
              initial_state |-> FlattenSeq([i \in DOMAIN ids |-> Factor(ids, i).initial_state]),
              final_states |-> final_states,
              transition_function |->
                    FlattenSeq([i \in DOMAIN ids |-> Factor(ids, i).transition_function]),
              purpose |-> Combined(ids, accepts)])
    BY DEF Product
  <2>2. Combined(ids, accepts) = [Plain(accepts) EXCEPT !.mixed = mixed]
    BY DEF Combined
  <2>. HIDE DEF a, b, mixed
  <2>3. Build(c)
    BY <1>5, <1>6, <2>1, <2>2
  <2>. QED  BY <2>3 DEF Build, Product, create_product_state_space
<1>9. mixed \in BOOLEAN /\ (mixed = FALSE => IsUnchanged(a) /\ IsUnchanged(b))
  <2>1. mixed \in BOOLEAN
    OBVIOUS
  <2>2. ASSUME mixed = FALSE PROVE IsUnchanged(a) /\ IsUnchanged(b)
    <3>1. a.purpose = Plain(a.purpose.accepts) /\ b.purpose = Plain(b.purpose.accepts)
      BY <1>1, <2>2
    <3>. HIDE DEF a, b
    <3>. QED  BY <3>1, PlainParts DEF IsUnchanged
  <2>. QED  BY <2>1, <2>2
<1>10. IsCombination(c, a, b) /\ IsJoined(c, a, g, b, h)
  <2>1. /\ c.final_states = final_states /\ c.purpose.accepts = accepts
        /\ c.initial_state = a.initial_state \o b.initial_state
        /\ c.transition_function = a.transition_function \o b.transition_function
    BY DEF Plain
  <2>2. a \in Automata(g) /\ b \in Automata(h)
    BY <1>2 DEF IsSound
  <2>3. \A v \in Valuations, verdict \in Verdicts :
            (v \in a.final_states <=> verdict \in a.purpose.accepts)
            /\ (v \in b.final_states <=> verdict \in b.purpose.accepts)
                => (v \in final_states <=> verdict \in accepts)
    <3>1. SUFFICES ASSUME NEW v \in Valuations, NEW verdict \in Verdicts,
                          v \in a.final_states <=> verdict \in a.purpose.accepts,
                          v \in b.final_states <=> verdict \in b.purpose.accepts
                   PROVE  v \in final_states <=> verdict \in accepts
      OBVIOUS
    <3>. HIDE DEF a, b, c
    <3>2. \A i \in {1, 2} : v \in Factor(ids, i).final_states <=>
                                verdict \in Factor(ids, i).purpose.accepts
      BY <1>1, <3>1 DEF a, b
    <3>. QED  BY <3>2
  <2>. HIDE DEF a, b, g, h, c
  <2>. QED  BY <1>3, <2>1, <2>2, <2>3 DEF IsCombination, IsJoined
<1>. DEFINE id == Len(state_variables) + 1
<1>11. id \in Nat /\ id = Len(dfas) + 1
  BY <1>3
<1>. HIDE DEF mixed, id
<1>12. IsSound(bases, c, g \o h)
  <2>1. c = [automaton_id |-> id,
             initial_state |-> a.initial_state \o b.initial_state,
             final_states |-> final_states,
             transition_function |-> a.transition_function \o b.transition_function,
             purpose |-> [Plain(accepts) EXCEPT !.mixed = mixed]]
    BY DEF id
  <2>. HIDE DEF a, b, g, h, c
  <2>. QED  BY <1>2, <1>9, <1>10, <1>11, <2>1, ProductSound
<1>13. c.automaton_id = Len(dfas) + 1 /\ c.purpose.mixed = mixed
  BY <1>11 DEF id, Plain
<1>14. ASSUME NEW other \in 1 .. Len(dfas), IsUnchanged(c), IsUnchanged(dfas[other])
       PROVE  Fit(c, g \o h, dfas[other], state_variables[other])
  <2>1. IsUnchanged(a) /\ IsUnchanged(b)
    BY <1>9, <1>13, <1>14 DEF IsUnchanged
  <2>2. Fit(a, g, dfas[other], state_variables[other]) /\ Fit(b, h, dfas[other], state_variables[other])
    BY <1>14, <2>1 DEF SymbolicInv, AutomataInv
  <2>. HIDE DEF a, b, g, h, c
  <2>. QED  BY <1>10, <2>2, FitJoined
<1>. HIDE DEF a, b, c
<1>15. IsFurther(c, g \o h)
  BY <1>12, <1>13, <1>14 DEF IsFurther
<1>16. VariablesInv'
  <2>1. IsGroup(g \o h, bdd_size)
    BY <1>3, GroupsJoined
  <2>. HIDE DEF g, h
  <2>. QED  BY <1>7, <1>8, <2>1, VariablesShared DEF SymbolicInv
<1>17. AutomataInv'
  <2>. HIDE DEF g, h
  <2>. QED  BY <1>7, <1>8, <1>15, <1>16, AutomatonAdded
<1>. QED  BY <1>16, <1>17 DEF SymbolicInv

-----------------------------------------------------------------------------
(* What each step leaves *)

\* What the factors are.
LEMMA FactorParts ==
    ASSUME SymbolicInv, NEW ids \in DfaPairs
    PROVE  /\ DOMAIN ids = {1, 2}
           /\ \A i \in {1, 2} : /\ Factor(ids, i).final_states \subseteq Valuations
                                /\ Factor(ids, i).purpose.accepts \subseteq Verdicts
<1>1. PICK x \in 1 .. Len(dfas), y \in 1 .. Len(dfas) :
               /\ ids = <<x, y>> /\ DOMAIN ids = {1, 2}
               /\ Factor(ids, 1) = dfas[x] /\ Factor(ids, 2) = dfas[y]
  BY Factors
<1>2. ASSUME NEW z \in 1 .. Len(dfas)
      PROVE  dfas[z].final_states \subseteq Valuations /\ dfas[z].purpose.accepts \subseteq Verdicts
  <2>1. dfas[z] \in Automata(state_variables[z])
    BY DEF SymbolicInv, AutomataInv, IsSound
  <2>. QED  BY <2>1 DEF Automata, Purposes
<1>3. /\ Factor(ids, 1).final_states \subseteq Valuations
      /\ Factor(ids, 1).purpose.accepts \subseteq Verdicts
  BY <1>1, <1>2
<1>4. /\ Factor(ids, 2).final_states \subseteq Valuations
      /\ Factor(ids, 2).purpose.accepts \subseteq Verdicts
  BY <1>1, <1>2
<1>. QED  BY <1>1, <1>3, <1>4

\* product_AND().
LEMMA ConjunctionAdded ==
    ASSUME SymbolicInv, NEW ids \in DfaPairs, product_AND(ids), ExplicitInv'
    PROVE  SymbolicInv'
<1>. DEFINE final_states == {v \in Valuations : \A i \in DOMAIN ids : v \in Factor(ids, i).final_states}
            accepts == {s \in Verdicts : \A i \in DOMAIN ids : s \in Factor(ids, i).purpose.accepts}
<1>1. Product(ids, final_states, accepts)
  BY DEF product_AND
<1>2. DOMAIN ids = {1, 2}
  BY FactorParts
<1>3. ASSUME NEW v \in Valuations, NEW verdict \in Verdicts,
             \A i \in {1, 2} : v \in Factor(ids, i).final_states <=>
                                    verdict \in Factor(ids, i).purpose.accepts
      PROVE  v \in final_states <=> verdict \in accepts
  BY <1>2, <1>3
<1>4. final_states \subseteq Valuations /\ accepts \in SUBSET Verdicts
  OBVIOUS
<1>. HIDE DEF final_states, accepts
<1>. QED  BY <1>1, <1>3, <1>4, ProductAdded

\* product_OR().
LEMMA DisjunctionAdded ==
    ASSUME SymbolicInv, NEW ids \in DfaPairs, product_OR(ids), ExplicitInv'
    PROVE  SymbolicInv'
<1>. DEFINE final_states == UNION {Factor(ids, i).final_states : i \in DOMAIN ids}
            accepts == UNION {Factor(ids, i).purpose.accepts : i \in DOMAIN ids}
<1>1. Product(ids, final_states, accepts)
  BY DEF product_OR
<1>2. /\ DOMAIN ids = {1, 2}
      /\ \A i \in {1, 2} : /\ Factor(ids, i).final_states \subseteq Valuations
                           /\ Factor(ids, i).purpose.accepts \subseteq Verdicts
  BY FactorParts
<1>3. ASSUME NEW v \in Valuations, NEW verdict \in Verdicts,
             \A i \in {1, 2} : v \in Factor(ids, i).final_states <=>
                                    verdict \in Factor(ids, i).purpose.accepts
      PROVE  v \in final_states <=> verdict \in accepts
  BY <1>2, <1>3
<1>4. final_states \subseteq Valuations /\ accepts \in SUBSET Verdicts
  BY <1>2
<1>. HIDE DEF final_states, accepts
<1>. QED  BY <1>1, <1>3, <1>4, ProductAdded

\* An automaton as it was built.
LEMMA AutomatonParts ==
    ASSUME SymbolicInv, NEW id \in DOMAIN dfas
    PROVE  /\ DOMAIN dfas = 1 .. Len(dfas) /\ Len(dfas) \in Nat /\ Len(state_variables) = Len(dfas)
           /\ id \in Nat /\ dfas[id].automaton_id = id
           /\ GroupOf(dfas[id]) = state_variables[id]
           /\ IsSound(bases, dfas[id], state_variables[id])
           /\ IsGroup(state_variables[id], bdd_size) /\ IsList(state_variables[id])
           /\ AreBases(bases)
<1>1. DOMAIN dfas = 1 .. Len(dfas) /\ Len(dfas) \in Nat /\ Len(state_variables) = Len(dfas)
  BY ListProperties DEF SymbolicInv, AutomataInv
<1>2. IsSound(bases, dfas[id], state_variables[id]) /\ dfas[id].automaton_id = id
  BY <1>1 DEF SymbolicInv, AutomataInv
<1>3. IsGroup(state_variables[id], bdd_size)
  BY <1>1 DEF SymbolicInv, VariablesInv
<1>. QED  BY <1>1, <1>2, <1>3 DEF GroupOf, IsGroup, SymbolicInv, ExplicitInv

\* complement().
LEMMA ComplementAdded ==
    ASSUME SymbolicInv, NEW id \in DOMAIN dfas, complement(id), ExplicitInv'
    PROVE  SymbolicInv'
<1>. DEFINE a == dfas[id]
            group == state_variables[id]
            new == Len(state_variables) + 1
            c == [a EXCEPT !.automaton_id = new, !.final_states = Valuations \ @,
                           !.purpose.accepts = Verdicts \ @]
<1>1. /\ DOMAIN dfas = 1 .. Len(dfas) /\ Len(dfas) \in Nat /\ new = Len(dfas) + 1
      /\ a.automaton_id = id /\ IsSound(bases, a, group) /\ IsGroup(group, bdd_size)
      /\ AreBases(bases)
  BY AutomatonParts
<1>2. /\ state_variables' = Append(state_variables, group) /\ dfas' = Append(dfas, c)
      /\ bases' = bases /\ UNCHANGED <<bdd_size, name_to_variable, state_variable_count>>
  <2>1. create_complement_state_space(id) /\ Build(c) /\ bases' = bases
    BY <1>1 DEF complement
  <2>. HIDE DEF c, group
  <2>. QED  BY <2>1 DEF create_complement_state_space, Build, group
<1>3. /\ IsSound(bases, c, group) /\ c.automaton_id = new
      /\ IsUnchanged(c) => IsUnchanged(a)
      /\ c.transition_function = a.transition_function
  <2>1. new \in Nat
    BY <1>1
  <2>2. AreBases(bases) /\ IsSound(bases, a, group)
    BY <1>1
  <2>. HIDE DEF a, group, new
  <2>3. ComplementedSoundly(bases, c, a, group, new)
    BY ONLY <2>1, <2>2, ComplementSound DEF c
  <2>. HIDE DEF c
  <2>. QED  BY <2>3 DEF ComplementedSoundly
<1>4. VariablesInv'
  <2>. HIDE DEF group, c
  <2>. QED  BY <1>1, <1>2, VariablesShared DEF SymbolicInv
<1>. HIDE DEF c
<1>5. ASSUME NEW other \in 1 .. Len(dfas), IsUnchanged(c), IsUnchanged(dfas[other])
      PROVE  Fit(c, group, dfas[other], state_variables[other])
  <2>1. Fit(a, group, dfas[other], state_variables[other])
    BY <1>1, <1>3, <1>5 DEF SymbolicInv, AutomataInv
  <2>. QED  BY <1>3, <2>1 DEF Fit
<1>. HIDE DEF a, group
<1>6. IsFurther(c, group)
  BY <1>1, <1>3, <1>5 DEF IsFurther
<1>7. AutomataInv'
  BY <1>2, <1>4, <1>6, AutomatonAdded
<1>. QED  BY <1>4, <1>7 DEF SymbolicInv

\* Only automata that were not changed are changed.
LEMMA NotYetChanged ==
    ASSUME NEW id \in DOMAIN dfas, NEW a, Change(id, a)
    PROVE  dfas[id].purpose.sinks = {} /\ dfas[id].purpose.kept = AllMoves
BY DEF Change

\* new_sink_states().
LEMMA SinksMade ==
    ASSUME SymbolicInv, NEW id \in DOMAIN dfas, NEW states \in SUBSET Valuations,
           new_sink_states(id, states)
    PROVE  SymbolicInv'
<1>. DEFINE a == dfas[id]
            group == state_variables[id]
            c == [a EXCEPT !.transition_function = sink_bits(group, @, states),
                           !.purpose.sinks = states]
<1>1. Change(id, c)
  BY AutomatonParts DEF new_sink_states
<1>2. ChangedSoundly(bases, c, a, group)
  <2>1. /\ a.purpose.sinks = {} /\ a.purpose.kept = AllMoves
        /\ IsSound(bases, a, group) /\ IsList(group) /\ AreBases(bases)
    BY <1>1, NotYetChanged, AutomatonParts
  <2>. HIDE DEF a, group
  <2>. QED  BY <2>1, SinksSound
<1>. HIDE DEF c
<1>. QED  BY <1>1, <1>2, AutomatonChanged

\* restrict_dfa_with_states().
LEMMA StatesRestricted ==
    ASSUME SymbolicInv, NEW id \in DOMAIN dfas, NEW states \in SUBSET Valuations,
           restrict_symbolic_dfa_with_states(id, states)
    PROVE  SymbolicInv'
<1>. DEFINE a == dfas[id]
            group == state_variables[id]
            c == [a EXCEPT !.transition_function = [i \in DOMAIN @ |-> @[i] \cap (states \X Alphabet)],
                           !.final_states = @ \cap states,
                           !.purpose.kept = states \X Alphabet]
<1>1. Change(id, c)
  BY DEF restrict_symbolic_dfa_with_states
<1>2. ChangedSoundly(bases, c, a, group)
  <2>1. /\ a.purpose.sinks = {} /\ a.purpose.kept = AllMoves
        /\ IsSound(bases, a, group) /\ IsList(group) /\ AreBases(bases)
    BY <1>1, NotYetChanged, AutomatonParts
  <2>. HIDE DEF a, group
  <2>. QED  BY <2>1, RestrictedToStates
<1>. HIDE DEF c
<1>. QED  BY <1>1, <1>2, AutomatonChanged

\* restrict_dfa_with_transitions().
LEMMA MovesRestricted ==
    ASSUME SymbolicInv, NEW id \in DOMAIN dfas, NEW kept \in SUBSET AllMoves,
           restrict_symbolic_dfa_with_transitions(id, kept)
    PROVE  SymbolicInv'
<1>. DEFINE a == dfas[id]
            group == state_variables[id]
            c == [a EXCEPT !.transition_function = [i \in DOMAIN @ |-> @[i] \cap kept],
                           !.purpose.kept = kept]
<1>1. Change(id, c)
  BY DEF restrict_symbolic_dfa_with_transitions
<1>2. ChangedSoundly(bases, c, a, group)
  <2>1. /\ a.purpose.sinks = {} /\ a.purpose.kept = AllMoves
        /\ IsSound(bases, a, group) /\ IsList(group) /\ AreBases(bases)
    BY <1>1, NotYetChanged, AutomatonParts
  <2>. HIDE DEF a, group
  <2>. QED  BY <2>1, RestrictedToMoves
<1>. HIDE DEF c
<1>. QED  BY <1>1, <1>2, AutomatonChanged

\* Before there are symbolic automata, and when nothing that counts changes.
LEMMA SymbolicStays ==
    ASSUME SymbolicInv, ExplicitInv',
           UNCHANGED vars, dfas' = dfas, dfas = <<>> \/ bases' = bases
    PROVE  SymbolicInv'
<1>1. VariablesInv' /\ state_variables' = state_variables
  BY DEF vars, SymbolicInv, VariablesInv, Known
<1>2. AutomataInv'
  <2>1. CASE bases' = bases
    BY <1>1, <2>1 DEF SymbolicInv, AutomataInv
  <2>2. CASE dfas = <<>>
    <3>1. Len(dfas) = 0 /\ 1 .. Len(dfas) = {}
      BY <2>2
    <3>. QED  BY <1>1, <3>1 DEF SymbolicInv, AutomataInv
  <2>. QED  BY <2>1, <2>2
<1>. QED  BY <1>1, <1>2 DEF SymbolicInv

\* No step spoils the symbolic automata.
LEMMA NextSymbolicInv == SymbolicInv /\ [DfaNext]_dfa_vars => SymbolicInv'
<1>. SUFFICES ASSUME SymbolicInv, [DfaNext]_dfa_vars PROVE SymbolicInv'
  OBVIOUS
<1>1. ExplicitInv'
  BY NextExplicitInv DEF SymbolicInv
<1>2. ASSUME NEW list, NEW new_bases, Explicit(list, new_bases) PROVE SymbolicInv'
  BY <1>1, <1>2, SymbolicStays DEF Explicit
<1>3. ASSUME \/ \E d \in FormulaDfas : BuildFormula(d)
             \/ BuildAnd \/ BuildOr \/ BuildComplement \/ BuildMinimal \/ BuildRestriction
      PROVE  SymbolicInv'
  <2>1. ASSUME NEW d \in FormulaDfas, BuildFormula(d) PROVE SymbolicInv'
    BY <1>2, <2>1 DEF BuildFormula
  <2>2. CASE BuildAnd
    BY <1>2, <2>2 DEF BuildAnd, OnAll
  <2>3. CASE BuildOr
    BY <1>2, <2>3 DEF BuildOr, OnAll
  <2>4. CASE BuildComplement
    BY <1>2, <2>4 DEF BuildComplement, OnLatest
  <2>5. CASE BuildMinimal
    BY <1>2, <2>5 DEF BuildMinimal, OnLatest
  <2>6. CASE BuildRestriction
    BY <1>2, <2>6 DEF BuildRestriction, OnLatest
  <2>. QED  BY <1>3, <2>1, <2>2, <2>3, <2>4, <2>5, <2>6
<1>4. CASE BuildSymbolic
  BY <1>1, <1>4, SymbolicBuilt
<1>5. ASSUME NEW ids \in DfaPairs, product_AND(ids) \/ product_OR(ids) PROVE SymbolicInv'
  BY <1>1, <1>5, ConjunctionAdded, DisjunctionAdded
<1>6. ASSUME NEW id \in DOMAIN dfas, complement(id) PROVE SymbolicInv'
  BY <1>1, <1>6, ComplementAdded
<1>7. ASSUME NEW ids \in DfaPairs, new_sink_states(ids[1], Unsafe(dfas[ids[2]])) PROVE SymbolicInv'
  <2>1. ids[1] \in DOMAIN dfas /\ Unsafe(dfas[ids[2]]) \in SUBSET Valuations
    BY DEF DfaPairs, Unsafe
  <2>. QED  BY <1>7, <2>1, SinksMade
<1>8. ASSUME NEW id \in DOMAIN dfas, restrict_symbolic_dfa_with_states(id, Acceptable(dfas[id]))
      PROVE  SymbolicInv'
  <2>1. Acceptable(dfas[id]) \in SUBSET Valuations
    <3>1. dfas[id].final_states \subseteq Valuations
      BY AutomatonParts DEF IsSound, Automata
    <3>. QED  BY <3>1 DEF Acceptable, state_vector_to_bdd
  <2>. QED  BY <1>8, <2>1, StatesRestricted
<1>9. ASSUME NEW id \in DOMAIN dfas,
             restrict_symbolic_dfa_with_transitions(id, MovesTo(dfas[id], Acceptable(dfas[id])))
      PROVE  SymbolicInv'
  <2>1. MovesTo(dfas[id], Acceptable(dfas[id])) \in SUBSET AllMoves
    BY DEF MovesTo
  <2>. QED  BY <1>9, <2>1, MovesRestricted
<1>10. ASSUME NEW id \in DOMAIN dfas, Start(id) PROVE SymbolicInv'
  BY <1>1, <1>10, SymbolicStays DEF Start
<1>11. ASSUME NEW letter \in Alphabet, Read(letter) PROVE SymbolicInv'
  BY <1>1, <1>11, SymbolicStays DEF Read
<1>12. CASE UNCHANGED dfa_vars
  BY <1>1, <1>12, SymbolicStays DEF dfa_vars
<1>. QED  BY <1>3, <1>4, <1>5, <1>6, <1>7, <1>8, <1>9, <1>10, <1>11, <1>12 DEF DfaNext

\* At first there are no automata.
LEMMA InitSymbolicInv == DfaInit => SymbolicInv
<1>. SUFFICES ASSUME DfaInit PROVE SymbolicInv
  OBVIOUS
<1>1. IsList(<<>>) /\ Len(<<>>) = 0 /\ 1 .. 0 = {}
  BY DEF IsList
<1>2. bases = <<>> /\ explicit_dfas = <<>> /\ dfas = <<>> /\ state_variables = <<>>
  BY DEF DfaInit, Init
<1>3. ExplicitInv
  BY <1>1, <1>2, SymbolicAssumption DEF ExplicitInv, AreBases, AllFor
<1>4. VariablesInv
  <2>1. IsFiniteSet(Known)
    BY FS_EmptySet DEF DfaInit, Init, Known
  <2>2. bdd_size \in 0 .. MaxVariables /\ state_variable_count = bdd_size
    BY BoundsAssumption DEF DfaInit, Init
  <2>. QED  BY <1>1, <1>2, <2>1, <2>2 DEF VariablesInv
<1>5. AutomataInv
  BY <1>1, <1>2 DEF AutomataInv
<1>. QED  BY <1>3, <1>4, <1>5 DEF SymbolicInv

-----------------------------------------------------------------------------
(* Plays *)

\* The last position of an element.
LEMMA LastPosition ==
    ASSUME NEW n \in Nat, NEW I \in SUBSET (1 .. n), I # {}
    PROVE  Max(I) \in I
<1>. DEFINE T == {n - i : i \in I}
<1>1. T \in SUBSET Nat /\ T # {}
  OBVIOUS
<1>2. PICK m \in T : \A k \in T : m <= k
  <2>. HIDE DEF T
  <2>. QED  BY <1>1, LeastNumber
<1>3. PICK i \in I : m = n - i
  BY <1>2
<1>4. \A j \in I : n - i <= n - j
  BY <1>2, <1>3
<1>5. \A j \in I : i >= j
  BY <1>4
<1>. QED  BY <1>5 DEF Max

\* The values after a letter.
NextValues(a, group, v, letter, w) ==
    /\ w \in Valuations
    /\ \A i \in 1 .. Len(group) : \E j \in 1 .. Len(group) :
            group[j] = group[i] /\ (w[group[i]] = 1 <=> <<v, letter>> \in a.transition_function[j])
    /\ \A index \in 0 .. MaxVariables - 1 : w[index] = v[index] \/ \E i \in 1 .. Len(group) : group[i] = index

\* The compose vector of a group within the variables gives these values.
LEMMA ComposedValues ==
    ASSUME NEW a, NEW id, a.automaton_id = id, IsList(state_variables[id]),
           IsFiniteSet(Known), bdd_size \in Nat, bdd_size <= MaxVariables,
           state_variable_count = bdd_size,
           \A i \in 1 .. Len(state_variables[id]) : state_variables[id][i] \in 0 .. bdd_size - 1,
           NEW v \in Valuations, NEW letter \in Alphabet
    PROVE  NextValues(a, state_variables[id], v, letter, next_valuation(a, v, letter))
<1>. DEFINE group == state_variables[id]
            vector == make_compose_vector(id)
            w == next_valuation(a, v, letter)
            Slots == 0 .. total_variable_count - 1
<1>1. a.automaton_id = id /\ IsList(group)
  OBVIOUS
<1>2. \A i \in 1 .. Len(group) : group[i] \in Slots /\ group[i] \in 0 .. MaxVariables - 1
  <2>1. Cardinality(Known) \in Nat /\ bdd_size \in Nat /\ MaxVariables \in Nat
        /\ bdd_size <= MaxVariables /\ state_variable_count = bdd_size
    BY FS_CardinalityType, BoundsAssumption
  <2>2. total_variable_count \in Nat /\ bdd_size <= total_variable_count
    BY <2>1 DEF total_variable_count
  <2>3. \A i \in 1 .. Len(group) : group[i] \in 0 .. bdd_size - 1
    OBVIOUS
  <2>. HIDE DEF group
  <2>. QED  BY <2>1, <2>2, <2>3
<1>3. ASSUME NEW i \in 1 .. Len(group)
      PROVE  \E j \in 1 .. Len(group) : group[j] = group[i] /\ vector[group[i]] = StateBdd(j)
  <2>. DEFINE I == {j \in 1 .. Len(group) : group[j] = group[i]}
              last == SelectLastInSeq(group, LAMBDA variable : variable = group[i])
  <2>1. I # {} /\ I \in SUBSET (1 .. Len(group)) /\ Len(group) \in Nat
    BY <1>1, ListProperties
  <2>2. Max(I) \in I
    <3>. HIDE DEF I
    <3>. QED  BY <2>1, LastPosition
  <2>3. last = Max(I)
    BY <2>1 DEF SelectLastInSeq
  <2>4. group[i] \in Variables(id)
    <3>1. DOMAIN group = 1 .. Len(group)
      BY <1>1, ListProperties
    <3>. QED  BY <3>1 DEF Variables, ToSet
  <2>5. vector[group[i]] = StateBdd(last)
    BY <1>2, <2>4 DEF make_compose_vector
  <2>. HIDE DEF last
  <2>. QED  BY <2>2, <2>3, <2>5
<1>4. ASSUME NEW index \in Slots, \A i \in 1 .. Len(group) : group[i] # index
      PROVE  vector[index].kind # "state_bdd"
  <2>1. index \notin Variables(id)
    <3>1. DOMAIN group = 1 .. Len(group)
      BY <1>1, ListProperties
    <3>. QED  BY <1>4, <3>1 DEF Variables, ToSet
  <2>2. vector[index] = Itself(index) \/ vector[index] = Zero
    BY <2>1 DEF make_compose_vector
  <2>. QED  BY <2>2 DEF Itself, Zero
<1>5. DOMAIN vector = Slots
  BY DEF make_compose_vector
<1>6. w = [index \in 0 .. MaxVariables - 1 |->
              IF index \in DOMAIN vector /\ vector[index].kind = "state_bdd"
              THEN IF <<v, letter>> \in a.transition_function[vector[index].at] THEN 1 ELSE 0
              ELSE v[index]]
  BY <1>1 DEF next_valuation
<1>. HIDE DEF vector, w, group, Slots
<1>7. w \in Valuations
  BY <1>6 DEF Valuations
<1>8. ASSUME NEW i \in 1 .. Len(group)
      PROVE  \E j \in 1 .. Len(group) :
                group[j] = group[i] /\ (w[group[i]] = 1 <=> <<v, letter>> \in a.transition_function[j])
  <2>1. PICK j \in 1 .. Len(group) : group[j] = group[i] /\ vector[group[i]] = StateBdd(j)
    BY <1>3
  <2>2. vector[group[i]].kind = "state_bdd" /\ vector[group[i]].at = j
    BY <2>1 DEF StateBdd
  <2>3. w[group[i]] = IF <<v, letter>> \in a.transition_function[j] THEN 1 ELSE 0
    BY <1>2, <1>5, <1>6, <2>2
  <2>. QED  BY <2>1, <2>3
<1>9. ASSUME NEW index \in 0 .. MaxVariables - 1, \A i \in 1 .. Len(group) : group[i] # index
      PROVE  w[index] = v[index]
  BY <1>4, <1>5, <1>6, <1>9
<1>10. NextValues(a, group, v, letter, w)
  BY <1>7, <1>8, <1>9 DEF NextValues
<1>. QED  BY <1>10 DEF group, w

\* So does that of each automaton.
LEMMA NextValuation ==
    ASSUME SymbolicInv, NEW id \in DOMAIN dfas, NEW v \in Valuations, NEW letter \in Alphabet
    PROVE  NextValues(dfas[id], state_variables[id], v, letter, next_valuation(dfas[id], v, letter))
<1>1. /\ dfas[id].automaton_id = id
      /\ IsGroup(state_variables[id], bdd_size) /\ IsList(state_variables[id])
  BY AutomatonParts
<1>2. /\ IsFiniteSet(Known) /\ bdd_size \in Nat /\ bdd_size <= MaxVariables
      /\ state_variable_count = bdd_size
  BY BoundsAssumption DEF SymbolicInv, VariablesInv
<1>3. \A i \in 1 .. Len(state_variables[id]) : state_variables[id][i] \in 0 .. bdd_size - 1
  BY <1>1 DEF IsGroup
<1>. QED  BY <1>1, <1>2, <1>3, ComposedValues

-----------------------------------------------------------------------------
(* What the plays show *)

\* A play of an automaton stays within what explains it.
IsTogether(a, group) ==
    /\ ~LeavesIn(a, valuation)
    /\ \E R : Explains(bases, a, group, R) /\ <<valuation, shadow>> \in R

PlayInv ==
    /\ played \in {0} \cup DOMAIN dfas
    /\ valuation \in Valuations
    /\ played # 0 => shadow \in PlacesOf(bases)
    /\ played # 0 /\ dfas[played].purpose.mixed = FALSE /\ dfas[played].purpose.sinks = {} /\ ~left
            => IsTogether(dfas[played], state_variables[played])

\* A play starts where the automaton and the bases do.
LEMMA PlayStarts ==
    ASSUME SymbolicInv, NEW id \in DOMAIN dfas, Start(id)
    PROVE  PlayInv'
<1>. DEFINE a == dfas[id]
            group == state_variables[id]
<1>1. /\ id \in Nat /\ id \in 1 .. Len(dfas) /\ GroupOf(a) = group
      /\ IsSound(bases, a, group) /\ AreBases(bases)
  BY AutomatonParts
<1>2. /\ valuation' \in state_vector_to_bdd(group, a.initial_state)
      /\ played' = id /\ shadow' = JudgeOf(bases).start
      /\ left' = LeavesIn(a, valuation')
      /\ dfas' = dfas /\ bases' = bases /\ state_variables' = state_variables
  BY <1>1 DEF Start, JudgeOf, vars
<1>3. valuation' \in Valuations
  BY <1>2 DEF state_vector_to_bdd
<1>4. JudgeOf(bases).start \in PlacesOf(bases)
  BY <1>1, BasesJudge DEF IsJudge
<1>5. ASSUME a.purpose.mixed = FALSE, a.purpose.sinks = {}, ~left'
      PROVE  /\ ~LeavesIn(a, valuation')
             /\ \E R : Explains(bases, a, group, R) /\ <<valuation', shadow'>> \in R
  <2>1. PICK R : Explains(bases, a, group, R)
    BY <1>1, <1>5 DEF IsSound, IsExplained
  <2>2. <<valuation', shadow'>> \in R
    BY <1>2, <2>1 DEF Explains, StartsTogether
  <2>. QED  BY <1>2, <1>5, <2>1, <2>2
<1>. QED  BY <1>1, <1>2, <1>3, <1>4, <1>5 DEF PlayInv, IsTogether

\* A letter moves the automaton and the bases alike.
LEMMA PlayContinues ==
    ASSUME SymbolicInv, PlayInv, NEW letter \in Alphabet, Read(letter)
    PROVE  PlayInv'
<1>. DEFINE a == dfas[played]
            group == state_variables[played]
<1>1. played # 0 /\ played \in DOMAIN dfas /\ valuation \in Valuations /\ shadow \in PlacesOf(bases)
  BY DEF Read, PlayInv
<1>2. IsSound(bases, a, group) /\ AreBases(bases)
  BY <1>1, AutomatonParts
<1>3. /\ NextValues(a, group, valuation, letter, valuation')
      /\ shadow' = StepOf(bases, shadow, letter)
      /\ played' = played /\ dfas' = dfas /\ bases' = bases /\ state_variables' = state_variables
      /\ left' = (left \/ <<valuation, letter>> \notin a.purpose.kept \/ LeavesIn(a, valuation'))
  BY <1>1, NextValuation DEF Read, StepOf, vars
<1>4. valuation' \in Valuations
  BY <1>3 DEF NextValues
<1>5. StepOf(bases, shadow, letter) \in PlacesOf(bases)
  <2>1. /\ IsJudge(JudgeOf(bases)) /\ JudgeOf(bases).places = PlacesOf(bases)
        /\ JudgeOf(bases).step[shadow][letter] = StepOf(bases, shadow, letter)
    BY <1>1, <1>2, BasesJudge
  <2>. QED  BY <1>1, <2>1 DEF IsJudge
<1>6. ASSUME a.purpose.mixed = FALSE, a.purpose.sinks = {}, ~left'
      PROVE  /\ ~LeavesIn(a, valuation')
             /\ \E R : Explains(bases, a, group, R) /\ <<valuation', shadow'>> \in R
  <2>1. ~left /\ <<valuation, letter>> \in a.purpose.kept /\ ~LeavesIn(a, valuation')
    BY <1>3, <1>6
  <2>2. PICK R : Explains(bases, a, group, R) /\ <<valuation, shadow>> \in R
    BY <1>1, <1>6, <2>1 DEF PlayInv, IsTogether
  <2>3. Follows(a, group, valuation, letter, valuation')
    <3>1. Fit(a, group, a, group)
      BY <1>2, <1>6 DEF IsSound
    <3>2. \A i \in 1 .. Len(group) :
              valuation'[group[i]] = 1 <=> <<valuation, letter>> \in a.transition_function[i]
      BY <1>3, <3>1 DEF NextValues, Fit
    <3>. QED  BY <1>4, <3>2 DEF Follows
  <2>4. <<valuation', shadow'>> \in R
    BY <1>1, <1>3, <1>4, <2>1, <2>2, <2>3 DEF Explains, StepTogether
  <2>. QED  BY <2>1, <2>2, <2>4
<1>. QED  BY <1>1, <1>3, <1>4, <1>5, <1>6 DEF PlayInv, IsTogether

\* No step spoils the play.
LEMMA NextPlayInv == SymbolicInv /\ PlayInv /\ [DfaNext]_dfa_vars => PlayInv'
<1>. SUFFICES ASSUME SymbolicInv, PlayInv, [DfaNext]_dfa_vars PROVE PlayInv'
  OBVIOUS
<1>1. ASSUME NEW id \in DOMAIN dfas, Start(id) PROVE PlayInv'
  BY <1>1, PlayStarts
<1>2. ASSUME NEW letter \in Alphabet, Read(letter) PROVE PlayInv'
  BY <1>2, PlayContinues
<1>3. CASE UNCHANGED dfa_vars
  BY <1>3 DEF dfa_vars, play, vars, PlayInv, IsTogether
<1>4. ASSUME played = 0, UNCHANGED play PROVE PlayInv'
  BY <1>4 DEF play, PlayInv
<1>5. ASSUME NEW list, NEW new_bases, Explicit(list, new_bases) PROVE PlayInv'
  BY <1>4, <1>5 DEF Explicit
<1>6. ASSUME NEW automaton, Build(automaton) PROVE PlayInv'
  BY <1>4, <1>6 DEF Build
<1>7. ASSUME NEW id, NEW automaton, Change(id, automaton) PROVE PlayInv'
  BY <1>4, <1>7 DEF Change
<1>8. ASSUME NEW d \in FormulaDfas, BuildFormula(d) PROVE PlayInv'
  BY <1>5, <1>8 DEF BuildFormula
<1>9. ASSUME BuildAnd \/ BuildOr PROVE PlayInv'
  BY <1>5, <1>9 DEF BuildAnd, BuildOr, OnAll
<1>10. ASSUME BuildComplement \/ BuildMinimal \/ BuildRestriction PROVE PlayInv'
  BY <1>5, <1>10 DEF BuildComplement, BuildMinimal, BuildRestriction, OnLatest
<1>11. CASE BuildSymbolic
  BY <1>6, <1>11 DEF BuildSymbolic, from_explicit
<1>12. ASSUME NEW ids \in DfaPairs, product_AND(ids) \/ product_OR(ids) PROVE PlayInv'
  BY <1>6, <1>12 DEF product_AND, product_OR, Product
<1>13. ASSUME NEW id \in DOMAIN dfas, complement(id) PROVE PlayInv'
  BY <1>6, <1>13 DEF complement
<1>14. ASSUME NEW id, NEW states, \/ new_sink_states(id, states)
                                  \/ restrict_symbolic_dfa_with_states(id, states)
                                  \/ restrict_symbolic_dfa_with_transitions(id, states)
       PROVE  PlayInv'
  BY <1>7, <1>14 DEF new_sink_states, restrict_symbolic_dfa_with_states,
                     restrict_symbolic_dfa_with_transitions
<1>. QED  BY <1>1, <1>2, <1>3, <1>8, <1>9, <1>10, <1>11, <1>12, <1>13, <1>14 DEF DfaNext

\* The inductive invariant of the automata and of the play.
THEOREM DfaInvariant == DfaSpec => [](SymbolicInv /\ PlayInv)
<1>1. DfaInit => PlayInv
  <2>1. [v \in 0 .. MaxVariables - 1 |-> 0] \in Valuations
    BY DEF Valuations
  <2>. QED  BY <2>1 DEF DfaInit, PlayInv
<1>. QED  BY <1>1, InitSymbolicInv, NextSymbolicInv, NextPlayInv, PTL DEF DfaSpec

\* Every automaton has one group of variables, and as many initial bits and transition
\* components as the group has variables.
THEOREM DfaTypeOKTheorem == DfaSpec => []DfaTypeOK
<1>1. SymbolicInv /\ PlayInv => DfaTypeOK
  <2>. SUFFICES ASSUME SymbolicInv, PlayInv PROVE DfaTypeOK
    OBVIOUS
  <2>1. Built = DOMAIN state_variables
    <3>1. DOMAIN dfas = 1 .. Len(dfas) /\ DOMAIN state_variables = 1 .. Len(state_variables)
      BY ListProperties DEF SymbolicInv, AutomataInv, VariablesInv
    <3>. QED  BY <3>1 DEF SymbolicInv, AutomataInv, Built
  <2>2. ASSUME NEW id \in Built
        PROVE  /\ dfas[id].automaton_id = id
               /\ dfas[id].initial_state \in [DOMAIN state_variables[id] -> {0, 1}]
               /\ dfas[id].transition_function \in
                        [DOMAIN state_variables[id] -> SUBSET (Valuations \X Alphabet)]
               /\ dfas[id].final_states \subseteq Valuations
    <3>1. /\ dfas[id].automaton_id = id /\ dfas[id] \in Automata(state_variables[id])
          /\ DOMAIN state_variables[id] = 1 .. Len(state_variables[id])
      BY AutomatonParts, ListProperties DEF Built, IsSound
    <3>. QED  BY <3>1 DEF Automata, AllMoves
  <2>. QED  BY <2>1, <2>2 DEF DfaTypeOK, PlayInv, Built
<1>. QED  BY <1>1, DfaInvariant, PTL

\* After every word, an automaton accepts exactly when the automata of the formulas do, in
\* the combination it was built by; a restricted one as long as the word stays within it.
THEOREM AcceptsItsLanguageTheorem == DfaSpec => []AcceptsItsLanguage
<1>1. SymbolicInv /\ PlayInv => AcceptsItsLanguage
  <2>. SUFFICES ASSUME SymbolicInv, PlayInv, played # 0, ~dfas[played].purpose.mixed,
                       dfas[played].purpose.sinks = {}, ~left
                PROVE  valuation \in dfas[played].final_states <=>
                            Accepting \in dfas[played].purpose.accepts
    BY DEF AcceptsItsLanguage
  <2>. dfas[played].purpose.mixed = FALSE
    <3>1. dfas[played] \in Automata(state_variables[played])
      BY AutomatonParts DEF PlayInv, IsSound
    <3>. QED  BY <3>1 DEF Automata, Purposes
  <2>1. shadow \in PlacesOf(bases) /\ valuation \in Valuations
    BY DEF PlayInv
  <2>2. ~LeavesIn(dfas[played], valuation)
        /\ \E R : Explains(bases, dfas[played], state_variables[played], R) /\ <<valuation, shadow>> \in R
    BY DEF PlayInv, IsTogether
  <2>3. Accepting = AcceptingIn(bases, shadow)
    BY DEF Accepting, AcceptingIn
  <2>. QED  BY <2>1, <2>2, <2>3 DEF Explains, AcceptTogether
<1>. QED  BY <1>1, DfaInvariant, PTL

\* A state that was made a sink is never left.
THEOREM SinksAreNotLeftTheorem == DfaSpec => SinksAreNotLeft
<1>1. SymbolicInv /\ PlayInv /\ [DfaNext]_dfa_vars =>
        [(/\ played # 0
          /\ ~dfas[played].purpose.mixed
          /\ dfas[played].purpose.kept = AllMoves
          /\ valuation \in dfas[played].purpose.sinks)
              => valuation' = valuation]_dfa_vars
  <2>. SUFFICES ASSUME SymbolicInv, PlayInv, DfaNext, played # 0,
                       valuation \in dfas[played].purpose.sinks
                PROVE  valuation' = valuation
    OBVIOUS
  <2>1. ASSUME NEW letter \in Alphabet, Read(letter) PROVE valuation' = valuation
    <3>. DEFINE a == dfas[played]
                group == state_variables[played]
                w == next_valuation(a, valuation, letter)
    <3>1. played \in DOMAIN dfas /\ valuation \in Valuations /\ valuation' = w
      BY <2>1 DEF Read, PlayInv
    <3>2. NextValues(a, group, valuation, letter, w) /\ SinksStay(a, group)
      BY <3>1, NextValuation, AutomatonParts DEF IsSound
    <3>3. \A j \in 1 .. Len(group) :
              <<valuation, letter>> \in a.transition_function[j] <=> valuation[group[j]] = 1
      BY <3>2 DEF SinksStay
    <3>. HIDE DEF w, a, group
    <3>4. w \in Valuations
      BY <3>2 DEF NextValues
    <3>5. ASSUME NEW index \in 0 .. MaxVariables - 1 PROVE w[index] = valuation[index]
      <4>1. CASE \E i \in 1 .. Len(group) : group[i] = index
        <5>. PICK i \in 1 .. Len(group) : group[i] = index
          BY <4>1
        <5>1. PICK j \in 1 .. Len(group) : group[j] = group[i]
                    /\ (w[group[i]] = 1 <=> <<valuation, letter>> \in a.transition_function[j])
          BY <3>2 DEF NextValues
        <5>2. <<valuation, letter>> \in a.transition_function[j] <=> valuation[group[j]] = 1
          BY <3>3
        <5>3. w[index] \in {0, 1} /\ valuation[index] \in {0, 1}
          BY <3>1, <3>4 DEF Valuations
        <5>. QED  BY <5>1, <5>2, <5>3
      <4>2. CASE ~ \E i \in 1 .. Len(group) : group[i] = index
        BY <3>2, <4>2 DEF NextValues
      <4>. QED  BY <4>1, <4>2
    <3>6. w = valuation
      <4>. DEFINE S == 0 .. MaxVariables - 1
      <4>1. w \in [S -> {0, 1}] /\ valuation \in [S -> {0, 1}] /\ \A index \in S : w[index] = valuation[index]
        BY <3>1, <3>4, <3>5 DEF Valuations
      <4>. HIDE DEF S
      <4>. QED  BY <4>1
    <3>. QED  BY <3>1, <3>6
  <2>2. \A list, new_bases : ~Explicit(list, new_bases)
    BY DEF Explicit
  <2>3. \A automaton : ~Build(automaton)
    BY DEF Build
  <2>4. \A id, automaton : ~Change(id, automaton)
    BY DEF Change
  <2>5. /\ ~ \E d \in FormulaDfas : BuildFormula(d)
        /\ ~BuildAnd /\ ~BuildOr /\ ~BuildComplement /\ ~BuildMinimal /\ ~BuildRestriction
    BY <2>2 DEF BuildFormula, BuildAnd, BuildOr, OnAll, BuildComplement, BuildMinimal,
                BuildRestriction, OnLatest
  <2>6. /\ ~BuildSymbolic
        /\ \A ids \in DfaPairs : ~product_AND(ids) /\ ~product_OR(ids)
        /\ \A id \in DOMAIN dfas : ~complement(id)
    BY <2>3 DEF BuildSymbolic, from_explicit, product_AND, product_OR, Product, complement
  <2>7. \A id, states : /\ ~new_sink_states(id, states)
                        /\ ~restrict_symbolic_dfa_with_states(id, states)
                        /\ ~restrict_symbolic_dfa_with_transitions(id, states)
    BY <2>4 DEF new_sink_states, restrict_symbolic_dfa_with_states,
                restrict_symbolic_dfa_with_transitions
  <2>8. \A id \in DOMAIN dfas : ~Start(id)
    BY DEF Start
  <2>. QED  BY <2>1, <2>5, <2>6, <2>7, <2>8 DEF DfaNext
<1>. QED  BY <1>1, DfaInvariant, PTL DEF DfaSpec, SinksAreNotLeft

-----------------------------------------------------------------------------
(* The GR(1) game: the automata of its arena *)

\* How many variables the k-th automaton has, and how many there are before these.
Width(k) == bit_count_of(bases[k].dfa.state_count)

Offset(k) ==
    CASE k = 1 -> 0
      [] k = 2 -> Width(1)
      [] k = 3 -> Width(1) + Width(2)
      [] OTHER -> Width(1) + Width(2) + Width(3)

\* The k-th automaton is the encoding of the k-th explicit one, over its own variables.
IsBuilt(k) ==
    /\ bases[k].dfa \in FormulaDfas /\ bases[k] = Whole(bases[k].dfa)
    /\ state_variables[k] = [i \in 1 .. Width(k) |-> Offset(k) + i - 1]
    /\ dfas[k].automaton_id = k
    /\ dfas[k].final_states = state_set_to_bdd(state_variables[k], bases[k].dfa.final_states)
    /\ dfas[k].transition_function =
            symbolic_transition_function(state_variables[k], from_dfa_mona(bases[k].dfa))

\* The bits of a state in the variables of the k-th automaton.
Encodes(k, v, state) ==
    \A i \in 1 .. Width(k) :
        v[Offset(k) + i - 1] = state_to_binary(state, Width(k))[i]

\* The state the k-th explicit automaton is in after a letter.
NextState(k, state, letter) ==
    bases[k].dfa.transition_function[state][seen(bases[k].dfa.names, letter)]

\* Everything about an explicit automaton that is needed.
LEMMA ExplicitAutomaton ==
    ASSUME NEW k, IsBuilt(k)
    PROVE  /\ bases[k].dfa.state_count \in Nat \ {0} /\ Width(k) \in Nat
           /\ bases[k].dfa.final_states \subseteq StatesOf(bases[k].dfa)
           /\ bases[k].final = bases[k].dfa.final_states
           /\ DOMAIN bases[k].moves = StatesOf(bases[k].dfa)
           /\ \A state \in StatesOf(bases[k].dfa), letter \in Alphabet :
                /\ seen(bases[k].dfa.names, letter) \in bases[k].moves[state]
                /\ NextState(k, state, letter) \in StatesOf(bases[k].dfa)
<1>. DEFINE d == bases[k].dfa
<1>1. d \in FormulaDfas /\ bases[k] = Whole(d)
  BY DEF IsBuilt
<1>2. IsExplicitDfa(d)
  BY <1>1, SymbolicAssumption
<1>. HIDE DEF d
<1>3. /\ bases[k].final = d.final_states
      /\ DOMAIN bases[k].moves = StatesOf(d)
      /\ \A state \in StatesOf(d) : bases[k].moves[state] = Bits(d.names)
  BY <1>1 DEF Whole
<1>4. d.state_count \in Nat \ {0} /\ d.final_states \subseteq StatesOf(d)
      /\ d.transition_function \in [StatesOf(d) -> [Bits(d.names) -> StatesOf(d)]]
      /\ d.names \in Seq(Propositions)
  BY <1>2 DEF IsExplicitDfa
<1>5. bit_count_of(d.state_count) \in Nat
  BY <1>4, BitCount
<1>6. ASSUME NEW letter \in Alphabet PROVE seen(d.names, letter) \in Bits(d.names)
  <2>1. \A i \in DOMAIN d.names : letter[d.names[i]] \in {0, 1}
    <3>1. \A i \in DOMAIN d.names : d.names[i] \in Propositions
      BY <1>4, LenProperties
    <3>. QED  BY <3>1 DEF Alphabet
  <2>. QED  BY <2>1 DEF seen, Bits
<1>. QED  BY <1>3, <1>4, <1>5, <1>6 DEF d, Width, NextState

\* The variables of an automaton.
LEMMA GroupOfAutomaton ==
    ASSUME NEW k, IsBuilt(k)
    PROVE  /\ IsList(state_variables[k]) /\ Len(state_variables[k]) = Width(k)
           /\ DOMAIN state_variables[k] = 1 .. Width(k)
           /\ \A i \in 1 .. Width(k) : state_variables[k][i] = Offset(k) + i - 1
           /\ GroupOf(dfas[k]) = state_variables[k]
<1>1. Width(k) \in Nat
  BY ExplicitAutomaton
<1>2. state_variables[k] = [i \in 1 .. Width(k) |-> Offset(k) + i - 1]
  BY DEF IsBuilt
<1>3. state_variables[k] = [i \in 1 .. Width(k) |-> state_variables[k][i]]
  BY <1>2
<1>4. \A i \in 1 .. Width(k) : state_variables[k][i] = Offset(k) + i - 1
  BY <1>2
<1>5. GroupOf(dfas[k]) = state_variables[k]
  BY DEF IsBuilt, GroupOf
<1>. QED  BY <1>1, <1>3, <1>4, <1>5, ListOf

\* The valuations of a state.
LEMMA ValuationsOfState ==
    ASSUME NEW k, IsBuilt(k), NEW state \in Nat, NEW v \in Valuations
    PROVE  v \in state_to_bdd(state_variables[k], state) <=> Encodes(k, v, state)
<1>1. Width(k) \in Nat
  BY ExplicitAutomaton
<1>2. DOMAIN state_to_binary(state, Width(k)) = 1 .. Width(k)
  BY DEF state_to_binary
<1>3. v \in state_to_bdd(state_variables[k], state) <=>
          \A i \in 1 .. Width(k) : v[state_variables[k][i]] = state_to_binary(state, Width(k))[i]
  BY <1>2, GroupOfAutomaton DEF state_to_bdd, state_vector_to_bdd
<1>. QED  BY <1>3, GroupOfAutomaton DEF Encodes

\* They are of one state only.
LEMMA OneState ==
    ASSUME NEW k, IsBuilt(k), NEW v,
           NEW a \in StatesOf(bases[k].dfa), NEW b \in StatesOf(bases[k].dfa),
           Encodes(k, v, a), Encodes(k, v, b)
    PROVE  a = b
<1>. DEFINE count == bases[k].dfa.state_count
            n == Width(k)
<1>1. count \in Nat \ {0} /\ n \in Nat
  BY ExplicitAutomaton
<1>2. a \in 0 .. count - 1 /\ b \in 0 .. count - 1 /\ n = bit_count_of(count)
  BY DEF StatesOf, Width
<1>3. \A i \in 1 .. n : state_to_binary(a, n)[i] = state_to_binary(b, n)[i]
  BY DEF Encodes
<1>. HIDE DEF count, n
<1>4. state_to_binary(a, n) = state_to_binary(b, n)
  <2>1. a \in Nat /\ b \in Nat
    BY <1>1, <1>2
  <2>2. state_to_binary(a, n) \in [1 .. n -> {0, 1}] /\ state_to_binary(b, n) \in [1 .. n -> {0, 1}]
    BY <1>1, <2>1, Bits01
  <2>3. ASSUME NEW S, NEW p \in [S -> {0, 1}], NEW q \in [S -> {0, 1}], \A i \in S : p[i] = q[i]
        PROVE  p = q
    BY <2>3
  <2>. QED  BY <1>3, <2>2, <2>3
<1>. QED  BY <1>1, <1>2, <1>4, EncodingIsInjective

\* The final states of the automaton.
LEMMA FinalStatesOfAutomaton ==
    ASSUME NEW k, IsBuilt(k), NEW v \in Valuations,
           NEW state \in StatesOf(bases[k].dfa), Encodes(k, v, state)
    PROVE  v \in dfas[k].final_states <=> state \in bases[k].dfa.final_states
<1>. DEFINE d == bases[k].dfa
            g == state_variables[k]
<1>1. d.final_states \subseteq StatesOf(d) /\ StatesOf(d) \subseteq Nat
  BY ExplicitAutomaton DEF StatesOf
<1>2. v \in dfas[k].final_states <=> \E other \in d.final_states : v \in state_to_bdd(g, other)
  BY DEF IsBuilt, state_set_to_bdd
<1>3. \A other \in d.final_states : v \in state_to_bdd(g, other) <=> Encodes(k, v, other)
  BY <1>1, ValuationsOfState
<1>4. \A other \in d.final_states : Encodes(k, v, other) => other = state
  BY <1>1, OneState
<1>. QED  BY <1>2, <1>3, <1>4

\* Each component of the transition function gives the bit of the next state.
LEMMA TransitionsOfAutomaton ==
    ASSUME NEW k, IsBuilt(k)
    PROVE  /\ IsList(dfas[k].transition_function)
           /\ Len(dfas[k].transition_function) = Width(k)
           /\ \A v \in Valuations, state \in StatesOf(bases[k].dfa), letter \in Alphabet :
                Encodes(k, v, state) => \A i \in 1 .. Width(k) :
                    <<v, letter>> \in dfas[k].transition_function[i] <=>
                        state_to_binary(NextState(k, state, letter), Width(k))[i] = 1
<1>. DEFINE d == bases[k].dfa
            g == state_variables[k]
            e == from_dfa_mona(d)
            tf == dfas[k].transition_function
            part(i, j) == {m \in state_to_bdd(g, j) \X Alphabet :
                    state_to_binary(e.transition_function[j][m[2]], Width(k))[i] = 1}
<1>1. /\ Width(k) \in Nat /\ DOMAIN g = 1 .. Width(k) /\ Len(g) = Width(k)
      /\ StatesOf(d) \subseteq Nat
  BY ExplicitAutomaton, GroupOfAutomaton DEF StatesOf
<1>2. e.transition_function = [state \in StatesOf(d) |-> [letter \in Alphabet |->
            d.transition_function[state][seen(d.names, letter)]]]
  BY DEF from_dfa_mona
<1>3. tf = symbolic_transition_function(g, e)
  BY DEF IsBuilt
<1>. HIDE DEF d, g, e, tf
<1>4. tf = [i \in 1 .. Width(k) |-> UNION {part(i, j) : j \in StatesOf(d)}]
  BY <1>1, <1>2, <1>3 DEF symbolic_transition_function
<1>5. IsList(tf) /\ Len(tf) = Width(k)
  <2>1. tf = [i \in 1 .. Width(k) |-> tf[i]]
    BY <1>4
  <2>. QED  BY <1>1, <2>1, ListOf
<1>6. ASSUME NEW v \in Valuations, NEW state \in StatesOf(d), NEW letter \in Alphabet,
             Encodes(k, v, state), NEW i \in 1 .. Width(k)
      PROVE  <<v, letter>> \in tf[i] <=>
                state_to_binary(d.transition_function[state][seen(d.names, letter)], Width(k))[i] = 1
  <2>1. <<v, letter>> \in tf[i] <=> \E j \in StatesOf(d) : <<v, letter>> \in part(i, j)
    BY <1>4
  <2>2. \A j \in StatesOf(d) : <<v, letter>> \in part(i, j) <=>
            /\ v \in state_to_bdd(g, j)
            /\ state_to_binary(e.transition_function[j][letter], Width(k))[i] = 1
    OBVIOUS
  <2>3. \A j \in StatesOf(d) : v \in state_to_bdd(g, j) <=> Encodes(k, v, j)
    BY <1>1, ValuationsOfState DEF g, d
  <2>4. \A j \in StatesOf(d) : Encodes(k, v, j) <=> j = state
    BY <1>6, OneState DEF d
  <2>5. e.transition_function[state][letter] =
            d.transition_function[state][seen(d.names, letter)]
    BY <1>2
  <2>. HIDE DEF part
  <2>. QED  BY <2>1, <2>2, <2>3, <2>4, <2>5
<1>. QED  BY <1>5, <1>6 DEF d, tf, NextState

\* Where the k-th automaton starts.
LEMMA StartOfAutomaton ==
    ASSUME NEW k, IsBuilt(k)
    PROVE  /\ slugs_start(bases[k]).state \in StatesOf(bases[k].dfa)
           /\ slugs_start(bases[k]).out = FALSE
           /\ \A v \in Valuations : v \in initial_state_bdd(dfas[k]) <=>
                  Encodes(k, v, slugs_start(bases[k]).state)
<1>. DEFINE count == bases[k].dfa.state_count
<1>1. count \in Nat \ {0} /\ Width(k) = bit_count_of(count)
  BY ExplicitAutomaton DEF Width
<1>2. /\ slugs_start(bases[k]).state = IF count > 1 THEN 1 ELSE 0
      /\ slugs_start(bases[k]).out = FALSE
  BY DEF slugs_start, base_start
<1>. HIDE DEF count
<1>3. slugs_start(bases[k]).state \in 0 .. count - 1 /\ slugs_start(bases[k]).out = FALSE
  BY <1>1, <1>2
<1>4. \A v : Encodes(k, v, 1) <=> Encodes(k, v, slugs_start(bases[k]).state)
  <2>1. CASE count > 1
    BY <1>2, <2>1
  <2>2. CASE ~(count > 1)
    <3>1. count = 1
      BY <1>1, <2>2
    <3>2. Width(k) = 0
      BY <1>1, <3>1, BitCount
    <3>. QED  BY <3>2 DEF Encodes
  <2>. QED  BY <2>1, <2>2
<1>5. \A v \in Valuations : v \in initial_state_bdd(dfas[k]) <=> Encodes(k, v, 1)
  BY GroupOfAutomaton, ValuationsOfState DEF initial_state_bdd
<1>. QED  BY <1>3, <1>4, <1>5 DEF StatesOf, count

\* A base follows its explicit automaton and never leaves it.
LEMMA StepOfBase ==
    ASSUME NEW k, IsBuilt(k), NEW letter \in Alphabet, NEW at, NEW state \in StatesOf(bases[k].dfa),
           at = [state |-> state, out |-> FALSE]
    PROVE  base_step(bases[k], at, letter) = [state |-> NextState(k, state, letter), out |-> FALSE]
<1>1. /\ DOMAIN bases[k].moves = StatesOf(bases[k].dfa)
      /\ seen(bases[k].dfa.names, letter) \in bases[k].moves[state]
      /\ NextState(k, state, letter) \in StatesOf(bases[k].dfa)
  BY ExplicitAutomaton
<1>2. base_step(bases[k], at, letter) = [at EXCEPT !.state = NextState(k, state, letter)]
  BY <1>1 DEF base_step, NextState
<1>. QED  BY <1>2

-----------------------------------------------------------------------------
(* The arena *)

\* The places of the three automata in the order of their creation, and in the arena.
EnvAt == IndexOf("env_safety")
ReachAt == IndexOf("agn_reach")
SafetyAt == IndexOf("agn_safety")

Place(k) ==
    CASE k = EnvAt -> 0
      [] k = ReachAt -> Width(EnvAt)
      [] OTHER -> Width(EnvAt) + Width(ReachAt)

ArenaGroup == Group("env_safety") \o reach_safe_group

\* The arena, once it is built, and the names of its variables.
ArenaIsBuilt ==
    /\ \A k \in 1 .. 3 : IsBuilt(k)
    /\ dfas[4] = reach_safe /\ dfas[5] = arena /\ state_variables[5] = ArenaGroup
    /\ bdd_size = Offset(4) /\ bdd_size <= MaxVariables
    /\ state_variable_count = bdd_size /\ IsFiniteSet(Known)
    /\ \A index \in Indices : name_to_variable[StateName(index)] = index

\* Three values of three, all different, are all of them.
LEMMA AllOfThree ==
    ASSUME NEW a, NEW b, NEW c, NEW x \in {a, b, c}, NEW y \in {a, b, c}, NEW z \in {a, b, c},
           x # y, x # z, y # z
    PROVE  \A e \in {a, b, c} : e = x \/ e = y \/ e = z
OBVIOUS

\* Each role has a place of its own, and there are no others.
LEMMA PlacesOfRoles ==
    /\ EnvAt \in 1 .. 3 /\ ReachAt \in 1 .. 3 /\ SafetyAt \in 1 .. 3
    /\ EnvAt # ReachAt /\ EnvAt # SafetyAt /\ ReachAt # SafetyAt
    /\ \A k \in 1 .. 3 : k = EnvAt \/ k = ReachAt \/ k = SafetyAt
    /\ DfaOf("env_safety") = dfas[EnvAt] /\ DfaOf("agn_reach") = dfas[ReachAt]
    /\ DfaOf("agn_safety") = dfas[SafetyAt]
<1>1. /\ \A k \in 1 .. 3 : CreationOrder[k] \in Roles
      /\ \A j, k \in 1 .. 3 : CreationOrder[j] = CreationOrder[k] => j = k
  BY CreationOrderAssumption DEF IsInjective
<1>2. \A role \in Roles :
        role = CreationOrder[1] \/ role = CreationOrder[2] \/ role = CreationOrder[3]
  <2>1. /\ CreationOrder[1] \in Roles /\ CreationOrder[2] \in Roles /\ CreationOrder[3] \in Roles
        /\ CreationOrder[1] # CreationOrder[2] /\ CreationOrder[1] # CreationOrder[3]
        /\ CreationOrder[2] # CreationOrder[3]
    BY <1>1
  <2>2. Roles = {"env_safety", "agn_reach", "agn_safety"}
    BY DEF Roles
  <2>. QED  BY <2>1, <2>2, AllOfThree, Zenon
<1>3. \A role \in Roles : \E k \in 1 .. 3 : CreationOrder[k] = role
  BY <1>2
<1>4. \A role \in Roles : IndexOf(role) \in 1 .. 3 /\ CreationOrder[IndexOf(role)] = role
  BY <1>3 DEF IndexOf
<1>5. "env_safety" \in Roles /\ "agn_reach" \in Roles /\ "agn_safety" \in Roles
  BY DEF Roles
<1>6. /\ EnvAt \in 1 .. 3 /\ CreationOrder[EnvAt] = "env_safety"
      /\ ReachAt \in 1 .. 3 /\ CreationOrder[ReachAt] = "agn_reach"
      /\ SafetyAt \in 1 .. 3 /\ CreationOrder[SafetyAt] = "agn_safety"
  BY <1>4, <1>5 DEF EnvAt, ReachAt, SafetyAt
<1>7. EnvAt # ReachAt /\ EnvAt # SafetyAt /\ ReachAt # SafetyAt
  BY <1>6, Zenon
<1>8. \A k \in 1 .. 3 : k = EnvAt \/ k = ReachAt \/ k = SafetyAt
  BY <1>6, <1>7
<1>. QED  BY <1>6, <1>7, <1>8 DEF DfaOf, EnvAt, ReachAt, SafetyAt

\* The variables are those of the three automata, none of two of them; so are the
\* components of the arena.
LEMMA SizesOfPlaces ==
    ASSUME \A k \in 1 .. 3 : Width(k) \in Nat
    PROVE  /\ Offset(4) \in Nat /\ Offset(4) = Width(EnvAt) + (Width(ReachAt) + Width(SafetyAt))
           /\ \A k \in 1 .. 3 : /\ Offset(k) \in Nat /\ Offset(k) + Width(k) <= Offset(4)
                                /\ Place(k) \in Nat /\ Place(k) + Width(k) <= Offset(4)
           /\ Place(EnvAt) = 0 /\ Place(ReachAt) = Width(EnvAt)
           /\ Place(SafetyAt) = Width(EnvAt) + Width(ReachAt)
           /\ \A j \in 1 .. Offset(4) : \E k \in 1 .. 3 : \E i \in 1 .. Width(k) : j = Place(k) + i
           /\ \A j, k \in 1 .. 3 : \A p \in 1 .. Width(j), i \in 1 .. Width(k) :
                Offset(j) + p - 1 = Offset(k) + i - 1 => j = k /\ p = i
<1>. DEFINE e == Width(EnvAt)
            r == Width(ReachAt)
            f == Width(SafetyAt)
<1>1. e \in Nat /\ r \in Nat /\ f \in Nat /\ Width(1) \in Nat /\ Width(2) \in Nat /\ Width(3) \in Nat
  BY PlacesOfRoles
<1>2. Offset(1) = 0 /\ Offset(2) = Width(1) /\ Offset(3) = Width(1) + Width(2)
      /\ Offset(4) = Width(1) + Width(2) + Width(3)
  BY DEF Offset
<1>3. Offset(4) = e + (r + f)
  <2>1. /\ EnvAt = 1 \/ EnvAt = 2 \/ EnvAt = 3
        /\ ReachAt = 1 \/ ReachAt = 2 \/ ReachAt = 3
        /\ SafetyAt = 1 \/ SafetyAt = 2 \/ SafetyAt = 3
        /\ EnvAt # ReachAt /\ EnvAt # SafetyAt /\ ReachAt # SafetyAt
    BY PlacesOfRoles
  <2>. QED  BY <1>1, <1>2, <2>1
<1>4. /\ Place(EnvAt) = 0 /\ Place(ReachAt) = e /\ Place(SafetyAt) = e + r
  BY PlacesOfRoles DEF Place
<1>5. ASSUME NEW k \in 1 .. 3
      PROVE  /\ Offset(k) \in Nat /\ Offset(k) + Width(k) <= Offset(4)
             /\ Place(k) \in Nat /\ Place(k) + Width(k) <= Offset(4)
  <2>1. k = 1 \/ k = 2 \/ k = 3
    OBVIOUS
  <2>2. Offset(k) \in Nat /\ Offset(k) + Width(k) <= Offset(4)
    BY <1>1, <1>2, <2>1
  <2>3. k = EnvAt \/ k = ReachAt \/ k = SafetyAt
    BY PlacesOfRoles
  <2>4. Place(k) \in Nat /\ Place(k) + Width(k) <= Offset(4)
    BY <1>1, <1>3, <1>4, <2>3
  <2>. QED  BY <2>2, <2>4
<1>6. ASSUME NEW j \in 1 .. Offset(4)
      PROVE  \E k \in 1 .. 3 : \E i \in 1 .. Width(k) : j = Place(k) + i
  <2>. HIDE DEF e, r, f
  <2>1. CASE j <= e
    <3>1. j \in 1 .. e /\ j = 0 + j
      BY <1>1, <1>3, <2>1
    <3>2. j \in 1 .. Width(EnvAt) /\ j = Place(EnvAt) + j
      BY <1>4, <3>1 DEF e
    <3>. QED  BY <3>2, PlacesOfRoles
  <2>2. CASE ~(j <= e) /\ j <= e + r
    <3>1. PICK i : i \in 1 .. r /\ j = e + i
      <4>1. j - e \in 1 .. r /\ j = e + (j - e)
        BY <1>1, <1>3, <2>2
      <4>. QED  BY <4>1
    <3>2. i \in 1 .. Width(ReachAt) /\ j = Place(ReachAt) + i
      BY <1>4, <3>1 DEF r, e
    <3>. QED  BY <3>2, PlacesOfRoles
  <2>3. CASE ~(j <= e + r)
    <3>1. PICK i : i \in 1 .. f /\ j = (e + r) + i
      <4>1. j - (e + r) \in 1 .. f /\ j = (e + r) + (j - (e + r))
        BY <1>1, <1>3, <2>3
      <4>. QED  BY <4>1
    <3>2. i \in 1 .. Width(SafetyAt) /\ j = Place(SafetyAt) + i
      BY <1>4, <3>1 DEF r, e, f
    <3>. QED  BY <3>2, PlacesOfRoles
  <2>. QED  BY <2>1, <2>2, <2>3
<1>7. ASSUME NEW j \in 1 .. 3, NEW k \in 1 .. 3, NEW p \in 1 .. Width(j), NEW i \in 1 .. Width(k),
             Offset(j) + p - 1 = Offset(k) + i - 1
      PROVE  j = k /\ p = i
  <2>1. (j = 1 \/ j = 2 \/ j = 3) /\ (k = 1 \/ k = 2 \/ k = 3)
    OBVIOUS
  <2>2. j = k
    BY <1>1, <1>2, <1>7, <2>1
  <2>. QED  BY <1>1, <1>2, <1>7, <2>1, <2>2
<1>. QED  BY <1>1, <1>3, <1>4, <1>5, <1>6, <1>7

\* Lists of the three automata, joined as the arena joins them.
AreInPlace(s, x, y, z) ==
    /\ IsList(s) /\ Len(s) = Offset(4) /\ DOMAIN s = 1 .. Offset(4)
    /\ \A i \in 1 .. Width(EnvAt) : s[Place(EnvAt) + i] = x[i]
    /\ \A i \in 1 .. Width(ReachAt) : s[Place(ReachAt) + i] = y[i]
    /\ \A i \in 1 .. Width(SafetyAt) : s[Place(SafetyAt) + i] = z[i]

LEMMA JoinedInPlace ==
    ASSUME \A k \in 1 .. 3 : Width(k) \in Nat, NEW x, NEW y, NEW z,
           IsList(x), Len(x) = Width(EnvAt), IsList(y), Len(y) = Width(ReachAt),
           IsList(z), Len(z) = Width(SafetyAt)
    PROVE  AreInPlace(x \o (y \o z), x, y, z)
<1>. DEFINE e == Width(EnvAt)
            r == Width(ReachAt)
            f == Width(SafetyAt)
<1>1. /\ e \in Nat /\ r \in Nat /\ f \in Nat /\ Offset(4) = e + (r + f)
      /\ Place(EnvAt) = 0 /\ Place(ReachAt) = e /\ Place(SafetyAt) = e + r
  BY SizesOfPlaces, PlacesOfRoles
<1>2. Len(x) = e /\ Len(y) = r /\ Len(z) = f
  OBVIOUS
<1>. HIDE DEF e, r, f
<1>3. PICK u : u = y \o z
  OBVIOUS
<1>4. /\ IsList(u) /\ Len(u) = r + f
      /\ \A i \in 1 .. r : u[i] = y[i]
      /\ \A i \in 1 .. f : u[r + i] = z[i]
  <2>1. /\ IsList(y \o z) /\ Len(y \o z) = Len(y) + Len(z)
        /\ \A i \in 1 .. Len(y) : (y \o z)[i] = y[i]
        /\ \A i \in 1 .. Len(z) : (y \o z)[Len(y) + i] = z[i]
    <3>1. IsList(y) /\ IsList(z)
      OBVIOUS
    <3>. QED  BY ONLY <3>1, ListsJoined
  <2>. QED  BY ONLY <1>2, <1>3, <2>1
<1>5. PICK t : t = x \o u
  OBVIOUS
<1>6. /\ IsList(t) /\ Len(t) = e + (r + f)
      /\ \A i \in 1 .. e : t[i] = x[i]
      /\ \A i \in 1 .. r + f : t[e + i] = u[i]
  <2>1. /\ IsList(x \o u) /\ Len(x \o u) = Len(x) + Len(u)
        /\ \A i \in 1 .. Len(x) : (x \o u)[i] = x[i]
        /\ \A i \in 1 .. Len(u) : (x \o u)[Len(x) + i] = u[i]
    <3>1. IsList(x) /\ IsList(u)
      BY <1>4
    <3>. QED  BY ONLY <3>1, ListsJoined
  <2>. QED  BY ONLY <1>2, <1>4, <1>5, <2>1
<1>7. DOMAIN t = 1 .. Offset(4)
  BY <1>1, <1>6, ListProperties
<1>8. \A i \in 1 .. e : t[0 + i] = x[i]
  BY <1>1, <1>6
<1>9. ASSUME NEW i \in 1 .. r PROVE t[e + i] = y[i]
  <2>1. i \in 1 .. r + f
    BY <1>1
  <2>. QED  BY <1>4, <1>6, <2>1
<1>10. ASSUME NEW i \in 1 .. f PROVE t[(e + r) + i] = z[i]
  <2>1. r + i \in 1 .. r + f /\ (e + r) + i = e + (r + i)
    BY <1>1
  <2>2. t[e + (r + i)] = u[r + i] /\ u[r + i] = z[i]
    BY <1>4, <1>6, <2>1
  <2>. QED  BY <2>1, <2>2
<1>. QED  BY <1>1, <1>3, <1>5, <1>6, <1>7, <1>8, <1>9, <1>10 DEF AreInPlace, e, r, f

\* The widths of the automata of the arena.
LEMMA ArenaWidths ==
    ASSUME ArenaIsBuilt
    PROVE  \A k \in 1 .. 3 : IsBuilt(k) /\ Width(k) \in Nat
BY ExplicitAutomaton DEF ArenaIsBuilt

\* The variables of the arena.
LEMMA ArenaVariables ==
    ASSUME ArenaIsBuilt
    PROVE  /\ IsList(state_variables[5]) /\ Len(state_variables[5]) = bdd_size
           /\ \A k \in 1 .. 3 : \A i \in 1 .. Width(k) :
                state_variables[5][Place(k) + i] = Offset(k) + i - 1
<1>. DEFINE x == state_variables[EnvAt]
            y == state_variables[ReachAt]
            z == state_variables[SafetyAt]
<1>1. \A k \in 1 .. 3 : /\ IsList(state_variables[k]) /\ Len(state_variables[k]) = Width(k)
                        /\ GroupOf(dfas[k]) = state_variables[k]
                        /\ \A i \in 1 .. Width(k) : state_variables[k][i] = Offset(k) + i - 1
  BY ArenaWidths, GroupOfAutomaton
<1>2. state_variables[5] = x \o (y \o z)
  <2>1. /\ Group("env_safety") = x /\ Group("agn_reach") = y /\ Group("agn_safety") = z
    BY <1>1, PlacesOfRoles DEF Group
  <2>. QED  BY <2>1 DEF ArenaIsBuilt, ArenaGroup, reach_safe_group
<1>3. /\ IsList(x) /\ Len(x) = Width(EnvAt) /\ IsList(y) /\ Len(y) = Width(ReachAt)
      /\ IsList(z) /\ Len(z) = Width(SafetyAt)
      /\ \A i \in 1 .. Width(EnvAt) : x[i] = Offset(EnvAt) + i - 1
      /\ \A i \in 1 .. Width(ReachAt) : y[i] = Offset(ReachAt) + i - 1
      /\ \A i \in 1 .. Width(SafetyAt) : z[i] = Offset(SafetyAt) + i - 1
  BY <1>1, PlacesOfRoles
<1>. HIDE DEF x, y, z
<1>4. AreInPlace(state_variables[5], x, y, z)
  BY <1>2, <1>3, ArenaWidths, JoinedInPlace
<1>5. ASSUME NEW k \in 1 .. 3, NEW i \in 1 .. Width(k)
      PROVE  state_variables[5][Place(k) + i] = Offset(k) + i - 1
  <2>1. k = EnvAt \/ k = ReachAt \/ k = SafetyAt
    BY PlacesOfRoles
  <2>. QED  BY <1>3, <1>4, <2>1 DEF AreInPlace
<1>. QED  BY <1>4, <1>5 DEF ArenaIsBuilt, AreInPlace

Unsafety == Valuations \ safe_region

\* The components of the arena: those of the environment's automaton, then those of
\* the agent's automata, with sinks.
LEMMA ArenaComponents ==
    ASSUME ArenaIsBuilt
    PROVE  /\ bdd_size \in Nat /\ DOMAIN dfas[5].transition_function = 1 .. bdd_size
           /\ dfas[5].automaton_id = 5
           /\ \A i \in 1 .. Width(EnvAt) :
                /\ i \in 1 .. bdd_size
                /\ dfas[5].transition_function[i] = dfas[EnvAt].transition_function[i]
           /\ \A k \in {ReachAt, SafetyAt} : \A i \in 1 .. Width(k) :
                /\ Place(k) + i \in 1 .. bdd_size
                /\ dfas[5].transition_function[Place(k) + i] =
                        {m \in dfas[k].transition_function[i] : m[1] \notin Unsafety}
                            \cup {v \in Unsafety : v[Offset(k) + i - 1] = 1} \X Alphabet
           /\ dfas[4].final_states = dfas[ReachAt].final_states \cap dfas[SafetyAt].final_states
<1>. DEFINE n1 == Width(EnvAt)
            n2 == Width(ReachAt)
            n3 == Width(SafetyAt)
            o2 == Offset(ReachAt)
            o3 == Offset(SafetyAt)
            t1 == dfas[EnvAt].transition_function
            t2 == dfas[ReachAt].transition_function
            t3 == dfas[SafetyAt].transition_function
            g2 == state_variables[ReachAt]
            g3 == state_variables[SafetyAt]
<1>0. IsBuilt(EnvAt) /\ IsBuilt(ReachAt) /\ IsBuilt(SafetyAt)
  BY PlacesOfRoles DEF ArenaIsBuilt
<1>1. n1 \in Nat /\ n2 \in Nat /\ n3 \in Nat
  BY <1>0, ExplicitAutomaton
<1>2. /\ IsList(t1) /\ Len(t1) = n1 /\ IsList(t2) /\ Len(t2) = n2 /\ IsList(t3) /\ Len(t3) = n3
  BY <1>0, TransitionsOfAutomaton
<1>3. /\ IsList(g2) /\ Len(g2) = n2 /\ IsList(g3) /\ Len(g3) = n3
      /\ \A i \in 1 .. n2 : g2[i] = o2 + i - 1
      /\ \A i \in 1 .. n3 : g3[i] = o3 + i - 1
  BY <1>0, GroupOfAutomaton
<1>4. reach_safe_group = g2 \o g3
  BY <1>0, PlacesOfRoles, GroupOfAutomaton DEF reach_safe_group, Group
<1>5. bdd_size = n1 + (n2 + n3) /\ Place(ReachAt) = n1 /\ Place(SafetyAt) = n1 + n2
  BY ArenaWidths, SizesOfPlaces DEF ArenaIsBuilt
<1>6. /\ dfas[4].transition_function = sink_bits(g2 \o g3, t2 \o t3, Unsafety)
      /\ dfas[4].final_states = dfas[ReachAt].final_states \cap dfas[SafetyAt].final_states
      /\ dfas[5].transition_function = t1 \o dfas[4].transition_function
      /\ dfas[5].automaton_id = 5
  <2>1. dfas[4] = [conjunction(dfas[ReachAt], dfas[SafetyAt]) EXCEPT
            !.automaton_id = 4,
            !.transition_function = sink_bits(g2 \o g3, @, Unsafety),
            !.purpose.sinks = Unsafety]
    BY <1>4, PlacesOfRoles DEF ArenaIsBuilt, reach_safe, Unsafety
  <2>2. dfas[5] = [conjunction(dfas[EnvAt], dfas[4]) EXCEPT !.automaton_id = 5]
    BY PlacesOfRoles DEF ArenaIsBuilt, arena
  <2>3. /\ dfas[4].transition_function =
                sink_bits(g2 \o g3, conjunction(dfas[ReachAt], dfas[SafetyAt]).transition_function, Unsafety)
        /\ dfas[4].final_states = conjunction(dfas[ReachAt], dfas[SafetyAt]).final_states
    BY <2>1 DEF conjunction
  <2>4. /\ dfas[5].transition_function = conjunction(dfas[EnvAt], dfas[4]).transition_function
        /\ dfas[5].automaton_id = 5
    BY <2>2 DEF conjunction
  <2>. QED  BY <2>3, <2>4 DEF conjunction
<1>. DEFINE t4 == dfas[4].transition_function
            t5 == dfas[5].transition_function
            g == g2 \o g3
            t == t2 \o t3
<1>. HIDE DEF n1, n2, n3, o2, o3, t1, t2, t3, g2, g3
<1>7. /\ DOMAIN g = 1 .. n2 + n3
      /\ \A i \in 1 .. n2 : g[i] = o2 + i - 1 /\ t[i] = t2[i]
      /\ \A i \in 1 .. n3 : g[n2 + i] = o3 + i - 1 /\ t[n2 + i] = t3[i]
  <2>1. /\ IsList(g) /\ Len(g) = n2 + n3
        /\ \A i \in 1 .. n2 : g[i] = g2[i]
        /\ \A i \in 1 .. n3 : g[n2 + i] = g3[i]
    <3>1. IsList(g2) /\ Len(g2) = n2 /\ IsList(g3) /\ Len(g3) = n3
      BY <1>3
    <3>. QED  BY <3>1, ListsJoined
  <2>2. DOMAIN g = 1 .. n2 + n3
    <3>. HIDE DEF g
    <3>. QED  BY <2>1, ListProperties
  <2>3. /\ \A i \in 1 .. n2 : t[i] = t2[i]
        /\ \A i \in 1 .. n3 : t[n2 + i] = t3[i]
    BY <1>2, ListsJoined
  <2>. HIDE DEF g, t
  <2>. QED  BY <1>3, <2>1, <2>2, <2>3
<1>8. t4 = [i \in 1 .. n2 + n3 |-> {m \in t[i] : m[1] \notin Unsafety}
                \cup {v \in Unsafety : v[g[i]] = 1} \X Alphabet]
  BY <1>6, <1>7 DEF sink_bits
<1>. HIDE DEF g, t
<1>9. IsList(t4) /\ Len(t4) = n2 + n3
  <2>1. n2 + n3 \in Nat /\ t4 = [i \in 1 .. n2 + n3 |-> t4[i]]
    BY <1>1, <1>8
  <2>. HIDE DEF t4
  <2>. QED  BY <2>1, ListOf
<1>10. /\ DOMAIN t5 = 1 .. n1 + (n2 + n3)
       /\ \A i \in 1 .. n1 : t5[i] = t1[i]
       /\ \A i \in 1 .. n2 + n3 : t5[n1 + i] = t4[i]
  <2>1. t5 = t1 \o t4
    BY <1>6
  <2>. HIDE DEF t4, t5
  <2>. QED  BY <1>2, <1>9, <2>1, ListsJoined
<1>11. bdd_size \in Nat /\ DOMAIN t5 = 1 .. bdd_size
  <2>1. n1 + (n2 + n3) = bdd_size
    BY <1>1, <1>5
  <2>. QED  BY <1>1, <1>5, <1>10, <2>1
<1>. HIDE DEF t4, t5
<1>12. \A i \in 1 .. n1 : i \in 1 .. bdd_size /\ t5[i] = t1[i]
  BY <1>1, <1>5, <1>10
<1>13. ASSUME NEW i \in 1 .. n2
       PROVE  /\ n1 + i \in 1 .. bdd_size
              /\ t5[n1 + i] = {m \in t2[i] : m[1] \notin Unsafety}
                    \cup {v \in Unsafety : v[o2 + i - 1] = 1} \X Alphabet
  <2>1. i \in 1 .. n2 + n3 /\ n1 + i \in 1 .. bdd_size
    BY <1>1, <1>5
  <2>2. t5[n1 + i] = t4[i] /\ g[i] = o2 + i - 1 /\ t[i] = t2[i]
    BY <1>7, <1>10, <2>1
  <2>. QED  BY <1>8, <2>1, <2>2
<1>14. ASSUME NEW i \in 1 .. n3
       PROVE  /\ (n1 + n2) + i \in 1 .. bdd_size
              /\ t5[(n1 + n2) + i] = {m \in t3[i] : m[1] \notin Unsafety}
                    \cup {v \in Unsafety : v[o3 + i - 1] = 1} \X Alphabet
  <2>1. n2 + i \in 1 .. n2 + n3 /\ (n1 + n2) + i \in 1 .. bdd_size /\ (n1 + n2) + i = n1 + (n2 + i)
    BY <1>1, <1>5
  <2>2. t5[n1 + (n2 + i)] = t4[n2 + i] /\ g[n2 + i] = o3 + i - 1 /\ t[n2 + i] = t3[i]
    BY <1>7, <1>10, <2>1
  <2>. QED  BY <1>8, <2>1, <2>2
<1>15. ASSUME NEW k \in {ReachAt, SafetyAt}, NEW i \in 1 .. Width(k)
       PROVE  /\ Place(k) + i \in 1 .. bdd_size
              /\ dfas[5].transition_function[Place(k) + i] =
                        {m \in dfas[k].transition_function[i] : m[1] \notin Unsafety}
                            \cup {v \in Unsafety : v[Offset(k) + i - 1] = 1} \X Alphabet
  <2>1. CASE k = ReachAt
    BY <1>5, <1>13, <2>1 DEF n2, t2, t5, o2
  <2>2. CASE k = SafetyAt
    BY <1>5, <1>14, <2>2 DEF n3, t3, t5, o3
  <2>. QED  BY <2>1, <2>2
<1>. QED  BY <1>6, <1>11, <1>12, <1>15 DEF n1, t1, t5

-----------------------------------------------------------------------------
(* The game that is printed, and a turn of the arena *)

\* The value a variable is printed to have next: what its component says.
LEMMA PrintedVariables ==
    ASSUME ArenaIsBuilt, NEW v \in Valuations, NEW letter
    PROVE  /\ printed_transitions(v, letter) \in Valuations
           /\ \A i \in 1 .. bdd_size :
                printed_transitions(v, letter)[i - 1] =
                    IF <<v, letter>> \in dfas[5].transition_function[i] THEN 1 ELSE 0
<1>. DEFINE tf == dfas[5].transition_function
            w == printed_transitions(v, letter)
            Of(i, variable) == name_to_variable[StateName(i - 1)] = variable
            at(variable) == CHOOSE i \in 1 .. bdd_size : Of(i, variable)
<1>1. bdd_size \in Nat /\ bdd_size <= MaxVariables /\ MaxVariables \in Nat /\ DOMAIN tf = 1 .. bdd_size
  BY ArenaComponents, BoundsAssumption DEF ArenaIsBuilt
<1>2. \A i \in 1 .. bdd_size : i - 1 \in Indices /\ i - 1 \in 0 .. MaxVariables - 1
  BY <1>1 DEF Indices
<1>3. \A i \in 1 .. bdd_size : name_to_variable[StateName(i - 1)] = i - 1
  BY <1>2 DEF ArenaIsBuilt
<1>4. w = [variable \in 0 .. MaxVariables - 1 |->
            IF \E i \in 1 .. bdd_size : Of(i, variable)
            THEN IF <<v, letter>> \in tf[at(variable)] THEN 1 ELSE 0
            ELSE v[variable]]
  <2>. HIDE DEF tf
  <2>. QED  BY <1>1 DEF printed_transitions, tf
<1>5. \A variable \in 0 .. MaxVariables - 1 : v[variable] \in {0, 1}
  BY DEF Valuations
<1>. HIDE DEF w, tf, at, Of
<1>6. w \in Valuations
  BY <1>4, <1>5 DEF Valuations
<1>7. ASSUME NEW i \in 1 .. bdd_size
      PROVE  w[i - 1] = IF <<v, letter>> \in tf[i] THEN 1 ELSE 0
  <2>1. \A j \in 1 .. bdd_size : Of(j, i - 1) <=> j = i
    BY <1>1, <1>3 DEF Of
  <2>2. at(i - 1) = i
    BY <2>1 DEF at
  <2>3. i - 1 \in 0 .. MaxVariables - 1
    BY <1>2
  <2>. QED  BY <1>4, <2>1, <2>2, <2>3
<1>. QED  BY <1>6, <1>7 DEF w, tf

\* Whether the agent is safe is a matter of its own variables.
LEMMA SafetyIsOfItsVariables ==
    ASSUME ArenaIsBuilt, NEW v \in Valuations, NEW w \in Valuations,
           \A i \in 1 .. Width(SafetyAt) : v[Offset(SafetyAt) + i - 1] = w[Offset(SafetyAt) + i - 1]
    PROVE  v \in safe_region <=> w \in safe_region
<1>. DEFINE k == SafetyAt
            d == bases[k].dfa
            g == state_variables[k]
<1>1. IsBuilt(k) /\ safe_region = dfas[k].final_states \cup initial_state_bdd(dfas[k])
  BY PlacesOfRoles DEF ArenaIsBuilt, safe_region
<1>2. \A state : Encodes(k, v, state) <=> Encodes(k, w, state)
  BY DEF Encodes
<1>. HIDE DEF k
<1>3. v \in initial_state_bdd(dfas[k]) <=> w \in initial_state_bdd(dfas[k])
  BY <1>1, <1>2, StartOfAutomaton
<1>4. d.final_states \subseteq Nat
  BY <1>1, ExplicitAutomaton DEF StatesOf
<1>5. \A state \in d.final_states : v \in state_to_bdd(g, state) <=> w \in state_to_bdd(g, state)
  BY <1>1, <1>2, <1>4, ValuationsOfState
<1>6. dfas[k].final_states = UNION {state_to_bdd(g, state) : state \in d.final_states}
  BY <1>1 DEF IsBuilt, state_set_to_bdd
<1>7. v \in dfas[k].final_states <=> w \in dfas[k].final_states
  BY <1>5, <1>6
<1>. QED  BY <1>1, <1>3, <1>7

\* What the components of the arena say: the bits of the environment's next state; those
\* of the agent's next states where the agent is safe, and the bits there are elsewhere.
LEMMA ComponentsInPlace ==
    ASSUME ArenaIsBuilt, NEW v \in Valuations, NEW letter \in Alphabet
    PROVE  /\ \A k \in 1 .. 3 : k = EnvAt \/ v \in safe_region =>
                \A state \in StatesOf(bases[k].dfa) : Encodes(k, v, state) =>
                    \A i \in 1 .. Width(k) :
                        <<v, letter>> \in dfas[5].transition_function[Place(k) + i] <=>
                            state_to_binary(NextState(k, state, letter), Width(k))[i] = 1
           /\ v \notin safe_region => \A i \in 1 .. Width(SafetyAt) :
                <<v, letter>> \in dfas[5].transition_function[Place(SafetyAt) + i] <=>
                    v[Offset(SafetyAt) + i - 1] = 1
<1>. DEFINE t5 == dfas[5].transition_function
<1>1. v \in Unsafety <=> v \notin safe_region
  BY DEF Unsafety
<1>2. ASSUME NEW i \in 1 .. Width(EnvAt)
      PROVE  t5[Place(EnvAt) + i] = dfas[EnvAt].transition_function[i]
  <2>1. i \in Nat /\ Place(EnvAt) = 0
    BY ArenaWidths, PlacesOfRoles, SizesOfPlaces
  <2>2. t5[i] = dfas[EnvAt].transition_function[i]
    BY ArenaComponents
  <2>3. Place(EnvAt) + i = i
    BY <2>1
  <2>. HIDE DEF t5
  <2>. QED  BY <2>2, <2>3
<1>3. ASSUME NEW k \in {ReachAt, SafetyAt}, NEW i \in 1 .. Width(k)
      PROVE  <<v, letter>> \in t5[Place(k) + i] <=>
                IF v \in safe_region THEN <<v, letter>> \in dfas[k].transition_function[i]
                                     ELSE v[Offset(k) + i - 1] = 1
  <2>1. t5[Place(k) + i] =
                {m \in dfas[k].transition_function[i] : m[1] \notin Unsafety}
                    \cup {u \in Unsafety : u[Offset(k) + i - 1] = 1} \X Alphabet
    BY ArenaComponents
  <2>. HIDE DEF t5
  <2>. QED  BY <1>1, <2>1
<1>4. ASSUME NEW k \in 1 .. 3, k = EnvAt \/ v \in safe_region,
             NEW state \in StatesOf(bases[k].dfa), Encodes(k, v, state), NEW i \in 1 .. Width(k)
      PROVE  <<v, letter>> \in t5[Place(k) + i] <=>
                state_to_binary(NextState(k, state, letter), Width(k))[i] = 1
  <2>1. <<v, letter>> \in dfas[k].transition_function[i] <=>
            state_to_binary(NextState(k, state, letter), Width(k))[i] = 1
    BY <1>4, ArenaWidths, TransitionsOfAutomaton
  <2>2. k = EnvAt \/ k = ReachAt \/ k = SafetyAt
    BY PlacesOfRoles
  <2>. HIDE DEF t5
  <2>3. <<v, letter>> \in t5[Place(k) + i] <=> <<v, letter>> \in dfas[k].transition_function[i]
    <3>1. CASE k = EnvAt
      BY <1>2, <3>1
    <3>2. CASE k # EnvAt
      BY <1>3, <1>4, <2>2, <3>2
    <3>. QED  BY <3>1, <3>2
  <2>. QED  BY <2>1, <2>3
<1>5. ASSUME v \notin safe_region, NEW i \in 1 .. Width(SafetyAt)
      PROVE  <<v, letter>> \in t5[Place(SafetyAt) + i] <=> v[Offset(SafetyAt) + i - 1] = 1
  BY <1>3, <1>5
<1>. QED  BY <1>4, <1>5

\* The value a variable of the arena has next: what its own component says.
LEMMA ArenaValues ==
    ASSUME ArenaIsBuilt, NEW v \in Valuations, NEW letter \in Alphabet,
           NEW w, w = next_valuation(dfas[5], v, letter)
    PROVE  /\ w \in Valuations
           /\ \A k \in 1 .. 3 : \A i \in 1 .. Width(k) :
                w[Offset(k) + i - 1] \in {0, 1} /\
                (w[Offset(k) + i - 1] = 1 <=>
                    <<v, letter>> \in dfas[5].transition_function[Place(k) + i])
<1>. DEFINE group == state_variables[5]
            t5 == dfas[5].transition_function
<1>1. /\ IsList(group) /\ Len(group) = bdd_size
      /\ \A k \in 1 .. 3 : \A i \in 1 .. Width(k) : group[Place(k) + i] = Offset(k) + i - 1
  BY ArenaVariables
<1>2. /\ \A k \in 1 .. 3 : Width(k) \in Nat /\ Offset(k) \in Nat /\ Offset(k) + Width(k) <= bdd_size
                           /\ Place(k) \in Nat /\ Place(k) + Width(k) <= bdd_size
      /\ \A j \in 1 .. bdd_size : \E k \in 1 .. 3 : \E i \in 1 .. Width(k) : j = Place(k) + i
      /\ \A j, k \in 1 .. 3 : \A p \in 1 .. Width(j), i \in 1 .. Width(k) :
                Offset(j) + p - 1 = Offset(k) + i - 1 => j = k /\ p = i
  BY ArenaWidths, SizesOfPlaces DEF ArenaIsBuilt
<1>3. /\ dfas[5].automaton_id = 5 /\ IsFiniteSet(Known) /\ bdd_size \in Nat
      /\ bdd_size <= MaxVariables /\ state_variable_count = bdd_size /\ MaxVariables \in Nat
  BY ArenaComponents, BoundsAssumption DEF ArenaIsBuilt
<1>4. ASSUME NEW j \in 1 .. Len(group) PROVE group[j] \in 0 .. bdd_size - 1
  <2>1. PICK k \in 1 .. 3 : \E i \in 1 .. Width(k) : j = Place(k) + i
    BY <1>1, <1>2
  <2>2. PICK i \in 1 .. Width(k) : j = Place(k) + i
    BY <2>1
  <2>3. group[j] = Offset(k) + i - 1
    BY <1>1, <2>2
  <2>4. Width(k) \in Nat /\ Offset(k) \in Nat /\ Offset(k) + Width(k) <= bdd_size
    BY <1>2
  <2>. HIDE DEF group
  <2>. QED  BY <1>3, <2>3, <2>4
<1>5. NextValues(dfas[5], group, v, letter, w)
  BY <1>1, <1>3, <1>4, ComposedValues
<1>. HIDE DEF group
<1>6. ASSUME NEW k \in 1 .. 3, NEW i \in 1 .. Width(k)
      PROVE  /\ w[Offset(k) + i - 1] \in {0, 1}
             /\ w[Offset(k) + i - 1] = 1 <=> <<v, letter>> \in t5[Place(k) + i]
  <2>1. Place(k) + i \in 1 .. Len(group) /\ Offset(k) + i - 1 \in 0 .. MaxVariables - 1
    <3>1. /\ Width(k) \in Nat /\ Offset(k) \in Nat /\ Offset(k) + Width(k) <= bdd_size
          /\ Place(k) \in Nat /\ Place(k) + Width(k) <= bdd_size
      BY <1>2
    <3>. QED  BY <1>1, <1>3, <3>1
  <2>2. PICK j \in 1 .. Len(group) :
            /\ group[j] = group[Place(k) + i]
            /\ w[group[Place(k) + i]] = 1 <=> <<v, letter>> \in t5[j]
    BY <1>5, <2>1 DEF NextValues
  <2>3. PICK h \in 1 .. 3 : \E p \in 1 .. Width(h) : j = Place(h) + p
    BY <1>1, <1>2
  <2>4. PICK p \in 1 .. Width(h) : j = Place(h) + p
    BY <2>3
  <2>5. Offset(h) + p - 1 = Offset(k) + i - 1
    BY <1>1, <2>2, <2>4
  <2>6. j = Place(k) + i
    <3>1. \A a, b \in 1 .. 3 : \A l \in 1 .. Width(a), m \in 1 .. Width(b) :
                Offset(a) + l - 1 = Offset(b) + m - 1 => a = b /\ l = m
      BY <1>2
    <3>2. h = k /\ p = i
      BY <2>5, <3>1, Zenon
    <3>. QED  BY <2>4, <3>2
  <2>7. group[Place(k) + i] = Offset(k) + i - 1
    BY <1>1
  <2>8. w[Offset(k) + i - 1] \in {0, 1}
    BY <1>5, <2>1 DEF NextValues, Valuations
  <2>. QED  BY <2>2, <2>6, <2>7, <2>8
<1>. QED  BY <1>5, <1>6 DEF NextValues

\* The bits of a state are bits.
LEMMA BitsOfNext ==
    ASSUME NEW k, IsBuilt(k), NEW state \in StatesOf(bases[k].dfa), NEW letter \in Alphabet
    PROVE  /\ IsList(state_to_binary(NextState(k, state, letter), Width(k)))
           /\ Len(state_to_binary(NextState(k, state, letter), Width(k))) = Width(k)
           /\ \A i \in 1 .. Width(k) :
                state_to_binary(NextState(k, state, letter), Width(k))[i] \in {0, 1}
<1>. DEFINE bits == state_to_binary(NextState(k, state, letter), Width(k))
<1>1. NextState(k, state, letter) \in Nat /\ Width(k) \in Nat
  BY ExplicitAutomaton DEF StatesOf
<1>2. bits \in [1 .. Width(k) -> {0, 1}]
  BY <1>1, Bits01
<1>. HIDE DEF bits
<1>3. bits = [i \in 1 .. Width(k) |-> bits[i]] /\ \A i \in 1 .. Width(k) : bits[i] \in {0, 1}
  BY <1>2
<1>4. IsList(bits) /\ Len(bits) = Width(k)
  BY <1>1, <1>3, ListOf
<1>. QED  BY <1>3, <1>4 DEF bits

\* One turn of the arena: the environment's automaton goes to its next state, the
\* agent's do as long as the agent is safe, and it is never safe again once it is not.
LEMMA TurnOfArena ==
    ASSUME ArenaIsBuilt, NEW v \in Valuations, NEW letter \in Alphabet,
           NEW w, w = next_valuation(dfas[5], v, letter)
    PROVE  /\ w \in Valuations
           /\ \A k \in 1 .. 3 : k = EnvAt \/ v \in safe_region =>
                \A state \in StatesOf(bases[k].dfa) :
                    Encodes(k, v, state) => Encodes(k, w, NextState(k, state, letter))
           /\ v \notin safe_region => w \notin safe_region
<1>. DEFINE t5 == dfas[5].transition_function
<1>1. /\ w \in Valuations
      /\ \A k \in 1 .. 3 : \A i \in 1 .. Width(k) :
            w[Offset(k) + i - 1] \in {0, 1} /\
            (w[Offset(k) + i - 1] = 1 <=> <<v, letter>> \in t5[Place(k) + i])
  BY ArenaValues
<1>2. ASSUME NEW k \in 1 .. 3, k = EnvAt \/ v \in safe_region,
             NEW state \in StatesOf(bases[k].dfa), Encodes(k, v, state), NEW i \in 1 .. Width(k)
      PROVE  w[Offset(k) + i - 1] = state_to_binary(NextState(k, state, letter), Width(k))[i]
  <2>1. <<v, letter>> \in t5[Place(k) + i] <=>
            state_to_binary(NextState(k, state, letter), Width(k))[i] = 1
    BY <1>2, ComponentsInPlace
  <2>2. state_to_binary(NextState(k, state, letter), Width(k))[i] \in {0, 1}
    BY ArenaWidths, BitsOfNext
  <2>3. /\ w[Offset(k) + i - 1] \in {0, 1}
        /\ w[Offset(k) + i - 1] = 1 <=> <<v, letter>> \in t5[Place(k) + i]
    BY <1>1
  <2>. QED  BY <2>1, <2>2, <2>3
<1>3. ASSUME v \notin safe_region PROVE w \notin safe_region
  <2>1. ASSUME NEW i \in 1 .. Width(SafetyAt)
        PROVE  v[Offset(SafetyAt) + i - 1] = w[Offset(SafetyAt) + i - 1]
    <3>1. /\ w[Offset(SafetyAt) + i - 1] \in {0, 1}
          /\ w[Offset(SafetyAt) + i - 1] = 1 <=> v[Offset(SafetyAt) + i - 1] = 1
      BY <1>1, <1>3, ComponentsInPlace, PlacesOfRoles
    <3>2. Offset(SafetyAt) + i - 1 \in 0 .. MaxVariables - 1
      <4>1. /\ Offset(SafetyAt) \in Nat /\ Width(SafetyAt) \in Nat
            /\ Offset(SafetyAt) + Width(SafetyAt) <= bdd_size /\ bdd_size \in Nat
        BY ArenaWidths, PlacesOfRoles, SizesOfPlaces DEF ArenaIsBuilt
      <4>. QED  BY <4>1, BoundsAssumption DEF ArenaIsBuilt
    <3>3. v[Offset(SafetyAt) + i - 1] \in {0, 1}
      BY <3>2 DEF Valuations
    <3>. QED  BY <3>1, <3>3
  <2>. QED  BY <1>1, <1>3, <2>1, SafetyIsOfItsVariables
<1>. QED  BY <1>1, <1>2, <1>3 DEF Encodes

-----------------------------------------------------------------------------
(* Building the arena *)

\* What is built so far: automata over their own variables, one after the other,
\* whose names count up with their indices; then the arena.
ArenaInv ==
    /\ DictionaryInv /\ NextNamesAreFree
    /\ state_variable_count = bdd_size /\ bdd_size <= MaxVariables
    /\ \A index \in Indices :
            StateName(index) \in Known /\ name_to_variable[StateName(index)] = index
    /\ IsList(bases) /\ IsList(dfas) /\ IsList(state_variables)
    /\ Len(state_variables) = Len(dfas)
    /\ \/ Len(dfas) \in 0 .. 3 /\ Len(bases) = Len(dfas)
       \/ /\ Len(dfas) = 5 /\ Len(bases) = 3
          /\ dfas[4] = reach_safe /\ dfas[5] = arena /\ state_variables[5] = ArenaGroup
    /\ IsFiniteSet(Known)
    /\ bdd_size = Offset(Len(bases) + 1)
    /\ \A k \in 1 .. Len(bases) : IsBuilt(k)

\* An automaton stays what it is as long as those before it do.
LEMMA StillBuilt ==
    ASSUME NEW k \in 1 .. 3, IsBuilt(k), \A j \in 1 .. k : bases'[j] = bases[j],
           dfas'[k] = dfas[k], state_variables'[k] = state_variables[k]
    PROVE  IsBuilt(k)' /\ Offset(k)' = Offset(k)
<1>1. \A j \in 1 .. k : Width(j)' = Width(j)
  BY DEF Width
<1>2. Offset(k)' = Offset(k)
  <2>1. CASE k = 1
    BY <2>1 DEF Offset
  <2>2. CASE k = 2
    <3>1. Width(1)' = Width(1)
      BY <1>1, <2>2
    <3>. QED  BY <2>2, <3>1 DEF Offset
  <2>3. CASE k = 3
    <3>1. Width(1)' = Width(1) /\ Width(2)' = Width(2)
      BY <1>1, <2>3
    <3>. QED  BY <2>3, <3>1 DEF Offset
  <2>. QED  BY <2>1, <2>2, <2>3
<1>3. Width(k)' = Width(k) /\ bases'[k] = bases[k]
  BY <1>1
<1>. QED  BY <1>2, <1>3 DEF IsBuilt

\* The arena is made of the three automata only.
LEMMA ArenaStays ==
    ASSUME \A k \in 1 .. 3 : /\ dfas[k].automaton_id = k /\ dfas'[k] = dfas[k]
                             /\ state_variables'[k] = state_variables[k]
    PROVE  reach_safe' = reach_safe /\ arena' = arena /\ ArenaGroup' = ArenaGroup
           /\ reach_safe_group' = reach_safe_group
<1>1. IndexOf("env_safety") \in 1 .. 3 /\ IndexOf("agn_reach") \in 1 .. 3
      /\ IndexOf("agn_safety") \in 1 .. 3
  BY PlacesOfRoles DEF EnvAt, ReachAt, SafetyAt
<1>2. ASSUME NEW role \in Roles
      PROVE  DfaOf(role)' = DfaOf(role) /\ Group(role)' = Group(role)
             /\ initial_state_bdd(DfaOf(role))' = initial_state_bdd(DfaOf(role))
  <2>1. IndexOf(role) \in 1 .. 3
    BY <1>1 DEF Roles
  <2>2. DfaOf(role)' = DfaOf(role)
    BY <2>1 DEF DfaOf
  <2>3. DfaOf(role).automaton_id \in 1 .. 3
    BY <2>1 DEF DfaOf
  <2>4. GroupOf(DfaOf(role))' = GroupOf(DfaOf(role))
    BY <2>2, <2>3 DEF GroupOf
  <2>. QED  BY <2>2, <2>4 DEF Group, initial_state_bdd
<1>3. /\ DfaOf("env_safety")' = DfaOf("env_safety") /\ DfaOf("agn_reach")' = DfaOf("agn_reach")
      /\ DfaOf("agn_safety")' = DfaOf("agn_safety")
      /\ Group("env_safety")' = Group("env_safety")
      /\ Group("agn_reach")' = Group("agn_reach") /\ Group("agn_safety")' = Group("agn_safety")
      /\ initial_state_bdd(DfaOf("agn_safety"))' = initial_state_bdd(DfaOf("agn_safety"))
  BY <1>2 DEF Roles
<1>4. safe_region' = safe_region /\ reach_safe_group' = reach_safe_group
  BY <1>3 DEF safe_region, reach_safe_group
<1>5. reach_safe' = reach_safe
  BY <1>3, <1>4 DEF reach_safe
<1>6. ArenaGroup' = ArenaGroup
  BY <1>3, <1>4 DEF ArenaGroup
<1>. QED  BY <1>3, <1>4, <1>5, <1>6 DEF arena

\* Nothing is built and nothing played at first.
LEMMA InitArena == DfaInit => ArenaInv /\ played = 0
<1>. SUFFICES ASSUME DfaInit PROVE ArenaInv /\ played = 0
  OBVIOUS
<1>1. Init /\ dfas = <<>> /\ bases = <<>> /\ played = 0
  BY DEF DfaInit
<1>2. DictionaryInv /\ NextNamesAreFree
  BY <1>1, InitDictionary
<1>3. bdd_size = 0 /\ state_variable_count = 0 /\ state_variables = <<>>
  BY <1>1 DEF Init
<1>4. IsList(<<>>) /\ Len(<<>>) = 0
  BY DEF IsList
<1>5. Indices = {} /\ Offset(0 + 1) = 0 /\ bdd_size <= MaxVariables
  BY <1>3, BoundsAssumption DEF Indices, Offset
<1>6. Len(bases) = 0 /\ 1 .. Len(bases) = {}
  BY <1>1, <1>4
<1>7. Offset(Len(bases) + 1) = 0
  BY <1>5, <1>6
<1>8. IsFiniteSet(Known)
  BY <1>1, FS_EmptySet DEF Init, Known
<1>. QED  BY <1>1, <1>2, <1>3, <1>4, <1>5, <1>6, <1>7, <1>8 DEF ArenaInv

\* Building an automaton.
LEMMA AutomatonBuilt ==
    ASSUME StateNamesAreDistinct, ArenaInv, NEW d \in FormulaDfas, BuildAutomaton(d)
    PROVE  ArenaInv' /\ played' = 0
<1>. DEFINE n == bit_count_of(d.state_count)
            group == new_state_variables(n)
            e == from_dfa_mona(d)
<1>0. /\ DictionaryInv /\ NextNamesAreFree /\ bdd_size \in Nat
      /\ IsList(bases) /\ IsList(dfas) /\ IsList(state_variables)
      /\ Len(dfas) \in 0 .. 2 /\ Len(bases) = Len(dfas) /\ Len(state_variables) = Len(dfas)
  BY ListProperties DEF ArenaInv, BuildAutomaton, DictionaryInv
<1>1. PICK new \in 1 .. 3 : new = Len(dfas) + 1
  <2>1. Len(dfas) \in 0 .. 2
    BY <1>0
  <2>2. \A built \in 0 .. 2 : built + 1 \in 1 .. 3
    OBVIOUS
  <2>. QED  BY <2>1, <2>2, Zenon
<1>2. d.state_count \in Nat \ {0} /\ n \in Nat
  <2>1. IsExplicitDfa(d)
    BY SymbolicAssumption
  <2>. QED  BY <2>1, BitCount DEF IsExplicitDfa
<1>3. e.state_count = d.state_count /\ e.final_states = d.final_states
  BY DEF from_dfa_mona
<1>4. PICK automaton :
        /\ dfas' = Append(dfas, automaton) /\ played = 0 /\ played' = played
        /\ automaton.automaton_id = new
        /\ automaton.final_states = state_set_to_bdd(group, d.final_states)
        /\ automaton.transition_function = symbolic_transition_function(group, e)
  BY <1>0, <1>1, <1>3 DEF BuildAutomaton, from_explicit, Build, play
<1>5. /\ create_state_variables(n)
      /\ bases' = Append(bases, Whole(d))
  BY <1>3 DEF BuildAutomaton, from_explicit
<1>. HIDE DEF n, group, e
<1>6. /\ bdd_size + n <= MaxVariables /\ register(state_names(n))
      /\ state_variables' = Append(state_variables, group)
      /\ state_variable_count' = state_variable_count + n
  BY <1>5 DEF create_state_variables, group
<1>7. /\ Known' = Known \cup NewStateNames(n)
      /\ bdd_size' = bdd_size + n
      /\ DictionaryInv' /\ EntriesStay
      /\ \A i \in 0 .. n - 1 : name_to_variable'[StateName(state_variable_count + i)] = bdd_size + i
  BY <1>0, <1>2, <1>6, StateVariablesRegistered
<1>8. NextNamesAreFree'
  BY <1>0, <1>2, <1>6, <1>7, NextNamesStayFree
<1>9. state_variable_count' = bdd_size' /\ bdd_size' <= MaxVariables
  BY <1>6, <1>7 DEF ArenaInv
<1>10. ASSUME NEW index \in Indices'
       PROVE  (StateName(index) \in Known)' /\ name_to_variable'[StateName(index)] = index
  <2>1. CASE index \in Indices
    BY <1>7, <2>1 DEF EntriesStay, ArenaInv
  <2>2. CASE index \notin Indices
    <3>1. index - bdd_size \in 0 .. n - 1 /\ bdd_size + (index - bdd_size) = index
      BY <1>0, <1>2, <1>7, <2>2 DEF Indices
    <3>2. state_variable_count = bdd_size
      BY DEF ArenaInv
    <3>3. StateName(state_variable_count + (index - bdd_size)) \in NewStateNames(n)
      BY <3>1 DEF NewStateNames
    <3>. QED  BY <1>7, <3>1, <3>2, <3>3
  <2>. QED  BY <2>1, <2>2
<1>11. /\ IsList(bases') /\ IsList(dfas') /\ IsList(state_variables')
       /\ Len(bases') = new /\ Len(dfas') = new /\ Len(state_variables') = new
       /\ \A k \in 1 .. Len(dfas) : /\ bases'[k] = bases[k] /\ dfas'[k] = dfas[k]
                                    /\ state_variables'[k] = state_variables[k]
       /\ bases'[new] = Whole(d) /\ dfas'[new] = automaton /\ state_variables'[new] = group
  <2>1. /\ IsList(bases') /\ Len(bases') = new /\ bases'[new] = Whole(d)
        /\ \A k \in 1 .. Len(dfas) : bases'[k] = bases[k]
    BY <1>0, <1>1, <1>5, ListAppended
  <2>2. /\ IsList(dfas') /\ Len(dfas') = new /\ dfas'[new] = automaton
        /\ \A k \in 1 .. Len(dfas) : dfas'[k] = dfas[k]
    BY <1>0, <1>1, <1>4, ListAppended
  <2>3. /\ IsList(state_variables') /\ Len(state_variables') = new /\ state_variables'[new] = group
        /\ \A k \in 1 .. Len(dfas) : state_variables'[k] = state_variables[k]
    BY <1>0, <1>1, <1>6, ListAppended
  <2>. QED  BY <2>1, <2>2, <2>3
<1>12. \A k \in 1 .. Len(dfas) : IsBuilt(k)' /\ Width(k)' = Width(k)
  <2>. SUFFICES ASSUME NEW k \in 1 .. Len(dfas) PROVE IsBuilt(k)' /\ Width(k)' = Width(k)
    OBVIOUS
  <2>1. k \in 1 .. 3 /\ IsBuilt(k) /\ \A j \in 1 .. k : j \in 1 .. Len(dfas)
    BY <1>0 DEF ArenaInv
  <2>. QED  BY <1>11, <2>1, StillBuilt DEF Width
<1>13. bdd_size = Offset(new) /\ Offset(new)' = Offset(new) /\ Width(new)' = n
  <2>1. bdd_size = Offset(new)
    BY <1>0, <1>1 DEF ArenaInv
  <2>2. Width(new)' = n
    <3>1. bases'[new].dfa = d
      BY <1>11 DEF Whole
    <3>. QED  BY <3>1 DEF Width, n
  <2>3. Offset(new)' = Offset(new)
    <3>1. CASE new = 1
      BY <3>1 DEF Offset
    <3>2. CASE new = 2
      <4>1. Width(1)' = Width(1)
        BY <1>1, <1>12, <3>2
      <4>. QED  BY <3>2, <4>1 DEF Offset
    <3>3. CASE new = 3
      <4>1. Width(1)' = Width(1) /\ Width(2)' = Width(2)
        BY <1>1, <1>12, <3>3
      <4>. QED  BY <3>3, <4>1 DEF Offset
    <3>. QED  BY <1>1, <3>1, <3>2, <3>3
  <2>. QED  BY <2>1, <2>2, <2>3
<1>14. IsBuilt(new)'
  <2>1. group = [i \in 1 .. n |-> bdd_size + i - 1]
    BY DEF group, new_state_variables
  <2>2. bases'[new].dfa = d /\ bases'[new] = Whole(d)
    BY <1>11 DEF Whole
  <2>. QED  BY <1>4, <1>11, <1>13, <2>1, <2>2 DEF IsBuilt, e
<1>15. bdd_size' = Offset(Len(bases) + 1)'
  <2>1. bdd_size' = Offset(new)' + Width(new)'
    BY <1>7, <1>13
  <2>2. \A k \in 1 .. Len(dfas) : Width(k) \in Nat
    BY <1>0, ExplicitAutomaton DEF ArenaInv
  <2>3. CASE new = 1
    BY <1>2, <1>11, <1>13, <2>1, <2>3 DEF Offset
  <2>4. CASE new = 2
    BY <1>2, <1>11, <1>13, <2>1, <2>4 DEF Offset
  <2>5. CASE new = 3
    BY <1>2, <1>11, <1>13, <2>1, <2>5 DEF Offset
  <2>. QED  BY <1>1, <2>3, <2>4, <2>5
<1>16. \A k \in 1 .. Len(bases') : IsBuilt(k)'
  <2>1. \A k \in 1 .. Len(bases') : k \in 1 .. Len(dfas) \/ k = new
    BY <1>0, <1>1, <1>11
  <2>. QED  BY <1>12, <1>14, <2>1
<1>17. Len(dfas') \in 0 .. 3 /\ Len(bases') = Len(dfas') /\ Len(state_variables') = Len(dfas')
  BY <1>1, <1>11
<1>18. IsFiniteSet(Known')
  <2>1. IsFiniteSet(Known)
    BY DEF ArenaInv
  <2>2. state_variable_count \in Nat
    BY DEF ArenaInv, NextNamesAreFree
  <2>3. IsFiniteSet(NewStateNames(n))
    BY <1>2, <2>2, NewStateNamesAreFinite
  <2>. QED  BY <1>7, <2>1, <2>3, FS_Union
<1>. QED  BY <1>4, <1>7, <1>8, <1>9, <1>10, <1>11, <1>15, <1>16, <1>17, <1>18 DEF ArenaInv

\* Steps that build nothing.
LEMMA ArenaUnchanged ==
    ASSUME ArenaInv, UNCHANGED <<vars, dfas, bases>>
    PROVE  ArenaInv'
<1>1. /\ UNCHANGED <<bdd_size, name_to_variable, index_to_name, state_variable_count>>
      /\ UNCHANGED <<state_variables, dfas, bases>>
  BY DEF vars
<1>2. DictionaryInv' /\ NextNamesAreFree'
  BY <1>1 DEF ArenaInv, DictionaryInv, NextNamesAreFree, Known, Indices
<1>3. \A index \in Indices' :
            (StateName(index) \in Known)' /\ name_to_variable'[StateName(index)] = index
  BY <1>1 DEF ArenaInv, Known, Indices
<1>4. \A k : IsBuilt(k) => IsBuilt(k)'
  BY <1>1 DEF IsBuilt, Width, Offset
<1>5. Offset(Len(bases) + 1)' = Offset(Len(bases) + 1)
  BY <1>1 DEF Offset, Width
<1>6. ASSUME Len(dfas) = 5
      PROVE  reach_safe' = reach_safe /\ arena' = arena /\ ArenaGroup' = ArenaGroup
  <2>1. \A k \in 1 .. 3 : IsBuilt(k)
    <3>1. Len(bases) = 3 /\ \A k \in 1 .. Len(bases) : IsBuilt(k)
      BY <1>6 DEF ArenaInv
    <3>. QED  BY <3>1
  <2>2. \A k \in 1 .. 3 : dfas[k].automaton_id = k
    BY <2>1 DEF IsBuilt
  <2>. QED  BY <1>1, <2>2, ArenaStays
<1>7. /\ Len(dfas') = Len(dfas) /\ Len(bases') = Len(bases) /\ Len(state_variables') = Len(state_variables)
      /\ IsList(dfas') /\ IsList(bases') /\ IsList(state_variables')
  BY <1>1 DEF ArenaInv
<1>8. /\ state_variable_count' = bdd_size' /\ bdd_size' <= MaxVariables
      /\ bdd_size' = Offset(Len(bases) + 1)'
  BY <1>1, <1>5 DEF ArenaInv
<1>9. \A k \in 1 .. Len(bases') : IsBuilt(k)'
  BY <1>4, <1>7 DEF ArenaInv
<1>10. \/ Len(dfas') \in 0 .. 3 /\ Len(bases') = Len(dfas')
       \/ /\ Len(dfas') = 5 /\ Len(bases') = 3
          /\ dfas'[4] = reach_safe' /\ dfas'[5] = arena' /\ state_variables'[5] = ArenaGroup'
  BY <1>1, <1>6, <1>7 DEF ArenaInv
<1>11. Len(state_variables') = Len(dfas')
  BY <1>7 DEF ArenaInv
<1>12. IsFiniteSet(Known')
  BY <1>1 DEF ArenaInv, Known
<1>. QED  BY <1>2, <1>3, <1>7, <1>8, <1>9, <1>10, <1>11, <1>12 DEF ArenaInv

\* Building the arena.
LEMMA ArenaBuilt ==
    ASSUME ArenaInv, BuildArena
    PROVE  ArenaInv' /\ played' = played
<1>1. /\ UNCHANGED <<bdd_size, name_to_variable, index_to_name, state_variable_count, bases>>
      /\ Len(dfas) = 3 /\ dfas' = dfas \o <<reach_safe, arena>>
      /\ played' = played
  BY DEF BuildArena, play
<1>2. PICK two : IsList(two) /\ Len(two) = 2 /\ two[2] = ArenaGroup
                 /\ state_variables' = state_variables \o two
  BY ListOfTwo, Zenon DEF BuildArena, ArenaGroup
<1>3. Len(bases) = 3 /\ Len(state_variables) = 3 /\ IsList(dfas) /\ IsList(state_variables)
      /\ \A k \in 1 .. 3 : IsBuilt(k)
  BY <1>1 DEF ArenaInv
<1>4. /\ IsList(<<reach_safe, arena>>) /\ Len(<<reach_safe, arena>>) = 2
      /\ <<reach_safe, arena>>[1] = reach_safe /\ <<reach_safe, arena>>[2] = arena
  BY ListOfTwo
<1>5. /\ IsList(dfas') /\ Len(dfas') = 5 /\ dfas'[4] = reach_safe /\ dfas'[5] = arena
      /\ \A k \in 1 .. 3 : dfas'[k] = dfas[k]
  <2>1. PICK built : built = <<reach_safe, arena>>
    OBVIOUS
  <2>2. IsList(built) /\ Len(built) = 2 /\ built[1] = reach_safe /\ built[2] = arena
    BY <1>4, <2>1
  <2>3. /\ IsList(dfas \o built) /\ Len(dfas \o built) = 3 + 2
        /\ \A k \in 1 .. 3 : (dfas \o built)[k] = dfas[k]
        /\ \A k \in 1 .. 2 : (dfas \o built)[3 + k] = built[k]
    <3>1. IsList(dfas) /\ Len(dfas) = 3 /\ IsList(built) /\ Len(built) = 2
      BY <1>1, <1>3, <2>2
    <3>2. /\ IsList(dfas \o built) /\ Len(dfas \o built) = Len(dfas) + Len(built)
          /\ \A k \in 1 .. Len(dfas) : (dfas \o built)[k] = dfas[k]
          /\ \A k \in 1 .. Len(built) : (dfas \o built)[Len(dfas) + k] = built[k]
      <4>1. IsList(dfas) /\ IsList(built)
        BY <3>1
      <4>. QED  BY <4>1, ListsJoined
    <3>. QED  BY <3>1, <3>2
  <2>4. (dfas \o built)[3 + 1] = built[1] /\ (dfas \o built)[3 + 2] = built[2]
    BY <2>3
  <2>. QED  BY <1>1, <2>1, <2>2, <2>3, <2>4
<1>6. /\ IsList(state_variables') /\ Len(state_variables') = 5
      /\ \A k \in 1 .. 3 : state_variables'[k] = state_variables[k]
      /\ state_variables'[5] = ArenaGroup
  <2>1. IsList(state_variables) /\ Len(state_variables) = 3 /\ IsList(two) /\ Len(two) = 2
    BY <1>2, <1>3
  <2>2. /\ IsList(state_variables \o two)
        /\ Len(state_variables \o two) = Len(state_variables) + Len(two)
        /\ \A k \in 1 .. Len(state_variables) : (state_variables \o two)[k] = state_variables[k]
        /\ \A k \in 1 .. Len(two) : (state_variables \o two)[Len(state_variables) + k] = two[k]
    <3>1. IsList(state_variables) /\ IsList(two)
      BY <2>1
    <3>. QED  BY ONLY <3>1, ListsJoined
  <2>3. (state_variables \o two)[3 + 2] = two[2]
    BY <2>1, <2>2
  <2>. QED  BY <1>2, <2>1, <2>2, <2>3
<1>7. DictionaryInv' /\ NextNamesAreFree'
  BY <1>1 DEF ArenaInv, DictionaryInv, NextNamesAreFree, Known, Indices
<1>8. \A index \in Indices' :
            (StateName(index) \in Known)' /\ name_to_variable'[StateName(index)] = index
  BY <1>1 DEF ArenaInv, Known, Indices
<1>9. \A k \in 1 .. 3 : IsBuilt(k)'
  BY <1>1, <1>3, <1>5, <1>6, StillBuilt
<1>10. Offset(Len(bases) + 1)' = Offset(Len(bases) + 1)
  BY <1>1 DEF Offset, Width
<1>11. reach_safe' = reach_safe /\ arena' = arena /\ ArenaGroup' = ArenaGroup
  <2>1. \A k \in 1 .. 3 : dfas[k].automaton_id = k
    BY <1>3 DEF IsBuilt
  <2>. QED  BY <1>5, <1>6, <2>1, ArenaStays
<1>12. IsList(bases') /\ Len(bases') = 3
  BY <1>1, <1>3 DEF ArenaInv
<1>13. /\ state_variable_count' = bdd_size' /\ bdd_size' <= MaxVariables
       /\ bdd_size' = Offset(Len(bases) + 1)'
  BY <1>1, <1>10 DEF ArenaInv
<1>14. IsFiniteSet(Known')
  BY <1>1 DEF ArenaInv, Known
<1>. QED  BY <1>1, <1>5, <1>6, <1>7, <1>8, <1>9, <1>11, <1>12, <1>13, <1>14 DEF ArenaInv

\* Once the arena is built, it is as it should be.
LEMMA ArenaIsComplete ==
    ASSUME ArenaInv, Len(dfas) = 5
    PROVE  ArenaIsBuilt /\ Len(bases) = 3 /\ DOMAIN bases = 1 .. 3
<1>1. Len(bases) = 3 /\ IsList(bases)
  BY DEF ArenaInv
<1>. QED  BY <1>1, ListProperties DEF ArenaInv, ArenaIsBuilt

-----------------------------------------------------------------------------
(* Playing the arena *)

\* Where a play is: the explicit automata are in states, the environment's variables
\* encode that of its automaton, the agent's too as long as the agent was safe, and
\* the play is where the agent is safe exactly as long as it was.
InGame(v, at, gone) ==
    /\ v \in Valuations
    /\ \A k \in 1 .. 3 : at[k].state \in StatesOf(bases[k].dfa)
                         /\ at[k] = [state |-> at[k].state, out |-> FALSE]
    /\ \A k \in 1 .. 3 : k = EnvAt \/ ~gone => Encodes(k, v, at[k].state)
    /\ ~gone => ~Violated(at)
    /\ gone => v \notin safe_region

GameInv ==
    /\ played \in {0, Arena, Printed}
    /\ played = Arena => Len(dfas) = 5 /\ left \in BOOLEAN /\ InGame(valuation, shadow, left)

\* A base at a state accepts with its final states.
LEMMA BaseAtState ==
    ASSUME NEW k, IsBuilt(k), NEW at, at = [state |-> at.state, out |-> FALSE]
    PROVE  base_accepts(bases[k], at) <=> at.state \in bases[k].dfa.final_states
<1>1. bases[k].final = bases[k].dfa.final_states
  BY ExplicitAutomaton
<1>2. at.out = FALSE
  OBVIOUS
<1>. QED  BY <1>1, <1>2 DEF base_accepts

\* The start of a base as a record.
LEMMA StartRecord ==
    ASSUME NEW k
    PROVE  slugs_start(bases[k]) = [state |-> slugs_start(bases[k]).state, out |-> FALSE]
<1>1. PICK start : start = IF bases[k].dfa.state_count > 1 THEN 1 ELSE 0
  OBVIOUS
<1>2. slugs_start(bases[k]) = [[state |-> 0, out |-> FALSE] EXCEPT !.state = start]
  BY <1>1 DEF slugs_start, base_start
<1>. QED  BY <1>2

\* Being where the agent is safe is not having violated its safety.
LEMMA SafeHere ==
    ASSUME ArenaIsBuilt, NEW v \in Valuations, NEW at,
           at[SafetyAt].state \in StatesOf(bases[SafetyAt].dfa),
           at[SafetyAt] = [state |-> at[SafetyAt].state, out |-> FALSE],
           Encodes(SafetyAt, v, at[SafetyAt].state)
    PROVE  v \in safe_region <=> ~Violated(at)
<1>. DEFINE k == SafetyAt
            start == slugs_start(bases[k])
            state == at[k].state
<1>1. IsBuilt(k)
  BY PlacesOfRoles DEF ArenaIsBuilt
<1>2. v \in safe_region <=> v \in dfas[k].final_states \/ v \in initial_state_bdd(dfas[k])
  BY PlacesOfRoles DEF safe_region
<1>3. v \in dfas[k].final_states <=> state \in bases[k].dfa.final_states
  BY <1>1, FinalStatesOfAutomaton
<1>4. v \in initial_state_bdd(dfas[k]) <=> state = start.state
  <2>1. /\ start.state \in StatesOf(bases[k].dfa)
        /\ v \in initial_state_bdd(dfas[k]) <=> Encodes(k, v, start.state)
    BY <1>1, StartOfAutomaton
  <2>2. Encodes(k, v, start.state) <=> state = start.state
    BY <1>1, <2>1, OneState
  <2>. QED  BY <2>1, <2>2
<1>5. at[k] = start <=> state = start.state
  <2>1. start = [state |-> start.state, out |-> FALSE]
    BY StartRecord
  <2>2. at[k] = [state |-> state, out |-> FALSE]
    OBVIOUS
  <2>. HIDE DEF start, state, k
  <2>. QED  BY <2>1, <2>2
<1>6. Violated(at) <=> ~base_accepts(bases[k], at[k]) /\ at[k] # start
  BY DEF Violated, Rejects, SafetyAt
<1>7. base_accepts(bases[k], at[k]) <=> state \in bases[k].dfa.final_states
  BY <1>1, BaseAtState
<1>. QED  BY <1>2, <1>3, <1>4, <1>5, <1>6, <1>7

\* The start of the game.
LEMMA StartOfGame ==
    ASSUME ArenaIsBuilt, DOMAIN bases = 1 .. 3,
           NEW v \in arena_initial_state_bdd, NEW at,
           at = [k \in DOMAIN bases |-> slugs_start(bases[k])]
    PROVE  InGame(v, at, FALSE) /\ Violated(at) = FALSE
<1>1. v \in Valuations /\ \A k \in 1 .. 3 : v \in initial_state_bdd(dfas[k])
  <2>1. \A role \in Roles : v \in initial_state_bdd(DfaOf(role))
    BY DEF arena_initial_state_bdd
  <2>2. /\ v \in initial_state_bdd(DfaOf("env_safety")) /\ v \in initial_state_bdd(DfaOf("agn_reach"))
        /\ v \in initial_state_bdd(DfaOf("agn_safety"))
    BY <2>1 DEF Roles
  <2>3. /\ v \in initial_state_bdd(dfas[EnvAt]) /\ v \in initial_state_bdd(dfas[ReachAt])
        /\ v \in initial_state_bdd(dfas[SafetyAt])
    BY <2>2, PlacesOfRoles
  <2>4. \A k \in 1 .. 3 : k = EnvAt \/ k = ReachAt \/ k = SafetyAt
    BY PlacesOfRoles
  <2>. QED  BY <2>3, <2>4 DEF arena_initial_state_bdd
<1>2. \A k \in 1 .. 3 : IsBuilt(k) /\ at[k] = slugs_start(bases[k])
  BY DEF ArenaIsBuilt
<1>3. ASSUME NEW k \in 1 .. 3
      PROVE  /\ at[k].state \in StatesOf(bases[k].dfa)
             /\ at[k] = [state |-> at[k].state, out |-> FALSE]
             /\ Encodes(k, v, at[k].state)
  <2>1. IsBuilt(k) /\ at[k] = slugs_start(bases[k]) /\ v \in initial_state_bdd(dfas[k])
    BY <1>1, <1>2
  <2>2. /\ slugs_start(bases[k]).state \in StatesOf(bases[k].dfa)
        /\ v \in initial_state_bdd(dfas[k]) <=> Encodes(k, v, slugs_start(bases[k]).state)
    BY <1>1, <2>1, StartOfAutomaton
  <2>. QED  BY <2>1, <2>2, StartRecord
<1>4. Violated(at) = FALSE
  <2>1. at[SafetyAt] = slugs_start(bases[SafetyAt])
    BY <1>2, PlacesOfRoles
  <2>. QED  BY <2>1 DEF Violated, SafetyAt
<1>. QED  BY <1>1, <1>3, <1>4 DEF InGame

\* A turn of the game.
LEMMA TurnOfGame ==
    ASSUME ArenaIsBuilt, DOMAIN bases = 1 .. 3,
           NEW v, NEW at, NEW gone \in BOOLEAN, InGame(v, at, gone), NEW letter \in Alphabet,
           NEW w, w = next_valuation(dfas[5], v, letter), NEW to,
           to = [k \in DOMAIN bases |-> base_step(bases[k], at[k], letter)]
    PROVE  InGame(w, to, gone \/ Violated(to))
<1>. DEFINE next(k) == NextState(k, at[k].state, letter)
<1>1. \A k \in 1 .. 3 : IsBuilt(k)
  BY DEF ArenaIsBuilt
<1>2. /\ v \in Valuations
      /\ \A k \in 1 .. 3 : at[k].state \in StatesOf(bases[k].dfa)
                           /\ at[k] = [state |-> at[k].state, out |-> FALSE]
      /\ \A k \in 1 .. 3 : k = EnvAt \/ ~gone => Encodes(k, v, at[k].state)
  BY DEF InGame
<1>3. ASSUME NEW k \in 1 .. 3
      PROVE  /\ to[k] = [state |-> next(k), out |-> FALSE] /\ to[k].state = next(k)
             /\ next(k) \in StatesOf(bases[k].dfa)
  <2>1. base_step(bases[k], at[k], letter) = [state |-> next(k), out |-> FALSE]
    BY <1>1, <1>2, StepOfBase
  <2>2. next(k) \in StatesOf(bases[k].dfa)
    BY <1>1, <1>2, ExplicitAutomaton
  <2>. QED  BY <2>1, <2>2
<1>4. /\ w \in Valuations
      /\ \A k \in 1 .. 3 :
            (k = EnvAt \/ v \in safe_region) /\ Encodes(k, v, at[k].state) => Encodes(k, w, next(k))
      /\ v \notin safe_region => w \notin safe_region
  BY <1>2, TurnOfArena
<1>. HIDE DEF next
<1>5. \A k \in 1 .. 3 : to[k].state \in StatesOf(bases[k].dfa)
                        /\ to[k] = [state |-> to[k].state, out |-> FALSE]
  <2>1. ASSUME NEW k \in 1 .. 3
        PROVE  /\ to[k].state \in StatesOf(bases[k].dfa)
               /\ to[k] = [state |-> to[k].state, out |-> FALSE]
    <3>1. /\ to[k] = [state |-> next(k), out |-> FALSE] /\ to[k].state = next(k)
          /\ next(k) \in StatesOf(bases[k].dfa)
      BY <1>3
    <3>. QED  BY <3>1
  <2>. QED  BY <2>1
<1>6. Encodes(EnvAt, w, to[EnvAt].state)
  BY <1>2, <1>3, <1>4, PlacesOfRoles
<1>7. CASE gone
  <2>1. w \notin safe_region
    BY <1>4, <1>7 DEF InGame
  <2>. QED  BY <1>4, <1>5, <1>6, <1>7, <2>1 DEF InGame
<1>8. CASE ~gone
  <2>1. (\A k \in 1 .. 3 : Encodes(k, v, at[k].state)) /\ ~Violated(at)
    BY <1>2, <1>8 DEF InGame
  <2>2. v \in safe_region
    BY <1>2, <2>1, SafeHere, PlacesOfRoles
  <2>3. \A k \in 1 .. 3 : Encodes(k, w, to[k].state)
    BY <1>3, <1>4, <2>1, <2>2
  <2>4. w \in safe_region <=> ~Violated(to)
    BY <1>4, <1>5, <2>3, SafeHere, PlacesOfRoles
  <2>. QED  BY <1>4, <1>5, <1>8, <2>3, <2>4 DEF InGame
<1>. QED  BY <1>7, <1>8

\* A play is judged by what was built only.
LEMMA GameUnchanged ==
    ASSUME UNCHANGED <<bases, dfas, state_variables>>
    PROVE  \A v, at, gone : InGame(v, at, gone) => InGame(v, at, gone)'
<1>1. \A k, v, state : Encodes(k, v, state) => Encodes(k, v, state)'
  BY DEF Encodes, Width, Offset
<1>2. \A at : Violated(at)' <=> Violated(at)
  BY DEF Violated, Rejects
<1>3. safe_region' = safe_region
  BY DEF safe_region, initial_state_bdd, GroupOf, DfaOf
<1>4. \A k : bases'[k] = bases[k]
  OBVIOUS
<1>5. EnvAt' = EnvAt
  BY DEF EnvAt, IndexOf
<1>. QED  BY <1>1, <1>2, <1>3, <1>4, <1>5 DEF InGame

\* Every step of the game keeps what is known of the arena and of the play.
LEMMA NextGameInv ==
    ASSUME StateNamesAreDistinct, ArenaInv, GameInv, [GR1Next]_dfa_vars
    PROVE  ArenaInv' /\ GameInv'
<1>. USE DEF Arena, Printed
<1>1. ASSUME NEW d \in FormulaDfas, BuildAutomaton(d) PROVE ArenaInv' /\ GameInv'
  BY <1>1, AutomatonBuilt DEF GameInv
<1>2. CASE BuildArena
  <2>1. ArenaInv' /\ played' = played /\ Len(dfas) = 3
    BY <1>2, ArenaBuilt DEF BuildArena
  <2>2. played' \in {0, 6}
    BY <2>1 DEF GameInv
  <2>. QED  BY <2>1, <2>2 DEF GameInv
<1>3. ASSUME NEW game \in {Arena, Printed}, GameStart(game) PROVE ArenaInv' /\ GameInv'
  <2>1. /\ Len(dfas) = 5 /\ played' = game /\ UNCHANGED <<vars, dfas, bases>>
        /\ UNCHANGED <<state_variables, dfas, bases>>
        /\ valuation' \in arena_initial_state_bdd
        /\ shadow' = [k \in DOMAIN bases |-> slugs_start(bases[k])]
        /\ left' = Violated(shadow')
    BY <1>3 DEF GameStart, vars
  <2>2. ArenaIsBuilt /\ DOMAIN bases = 1 .. 3
    BY <2>1, ArenaIsComplete
  <2>3. PICK w, to, gone : w = valuation' /\ to = shadow' /\ gone = left'
    OBVIOUS
  <2>4. InGame(w, to, FALSE) /\ Violated(to) = FALSE
    BY <2>1, <2>2, <2>3, StartOfGame
  <2>5. gone = FALSE
    BY <2>1, <2>3, <2>4 DEF Violated, Rejects, base_accepts
  <2>6. InGame(w, to, gone)'
    BY <2>1, <2>4, <2>5, GameUnchanged
  <2>7. InGame(valuation, shadow, left)'
    BY <2>3, <2>6
  <2>. QED  BY <2>1, <2>3, <2>5, <2>7, ArenaUnchanged DEF GameInv
<1>4. ASSUME NEW letter \in Alphabet, ArenaTurn(letter) PROVE ArenaInv' /\ GameInv'
  <2>1. /\ played = 5 /\ played' = 5 /\ UNCHANGED <<vars, dfas, bases>>
        /\ UNCHANGED <<state_variables, dfas, bases>>
        /\ valuation' = next_valuation(dfas[5], valuation, letter)
        /\ shadow' = [k \in DOMAIN bases |-> base_step(bases[k], shadow[k], letter)]
        /\ left' = (left \/ Violated(shadow'))
    BY <1>4 DEF ArenaTurn, GameTurn, vars
  <2>2. Len(dfas) = 5 /\ left \in BOOLEAN /\ InGame(valuation, shadow, left)
    BY <2>1 DEF GameInv
  <2>3. ArenaIsBuilt /\ DOMAIN bases = 1 .. 3
    BY <2>2, ArenaIsComplete
  <2>4. PICK w, to, gone : w = valuation' /\ to = shadow' /\ gone = left'
    OBVIOUS
  <2>5. InGame(w, to, left \/ Violated(to))
    BY <2>1, <2>2, <2>3, <2>4, TurnOfGame
  <2>6. InGame(w, to, gone) /\ gone \in BOOLEAN
    BY <2>1, <2>4, <2>5
  <2>7. InGame(w, to, gone)'
    BY <2>1, <2>6, GameUnchanged
  <2>8. InGame(valuation, shadow, left)'
    BY <2>4, <2>7
  <2>. QED  BY <2>1, <2>2, <2>4, <2>6, <2>8, ArenaUnchanged DEF GameInv
<1>5. ASSUME NEW letter \in Alphabet, SlugsTurn(letter) PROVE ArenaInv' /\ GameInv'
  <2>1. played' = 6 /\ UNCHANGED <<vars, dfas, bases>>
    BY <1>5 DEF SlugsTurn, GameTurn, vars
  <2>. QED  BY <2>1, ArenaUnchanged DEF GameInv
<1>6. CASE UNCHANGED dfa_vars
  <2>1. /\ UNCHANGED <<vars, dfas, bases>> /\ UNCHANGED <<bases, dfas, state_variables>>
        /\ UNCHANGED <<played, valuation, shadow, left>>
    BY <1>6 DEF dfa_vars, vars, play
  <2>2. played = 5 => InGame(valuation, shadow, left)'
    <3>1. ASSUME played = 5 PROVE InGame(valuation, shadow, left)'
      <4>1. PICK v, at, gone : v = valuation /\ at = shadow /\ gone = left
        OBVIOUS
      <4>2. InGame(v, at, gone)'
        BY <2>1, <3>1, <4>1, GameUnchanged DEF GameInv
      <4>. QED  BY <2>1, <4>1, <4>2
    <3>. QED  BY <3>1
  <2>. QED  BY <2>1, <2>2, ArenaUnchanged DEF GameInv
<1>. QED  BY <1>1, <1>2, <1>3, <1>4, <1>5, <1>6 DEF GR1Next

\* The inductive invariant of the game.
THEOREM GameInvariant ==
    ASSUME StateNamesAreDistinct
    PROVE  GR1Spec => [](ArenaInv /\ GameInv)
<1>1. DfaInit => ArenaInv /\ GameInv
  BY InitArena DEF GameInv, Arena
<1>2. ArenaInv /\ GameInv /\ [GR1Next]_dfa_vars => (ArenaInv /\ GameInv)'
  BY NextGameInv
<1>. QED  BY <1>1, <1>2, PTL DEF GR1Spec

\* What coGR1Reachability prints with a letter, for any automata, built in any order:
\* the value after it of Zi is the i-th bit of the states the automata go to, in the
\* order in which the arena joins them.
THEOREM PrintedStepsAreThoseOfTheAutomataTheorem ==
    ASSUME StateNamesAreDistinct
    PROVE  GR1Spec => []PrintedStepsAreThoseOfTheAutomata
<1>1. ArenaInv /\ GameInv => PrintedStepsAreThoseOfTheAutomata
  <2>. DEFINE next(k, letter) == NextState(k, shadow[k].state, letter)
              of(k, letter) == state_to_binary(next(k, letter), Width(k))
              bits(letter) == of(EnvAt, letter) \o (of(ReachAt, letter) \o of(SafetyAt, letter))
  <2>. SUFFICES ASSUME ArenaInv, GameInv, played = Arena, NEW letter \in Alphabet
                PROVE  LET code == bits_after("env_safety", letter)
                                \o (bits_after("agn_reach", letter) \o bits_after("agn_safety", letter))
                       IN  \A i \in DOMAIN code :
                            i <= Len(Group("env_safety")) \/ ~left =>
                                printed_transitions(valuation, letter)[name_to_variable[StateName(i - 1)]]
                                    = code[i]
    BY DEF PrintedStepsAreThoseOfTheAutomata
  <2>1. Len(dfas) = 5 /\ InGame(valuation, shadow, left) /\ left \in BOOLEAN
    BY DEF GameInv
  <2>2. ArenaIsBuilt
    BY <2>1, ArenaIsComplete
  <2>3. /\ valuation \in Valuations
        /\ \A k \in 1 .. 3 : /\ shadow[k].state \in StatesOf(bases[k].dfa)
                             /\ shadow[k] = [state |-> shadow[k].state, out |-> FALSE]
                             /\ k = EnvAt \/ ~left => Encodes(k, valuation, shadow[k].state)
        /\ \A k \in 1 .. 3 : IsBuilt(k) /\ Width(k) \in Nat
    BY <2>1, <2>2, ArenaWidths DEF InGame
  <2>4. ASSUME NEW k \in 1 .. 3
        PROVE  /\ base_step(bases[k], shadow[k], letter).state = next(k, letter)
               /\ GroupOf(dfas[k]) = state_variables[k] /\ Len(state_variables[k]) = Width(k)
    <3>1. base_step(bases[k], shadow[k], letter) = [state |-> next(k, letter), out |-> FALSE]
      BY <2>3, StepOfBase
    <3>. QED  BY <2>3, <3>1, GroupOfAutomaton
  <2>5. /\ bits_after("env_safety", letter) = of(EnvAt, letter)
        /\ bits_after("agn_reach", letter) = of(ReachAt, letter)
        /\ bits_after("agn_safety", letter) = of(SafetyAt, letter)
        /\ Len(Group("env_safety")) = Width(EnvAt)
    <3>1. ASSUME NEW role, NEW k \in 1 .. 3, IndexOf(role) = k
          PROVE  bits_after(role, letter) = of(k, letter) /\ Len(Group(role)) = Width(k)
      <4>1. Len(Group(role)) = Width(k)
        BY <2>4, <3>1 DEF Group, DfaOf
      <4>. QED  BY <2>4, <3>1, <4>1 DEF bits_after
    <3>. QED  BY <3>1, PlacesOfRoles DEF EnvAt, ReachAt, SafetyAt
  <2>. DEFINE code == bits(letter)
              t5 == dfas[5].transition_function
              w == printed_transitions(valuation, letter)
  <2>6. ASSUME NEW k \in 1 .. 3
        PROVE  /\ IsList(of(k, letter)) /\ Len(of(k, letter)) = Width(k)
               /\ \A i \in 1 .. Width(k) : of(k, letter)[i] \in {0, 1}
    BY <2>3, BitsOfNext
  <2>7. /\ DOMAIN code = 1 .. Offset(4)
        /\ \A k \in 1 .. 3 : \A i \in 1 .. Width(k) : code[Place(k) + i] = of(k, letter)[i]
    <3>. HIDE DEF of
    <3>1. AreInPlace(code, of(EnvAt, letter), of(ReachAt, letter), of(SafetyAt, letter))
      BY <2>3, <2>6, PlacesOfRoles, JoinedInPlace
    <3>2. \A k \in 1 .. 3 : k = EnvAt \/ k = ReachAt \/ k = SafetyAt
      BY PlacesOfRoles
    <3>. HIDE DEF bits
    <3>. QED  BY <3>1, <3>2 DEF AreInPlace
  <2>8. /\ w \in Valuations /\ bdd_size = Offset(4) /\ bdd_size \in Nat
        /\ \A i \in 1 .. bdd_size : w[i - 1] = IF <<valuation, letter>> \in t5[i] THEN 1 ELSE 0
        /\ \A i \in 1 .. bdd_size : name_to_variable[StateName(i - 1)] = i - 1
    <3>1. bdd_size \in Nat /\ bdd_size = Offset(4)
      BY <2>2, ArenaComponents DEF ArenaIsBuilt
    <3>2. \A i \in 1 .. bdd_size : i - 1 \in Indices
      BY <3>1 DEF Indices
    <3>. QED  BY <2>2, <2>3, <3>1, <3>2, PrintedVariables DEF ArenaIsBuilt
  <2>9. ASSUME NEW k \in 1 .. 3, k = EnvAt \/ ~left, NEW i \in 1 .. Width(k)
        PROVE  <<valuation, letter>> \in t5[Place(k) + i] <=> of(k, letter)[i] = 1
    <3>1. ~left => valuation \in safe_region
      <4>1. ASSUME ~left PROVE valuation \in safe_region
        <5>1. ~Violated(shadow)
          BY <2>1, <4>1 DEF InGame
        <5>. QED  BY <2>2, <2>3, <4>1, <5>1, SafeHere, PlacesOfRoles
      <4>. QED  BY <4>1
    <3>. QED  BY <2>2, <2>3, <2>9, <3>1, ComponentsInPlace
  <2>10. ASSUME NEW j \in DOMAIN code, j <= Len(Group("env_safety")) \/ ~left
         PROVE  w[name_to_variable[StateName(j - 1)]] = code[j]
    <3>1. j \in 1 .. Offset(4) /\ (j <= Width(EnvAt) \/ ~left)
      BY <2>5, <2>7, <2>10
    <3>2. PICK k \in 1 .. 3 : \E i \in 1 .. Width(k) : j = Place(k) + i /\ (k = EnvAt \/ ~left)
      <4>1. CASE left
        <5>1. j \in 1 .. Width(EnvAt) /\ Place(EnvAt) = 0
          BY <2>3, <3>1, <4>1, PlacesOfRoles, SizesOfPlaces
        <5>2. j = Place(EnvAt) + j
          BY <2>3, <5>1, PlacesOfRoles
        <5>. QED  BY <5>1, <5>2, PlacesOfRoles
      <4>2. CASE ~left
        <5>1. \A k \in 1 .. 3 : Width(k) \in Nat
          BY <2>3
        <5>2. \E k \in 1 .. 3 : \E i \in 1 .. Width(k) : j = Place(k) + i
          BY <3>1, <5>1, SizesOfPlaces
        <5>. QED  BY <4>2, <5>2
      <4>. QED  BY <2>1, <4>1, <4>2
    <3>3. PICK i \in 1 .. Width(k) : j = Place(k) + i /\ (k = EnvAt \/ ~left)
      BY <3>2
    <3>4. code[j] = of(k, letter)[i] /\ of(k, letter)[i] \in {0, 1}
      BY <2>6, <2>7, <3>3
    <3>5. <<valuation, letter>> \in t5[j] <=> of(k, letter)[i] = 1
      BY <2>9, <3>3
    <3>6. w[name_to_variable[StateName(j - 1)]] = IF <<valuation, letter>> \in t5[j] THEN 1 ELSE 0
      <4>. HIDE DEF w, t5
      <4>. QED  BY <2>8, <3>1
    <3>. HIDE DEF w, t5, code, of
    <3>. QED  BY <3>4, <3>5, <3>6
  <2>. HIDE DEF of
  <2>. QED  BY <2>5, <2>10
<1>. QED  BY <1>1, GameInvariant, PTL

\* The states in which Slugs keeps the game mean what the reduction needs: for any
\* automata, built in any order, the environment has been safe, and the agent was unsafe
\* at some time or has not reached its goal.
THEOREM SafeStatesAreTheReductionTheorem ==
    ASSUME StateNamesAreDistinct
    PROVE  GR1Spec => []SafeStatesAreTheReduction
<1>1. ArenaInv /\ GameInv => SafeStatesAreTheReduction
  <2>. SUFFICES ASSUME ArenaInv, GameInv, played = Arena, valuation \notin arena_initial_state_bdd
                PROVE  valuation \in safe_states <=>
                            /\ ~Rejects("env_safety", shadow)
                            /\ left \/ Rejects("agn_safety", shadow) \/ Rejects("agn_reach", shadow)
    BY DEF SafeStatesAreTheReduction
  <2>1. Len(dfas) = 5 /\ InGame(valuation, shadow, left)
    BY DEF GameInv
  <2>2. ArenaIsBuilt /\ \A k \in 1 .. 3 : IsBuilt(k)
    BY <2>1, ArenaIsComplete DEF ArenaIsBuilt
  <2>3. ASSUME NEW k \in 1 .. 3, Encodes(k, valuation, shadow[k].state)
        PROVE  valuation \in dfas[k].final_states <=> base_accepts(bases[k], shadow[k])
    <3>1. /\ valuation \in Valuations /\ shadow[k].state \in StatesOf(bases[k].dfa)
          /\ shadow[k] = [state |-> shadow[k].state, out |-> FALSE] /\ IsBuilt(k)
      BY <2>1, <2>2 DEF InGame
    <3>2. valuation \in dfas[k].final_states <=> shadow[k].state \in bases[k].dfa.final_states
      BY <2>3, <3>1, FinalStatesOfAutomaton
    <3>3. base_accepts(bases[k], shadow[k]) <=> shadow[k].state \in bases[k].dfa.final_states
      BY <3>1, BaseAtState
    <3>. QED  BY <3>2, <3>3
  <2>4. valuation \in safe_states <=>
            valuation \in dfas[EnvAt].final_states /\ valuation \notin dfas[4].final_states
    BY PlacesOfRoles DEF safe_states
  <2>5. valuation \in dfas[4].final_states <=>
            valuation \in dfas[ReachAt].final_states /\ valuation \in dfas[SafetyAt].final_states
    BY <2>2, ArenaComponents
  <2>6. valuation \in dfas[EnvAt].final_states <=> ~Rejects("env_safety", shadow)
    <3>1. Encodes(EnvAt, valuation, shadow[EnvAt].state)
      BY <2>1, PlacesOfRoles DEF InGame
    <3>. QED  BY <2>3, <3>1, PlacesOfRoles DEF Rejects, EnvAt
  <2>7. CASE left
    <3>1. valuation \notin safe_region
      BY <2>1, <2>7 DEF InGame
    <3>2. valuation \notin dfas[SafetyAt].final_states
      BY <3>1, PlacesOfRoles DEF safe_region
    <3>. QED  BY <2>4, <2>5, <2>6, <2>7, <3>2
  <2>8. CASE ~left
    <3>1. /\ Encodes(ReachAt, valuation, shadow[ReachAt].state)
          /\ Encodes(SafetyAt, valuation, shadow[SafetyAt].state)
      BY <2>1, <2>8, PlacesOfRoles DEF InGame
    <3>2. /\ valuation \in dfas[ReachAt].final_states <=> ~Rejects("agn_reach", shadow)
          /\ valuation \in dfas[SafetyAt].final_states <=> ~Rejects("agn_safety", shadow)
      BY <2>3, <3>1, PlacesOfRoles DEF Rejects, ReachAt, SafetyAt
    <3>. QED  BY <2>4, <2>5, <2>6, <2>8, <3>2
  <2>. QED  BY <2>7, <2>8
<1>. QED  BY <1>1, GameInvariant, PTL
=============================================================================
