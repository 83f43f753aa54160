---------------------------- MODULE VarMgrProofs ----------------------------
(***************************************************************************)
(* The variable manager, for any lists of names and any number of           *)
(* variables and automata.                                                  *)
(***************************************************************************)
EXTENDS VarMgrProps, FiniteSetTheorems, FunctionTheorems, SequenceTheorems, TLAPS

\* std::to_string gives different numbers different names.
StateNamesAreDistinct ==
    \A k \in Nat : StateName(k) \in Names /\ \A l \in Nat : StateName(k) = StateName(l) => k = l

\* No list has a name that the manager gives to a state variable itself.
NoStateNamesAreListed ==
    \A names \in NameLists, k \in Nat : StateName(k) \notin ToSet(names)

-----------------------------------------------------------------------------
(* Numbers, lists and maps *)

\* A nonempty set of numbers has a least one.
LEMMA LeastNumber ==
    ASSUME NEW T \in SUBSET Nat, T # {}
    PROVE  \E m \in T : \A k \in T : m <= k
<1>1. PICK m \in T : \A k \in T : <<k, m>> \notin OpToRel(<, Nat)
  BY NatLessThanWellFounded, WFMin, Zenon
<1>2. \A k \in T : <<k, m>> \in Nat \X Nat
  OBVIOUS
<1>3. \A k \in T : ~(k < m)
  BY <1>1, <1>2 DEF OpToRel
<1>. QED  BY <1>3

\* The elements of a list are finitely many, no more than its length, and as
\* many if none occurs twice.
LEMMA ListElements ==
    ASSUME NEW S, NEW s \in Seq(S)
    PROVE  /\ Len(s) \in Nat /\ DOMAIN s = 1 .. Len(s)
           /\ ToSet(s) \subseteq S
           /\ \A i \in DOMAIN s : s[i] \in ToSet(s)
           /\ \A a \in ToSet(s) : \E i \in DOMAIN s : a = s[i]
           /\ IsFiniteSet(ToSet(s))
           /\ Cardinality(ToSet(s)) \in Nat
           /\ IsInjective(s) => Cardinality(ToSet(s)) = Len(s)
<1>1. Len(s) \in Nat /\ s \in [1 .. Len(s) -> S] /\ DOMAIN s = 1 .. Len(s)
  BY LenProperties
<1>2. s \in Surjection(1 .. Len(s), ToSet(s))
  BY <1>1, Fun_RangeProperties DEF ToSet, Range, Surjection
<1>3. IsFiniteSet(1 .. Len(s)) /\ Cardinality(1 .. Len(s)) = Len(s)
  BY <1>1, FS_Interval
<1>4. IsFiniteSet(ToSet(s))
  BY <1>2, <1>3, FS_Surjection
<1>5. IsInjective(s) => s \in Injection(1 .. Len(s), ToSet(s))
  BY <1>1 DEF Injection, ToSet
<1>6. IsInjective(s) => Cardinality(ToSet(s)) = Len(s)
  BY <1>2, <1>3, <1>5, FS_Surjection
<1>. QED  BY <1>1, <1>4, <1>6, FS_CardinalityType DEF ToSet

\* What the map is afterwards.
LEMMA WrittenEntries ==
    ASSUME NEW map, NEW entries
    PROVE  /\ DOMAIN with_entries(map, entries) = DOMAIN map \cup DOMAIN entries
           /\ \A key \in DOMAIN entries : with_entries(map, entries)[key] = entries[key]
           /\ \A key \in DOMAIN map \ DOMAIN entries :
                  with_entries(map, entries)[key] = map[key]
BY DEF with_entries

\* Names without a variable are given a null one; the others keep theirs.
LEMMA NullEntries ==
    ASSUME NEW names
    PROVE  /\ DOMAIN with_nulls(names) = Known \cup fresh(names)
           /\ \A name \in Known : with_nulls(names)[name] = name_to_variable[name]
           /\ \A name \in fresh(names) : with_nulls(names)[name] = nullptr
<1>. DEFINE nulls == [name \in fresh(names) |-> nullptr]
<1>1. DOMAIN nulls = fresh(names) /\ \A name \in fresh(names) : nulls[name] = nullptr
  OBVIOUS
<1>2. fresh(names) \cap Known = {}
  BY DEF fresh
<1>3. with_nulls(names) = with_entries(name_to_variable, nulls)
  BY DEF with_nulls
<1>. HIDE DEF nulls
<1>4. /\ DOMAIN with_nulls(names) = Known \cup DOMAIN nulls
      /\ \A name \in DOMAIN nulls : with_nulls(names)[name] = nulls[name]
      /\ \A name \in Known \ DOMAIN nulls : with_nulls(names)[name] = name_to_variable[name]
  BY <1>3 DEF with_entries, Known
<1>. QED  BY <1>1, <1>2, <1>4

-----------------------------------------------------------------------------
(* New variables *)

\* The names without a variable are finitely many.
LEMMA FreshNames ==
    ASSUME NEW names \in Seq(Names)
    PROVE  /\ fresh(names) \subseteq Names /\ fresh(names) \cap Known = {}
           /\ IsFiniteSet(fresh(names)) /\ Cardinality(fresh(names)) \in Nat
           /\ fresh(names) \subseteq ToSet(names) /\ ToSet(names) \subseteq Known \cup fresh(names)
<1>1. IsFiniteSet(ToSet(names)) /\ ToSet(names) \subseteq Names
  BY ListElements
<1>2. IsFiniteSet(fresh(names))
  BY <1>1, FS_Subset DEF fresh
<1>. QED  BY <1>1, <1>2, FS_CardinalityType DEF fresh

\* The position at which a loop meets a name first.
LEMMA FirstPosition ==
    ASSUME NEW names \in Seq(Names), NEW name \in ToSet(names)
    PROVE  /\ first_position(names, name) \in Nat
           /\ names[first_position(names, name)] = name
<1>. DEFINE T == {i \in 1 .. Len(names) : names[i] = name}
<1>1. DOMAIN names = 1 .. Len(names) /\ Len(names) \in Nat
  BY LenProperties
<1>2. T \in SUBSET Nat /\ T # {}
  BY <1>1 DEF ToSet
<1>3. PICK m \in T : \A k \in T : m <= k
  <2>. HIDE DEF T
  <2>. QED  BY <1>2, LeastNumber
<1>4. \A q \in 1 .. m - 1 : names[q] # name
  BY <1>1, <1>3
<1>5. \E p \in DOMAIN names : names[p] = name /\ \A q \in 1 .. p - 1 : names[q] # name
  BY <1>1, <1>3, <1>4
<1>6. first_position(names, name) \in DOMAIN names /\ names[first_position(names, name)] = name
  BY <1>5 DEF first_position
<1>. QED  BY <1>1, <1>6

\* Counting the elements before each one numbers them without gaps.
LEMMA Numbering ==
    ASSUME NEW F, IsFiniteSet(F), NEW pos \in [F -> Nat], NEW base \in Nat,
           \A a, b \in F : pos[a] = pos[b] => a = b
    PROVE  [a \in F |-> base + Cardinality({b \in F : pos[b] < pos[a]})]
               \in Bijection(F, base .. base + Cardinality(F) - 1)
<1>. DEFINE before(a) == {b \in F : pos[b] < pos[a]}
            n == Cardinality(F)
            T == base .. base + n - 1
            v == [a \in F |-> base + Cardinality(before(a))]
<1>1. n \in Nat
  BY FS_CardinalityType
<1>2. ASSUME NEW a \in F
      PROVE  IsFiniteSet(before(a)) /\ Cardinality(before(a)) \in Nat /\ Cardinality(before(a)) < n
  <2>1. before(a) \subseteq F /\ a \notin before(a)
    OBVIOUS
  <2>2. before(a) # F
    BY <2>1
  <2>. HIDE DEF before
  <2>3. IsFiniteSet(before(a)) /\ Cardinality(before(a)) <= n /\ Cardinality(before(a)) # n
    BY <2>1, <2>2, FS_Subset
  <2>. QED  BY <1>1, <2>3, FS_CardinalityType
<1>3. ASSUME NEW a \in F, NEW b \in F, pos[a] < pos[b]
      PROVE  Cardinality(before(a)) < Cardinality(before(b))
  <2>1. before(a) \subseteq before(b) /\ a \in before(b) /\ a \notin before(a)
    BY <1>3
  <2>2. before(a) # before(b)
    BY <2>1
  <2>3. /\ IsFiniteSet(before(b))
        /\ Cardinality(before(a)) \in Nat /\ Cardinality(before(b)) \in Nat
    BY <1>2
  <2>. HIDE DEF before
  <2>. QED  BY <2>1, <2>2, <2>3, FS_Subset
<1>4. v \in [F -> T]
  <2>. HIDE DEF before
  <2>. QED  BY <1>1, <1>2
<1>5. \A a, b \in F : v[a] = v[b] => a = b
  <2>. SUFFICES ASSUME NEW a \in F, NEW b \in F, a # b PROVE v[a] # v[b]
    OBVIOUS
  <2>1. pos[a] < pos[b] \/ pos[b] < pos[a]
    OBVIOUS
  <2>2. Cardinality(before(a)) # Cardinality(before(b))
    <3>1. Cardinality(before(a)) \in Nat /\ Cardinality(before(b)) \in Nat
      BY <1>2
    <3>. QED  BY <1>3, <2>1, <3>1
  <2>3. Cardinality(before(a)) \in Nat /\ Cardinality(before(b)) \in Nat
    BY <1>2
  <2>. HIDE DEF before
  <2>. QED  BY <2>2, <2>3
<1>6. v \in Injection(F, T)
  <2>. HIDE DEF v, T
  <2>. QED  BY <1>4, <1>5, Fun_IsInj
<1>7. IsFiniteSet(T) /\ Cardinality(T) = n
  <2>1. base \in Int /\ base + n - 1 \in Int /\ (base > base + n - 1 <=> n = 0)
    BY <1>1
  <2>2. /\ IsFiniteSet(base .. base + n - 1)
        /\ Cardinality(base .. base + n - 1) =
              IF base > base + n - 1 THEN 0 ELSE (base + n - 1) - base + 1
    <3>. HIDE DEF n
    <3>. QED  BY <2>1, FS_Interval
  <2>. HIDE DEF n
  <2>. QED  BY <1>1, <2>1, <2>2
<1>8. v \in Surjection(F, T)
  <2>. HIDE DEF v, T
  <2>. QED  BY <1>6, <1>7, FS_Injection
<1>. QED  BY <1>6, <1>8 DEF Bijection

\* The names without a variable get the next indices, one each.
LEMMA NewVariables ==
    ASSUME NEW names \in Seq(Names), bdd_size \in Nat
    PROVE  new_variables(names) \in
               Bijection(fresh(names), bdd_size .. bdd_size + Cardinality(fresh(names)) - 1)
<1>1. names \in Seq(Names) /\ IsFiniteSet(fresh(names)) /\ fresh(names) \subseteq ToSet(names)
  BY FreshNames
<1>2. \A a \in fresh(names) :
          first_position(names, a) \in Nat /\ names[first_position(names, a)] = a
  BY <1>1, FirstPosition
<1>3. \A a, b \in fresh(names) : first_position(names, a) = first_position(names, b) => a = b
  BY <1>2
<1>. DEFINE pos == [a \in fresh(names) |-> first_position(names, a)]
            v == [a \in fresh(names) |->
                    bdd_size + Cardinality({b \in fresh(names) : pos[b] < pos[a]})]
<1>4. pos \in [fresh(names) -> Nat] /\ \A a, b \in fresh(names) : pos[a] = pos[b] => a = b
  BY <1>2, <1>3
<1>5. v \in Bijection(fresh(names), bdd_size .. bdd_size + Cardinality(fresh(names)) - 1)
  <2>. HIDE DEF pos
  <2>. QED  BY <1>1, <1>4, Numbering
<1>6. \A a \in fresh(names) :
          {b \in fresh(names) : pos[b] < pos[a]} =
              {b \in fresh(names) : first_position(names, b) < first_position(names, a)}
  OBVIOUS
<1>7. v = new_variables(names)
  BY <1>6 DEF new_variables
<1>. QED  BY <1>5, <1>7

\* The names of the state variables that create_state_variables() makes.
NewStateNames(variable_count) ==
    {StateName(state_variable_count + i) : i \in 0 .. variable_count - 1}

\* They are no more than there are variables, whatever the names are.
LEMMA NewStateNamesAreFinite ==
    ASSUME NEW variable_count \in Nat
    PROVE  /\ DOMAIN state_names(variable_count) = NewStateNames(variable_count)
           /\ IsFiniteSet(NewStateNames(variable_count))
           /\ Cardinality(NewStateNames(variable_count)) \in Nat
           /\ Cardinality(NewStateNames(variable_count)) <= variable_count
<1>. DEFINE I == 0 .. variable_count - 1
            f == [i \in I |-> StateName(state_variable_count + i)]
<1>1. DOMAIN state_names(variable_count) = NewStateNames(variable_count)
  BY DEF state_names, NewStateNames
<1>2. IsFiniteSet(I) /\ Cardinality(I) = variable_count
  <2>1. IsFiniteSet(I) /\ Cardinality(I) = IF 0 > variable_count - 1 THEN 0
                                           ELSE (variable_count - 1) - 0 + 1
    BY FS_Interval
  <2>. QED  BY <2>1
<1>3. f \in Surjection(I, NewStateNames(variable_count))
  BY DEF Surjection, NewStateNames
<1>4. /\ IsFiniteSet(NewStateNames(variable_count))
      /\ Cardinality(NewStateNames(variable_count)) <= variable_count
  <2>. HIDE DEF I, f
  <2>. QED  BY <1>2, <1>3, FS_Surjection
<1>. QED  BY <1>1, <1>4, FS_CardinalityType

\* If the names are distinct, each gets one of the next indices, in their order.
LEMMA StateNameVariables ==
    ASSUME StateNamesAreDistinct, bdd_size \in Nat, state_variable_count \in Nat,
           NEW variable_count \in Nat
    PROVE  /\ NewStateNames(variable_count) \subseteq Names
           /\ Cardinality(NewStateNames(variable_count)) = variable_count
           /\ \A i \in 0 .. variable_count - 1 :
                  state_names(variable_count)[StateName(state_variable_count + i)] = bdd_size + i
           /\ state_names(variable_count) \in
                  Bijection(NewStateNames(variable_count), bdd_size .. bdd_size + variable_count - 1)
<1>. DEFINE I == 0 .. variable_count - 1
            D == NewStateNames(variable_count)
            T == bdd_size .. bdd_size + variable_count - 1
            v == state_names(variable_count)
            f == [i \in I |-> StateName(state_variable_count + i)]
<1>1. \A i \in I : state_variable_count + i \in Nat
  OBVIOUS
<1>2. \A i, j \in I : StateName(state_variable_count + i) = StateName(state_variable_count + j)
                          => i = j
  <2>. SUFFICES ASSUME NEW i \in I, NEW j \in I,
                       StateName(state_variable_count + i) = StateName(state_variable_count + j)
                PROVE  i = j
    OBVIOUS
  <2>1. state_variable_count + i = state_variable_count + j
    BY <1>1, StateNamesAreDistinct DEF StateNamesAreDistinct
  <2>. QED  BY <2>1
<1>3. \A i \in I : v[StateName(state_variable_count + i)] = bdd_size + i
  <2>. SUFFICES ASSUME NEW i \in I PROVE v[StateName(state_variable_count + i)] = bdd_size + i
    OBVIOUS
  <2>. DEFINE k == StateName(state_variable_count + i)
  <2>1. (CHOOSE j \in I : k = StateName(state_variable_count + j)) = i
    BY <1>2
  <2>2. v[k] = bdd_size + (CHOOSE j \in I : k = StateName(state_variable_count + j))
    BY DEF state_names
  <2>. QED  BY <2>1, <2>2
<1>4. D \subseteq Names /\ \A k \in D : \E i \in I : k = StateName(state_variable_count + i)
  BY <1>1, StateNamesAreDistinct DEF StateNamesAreDistinct, NewStateNames
<1>5. v \in [D -> T]
  <2>1. v = [k \in D |-> v[k]]
    BY DEF state_names, NewStateNames
  <2>2. \A i \in I : bdd_size + i \in T
    OBVIOUS
  <2>. HIDE DEF v, D, T, I
  <2>. QED  BY <1>3, <1>4, <2>1, <2>2
<1>6. \A t \in T : \E k \in D : v[k] = t
  <2>. SUFFICES ASSUME NEW t \in T PROVE \E k \in D : v[k] = t
    OBVIOUS
  <2>1. t - bdd_size \in I /\ bdd_size + (t - bdd_size) = t
    OBVIOUS
  <2>2. StateName(state_variable_count + (t - bdd_size)) \in D
    BY <2>1 DEF NewStateNames
  <2>. HIDE DEF v, D, T, I
  <2>. QED  BY <1>3, <2>1, <2>2
<1>7. \A k, l \in D : v[k] = v[l] => k = l
  <2>1. \A i, j \in I : bdd_size + i = bdd_size + j => i = j
    OBVIOUS
  <2>. HIDE DEF v, D, T, I
  <2>. QED  BY <1>3, <1>4, <2>1
<1>8. v \in Bijection(D, T)
  <2>. HIDE DEF v, D, T, I
  <2>. QED  BY <1>5, <1>6, <1>7, Fun_IsBij
<1>9. Cardinality(D) = variable_count
  <2>1. IsFiniteSet(T) /\ Cardinality(T) = variable_count
    <3>1. /\ bdd_size \in Int /\ bdd_size + variable_count - 1 \in Int
          /\ bdd_size > bdd_size + variable_count - 1 <=> variable_count = 0
      OBVIOUS
    <3>2. IsFiniteSet(T) /\ Cardinality(T) =
              IF bdd_size > bdd_size + variable_count - 1 THEN 0
              ELSE (bdd_size + variable_count - 1) - bdd_size + 1
      BY <3>1, FS_Interval
    <3>. QED  BY <3>1, <3>2
  <2>2. IsFiniteSet(D)
    BY NewStateNamesAreFinite
  <2>3. ExistsBijection(D, T)
    BY <1>8 DEF ExistsBijection
  <2>. HIDE DEF D, T
  <2>. QED  BY <2>1, <2>2, <2>3, FS_Bijection
<1>. QED  BY <1>3, <1>4, <1>8, <1>9

-----------------------------------------------------------------------------
(* A slot for each variable *)

\* The count of names may fall short of the variables only by what the count of
\* state variables adds.
SlotInv ==
    /\ bdd_size \in Nat /\ state_variable_count \in Nat
    /\ IsFiniteSet(Known)
    /\ bdd_size <= total_variable_count

\* Names that are added to the known ones are counted.
LEMMA MoreNames ==
    ASSUME IsFiniteSet(Known), NEW new, IsFiniteSet(new)
    PROVE  /\ IsFiniteSet(Known \cup new)
           /\ Cardinality(Known) \in Nat /\ Cardinality(Known \cup new) \in Nat
           /\ Cardinality(Known) <= Cardinality(Known \cup new)
           /\ Known \cap new = {} =>
                  Cardinality(Known \cup new) = Cardinality(Known) + Cardinality(new)
<1>1. IsFiniteSet(Known \cup new) /\ Cardinality(Known) \in Nat /\ Cardinality(new) \in Nat
  BY FS_Union, FS_CardinalityType
<1>2. Cardinality(Known \cup new) \in Nat /\ Cardinality(Known) <= Cardinality(Known \cup new)
  BY <1>1, FS_CardinalityType, FS_Subset
<1>3. Cardinality(Known \cup new) =
          Cardinality(Known) + Cardinality(new) - Cardinality(Known \cap new)
  BY FS_Union
<1>. QED  BY <1>1, <1>2, <1>3, FS_EmptySet

\* Giving every name of a list without one a new variable.
LEMMA NamedVariablesSlots ==
    ASSUME SlotInv, NEW names \in NameLists, register(new_variables(names))
    PROVE  /\ bdd_size' \in Nat /\ IsFiniteSet(Known') /\ Cardinality(Known') \in Nat
           /\ bdd_size' <= Cardinality(Known') + state_variable_count
<1>1. /\ IsFiniteSet(fresh(names)) /\ Known \cap fresh(names) = {}
      /\ Cardinality(fresh(names)) \in Nat
  BY FreshNames, NamesAssumption
<1>2. DOMAIN new_variables(names) = fresh(names)
  BY DEF new_variables
<1>3. bdd_size' = bdd_size + Cardinality(fresh(names)) /\ Known' = Known \cup fresh(names)
  BY <1>2, WrittenEntries DEF register, Known
<1>4. /\ IsFiniteSet(Known \cup fresh(names)) /\ Cardinality(Known) \in Nat
      /\ Cardinality(Known \cup fresh(names)) = Cardinality(Known) + Cardinality(fresh(names))
  BY <1>1, MoreNames DEF SlotInv
<1>5. bdd_size \in Nat /\ bdd_size <= Cardinality(Known) + state_variable_count
      /\ state_variable_count \in Nat
  BY DEF SlotInv, total_variable_count
<1>. QED  BY <1>1, <1>3, <1>4, <1>5

\* The number of variables, names and state variables, after every step.
LEMMA NextSlotInv == SlotInv /\ [Next]_vars => SlotInv'
<1>. SUFFICES ASSUME SlotInv, [Next]_vars PROVE SlotInv'
  OBVIOUS
<1>1. CASE \E names \in NameLists : create_named_variables(names)
  BY <1>1, NamedVariablesSlots DEF create_named_variables, SlotInv, total_variable_count
<1>2. ASSUME NEW variable_count \in Widths, create_state_variables(variable_count) PROVE SlotInv'
  <2>1. variable_count \in Nat
    BY DEF Widths
  <2>. DEFINE new == NewStateNames(variable_count)
  <2>2. /\ IsFiniteSet(new) /\ Cardinality(new) \in Nat /\ Cardinality(new) <= variable_count
        /\ DOMAIN state_names(variable_count) = new
    BY <2>1, NewStateNamesAreFinite
  <2>3. /\ bdd_size' = bdd_size + Cardinality(new) /\ Known' = Known \cup new
        /\ state_variable_count' = state_variable_count + variable_count
    BY <1>2, <2>2, WrittenEntries DEF create_state_variables, register, Known
  <2>4. /\ IsFiniteSet(Known \cup new)
        /\ Cardinality(Known) \in Nat /\ Cardinality(Known \cup new) \in Nat
        /\ Cardinality(Known) <= Cardinality(Known \cup new)
    BY <2>2, MoreNames DEF SlotInv
  <2>. HIDE DEF new
  <2>. QED  BY <2>1, <2>2, <2>3, <2>4 DEF SlotInv, total_variable_count
<1>3. ASSUME NEW names \in NameLists, create_named_state_variables(names) PROVE SlotInv'
  <2>1. Len(names) \in Nat
    BY NamesAssumption, LenProperties
  <2>2. /\ bdd_size' \in Nat /\ IsFiniteSet(Known') /\ Cardinality(Known') \in Nat
        /\ bdd_size' <= Cardinality(Known') + state_variable_count
    BY <1>3, NamedVariablesSlots DEF create_named_state_variables
  <2>. QED  BY <1>3, <2>1, <2>2
            DEF create_named_state_variables, SlotInv, total_variable_count
<1>4. ASSUME NEW names \in NameLists,
             create_input_variables(names) \/ create_output_variables(names)
      PROVE  SlotInv'
  <2>1. /\ Known' = Known \cup fresh(names) /\ bdd_size' = bdd_size
        /\ state_variable_count' = state_variable_count
    BY <1>4, NullEntries DEF create_input_variables, create_output_variables, Known
  <2>2. IsFiniteSet(fresh(names)) /\ IsFiniteSet(Known)
    BY FreshNames, NamesAssumption DEF SlotInv
  <2>3. /\ IsFiniteSet(Known \cup fresh(names))
        /\ Cardinality(Known) \in Nat /\ Cardinality(Known \cup fresh(names)) \in Nat
        /\ Cardinality(Known) <= Cardinality(Known \cup fresh(names))
    BY <2>2, MoreNames
  <2>4. /\ bdd_size \in Nat /\ state_variable_count \in Nat
        /\ bdd_size <= Cardinality(Known) + state_variable_count
    BY DEF SlotInv, total_variable_count
  <2>. QED  BY <2>1, <2>3, <2>4 DEF SlotInv, total_variable_count
<1>5. CASE UNCHANGED <<bdd_size, name_to_variable, state_variable_count>>
  BY <1>5 DEF SlotInv, total_variable_count, Known
<1>. QED  BY <1>1, <1>2, <1>3, <1>4, <1>5
          DEF Next, vars, create_product_state_space, create_complement_state_space,
              partition_variables

\* The vectors made for CUDD are never too short, whatever the names are: of
\* propositions like those of state variables, too.
THEOREM SlotForEachVariableTheorem == Spec => []SlotForEachVariable
<1>1. Init => SlotInv
  BY FS_EmptySet DEF Init, SlotInv, total_variable_count, Known
<1>2. SlotInv => SlotForEachVariable
  BY DEF SlotInv, SlotForEachVariable
<1>. QED  BY <1>1, <1>2, NextSlotInv, PTL DEF Spec

-----------------------------------------------------------------------------
(* The dictionary *)

\* What the two maps say of each other, null variables apart.
DictionaryInv ==
    /\ bdd_size \in Nat
    /\ Known \subseteq Names
    /\ \A name \in Known : name_to_variable[name] \in Indices \cup {nullptr}
    /\ DOMAIN index_to_name = Indices
    /\ \A index \in Indices :
            index_to_name[index] \in Known /\ name_to_variable[index_to_name[index]] = index
    /\ \A name \in Known :
            name_to_variable[name] \in Indices => index_to_name[name_to_variable[name]] = name

\* The names of the next state variables are not in use.
NextNamesAreFree ==
    /\ state_variable_count \in Nat
    /\ \A k \in Nat : k >= state_variable_count => StateName(k) \notin Known

\* There may be more variables, and entries are never changed.
EntriesStay ==
    /\ \E n \in Nat : bdd_size' = bdd_size + n
    /\ \A name \in Known : name \in Known' /\ name_to_variable'[name] = name_to_variable[name]
    /\ \A index \in Indices : index_to_name'[index] = index_to_name[index]

\* One step of the dictionary: new names get the next indices.
LEMMA Registered ==
    ASSUME DictionaryInv, NEW n \in Nat, NEW D \in SUBSET Names, D \cap Known = {},
           NEW v \in Bijection(D, bdd_size .. bdd_size + n - 1), Cardinality(D) = n, register(v)
    PROVE  /\ bdd_size' = bdd_size + n /\ Known' = Known \cup D
           /\ DictionaryInv' /\ EntriesStay
           /\ \A d \in D : name_to_variable'[d] = v[d]
<1>. DEFINE T == bdd_size .. bdd_size + n - 1
            anti == AntiFunction(v)
<1>1. /\ v \in [D -> T] /\ DOMAIN v = D /\ \A t \in T : \E d \in D : v[d] = t
      /\ \A d \in D : v[d] \in T
  BY Fun_BijectionProperties, Fun_SurjectionProperties DEF Bijection, Surjection
<1>2. Range(v) = T
  BY <1>1 DEF Range
<1>3. DOMAIN anti = T /\ \A d \in D : anti[v[d]] = d
  <2>1. anti = Inverse(v, D, T)
    BY <1>1, <1>2 DEF AntiFunction
  <2>2. \A d \in D : Inverse(v, D, T)[v[d]] = d
    BY Fun_BijInverse
  <2>3. DOMAIN Inverse(v, D, T) = T
    BY DEF Inverse
  <2>. QED  BY <2>1, <2>2, <2>3
<1>4. bdd_size' = bdd_size + n /\ bdd_size \in Nat
  BY <1>1 DEF register, DictionaryInv
<1>5. Indices' = Indices \cup T /\ Indices \cap T = {}
  BY <1>4 DEF Indices
<1>6. /\ Known' = Known \cup D
      /\ \A d \in D : name_to_variable'[d] = v[d]
      /\ \A name \in Known : name_to_variable'[name] = name_to_variable[name]
  BY <1>1 DEF register, with_entries, Known
<1>7. /\ DOMAIN index_to_name' = Indices \cup T
      /\ \A t \in T : index_to_name'[t] = anti[t]
      /\ \A index \in Indices : index_to_name'[index] = index_to_name[index]
  <2>. HIDE DEF anti
  <2>. QED  BY <1>3, <1>5 DEF register, with_entries, DictionaryInv, anti
<1>. HIDE DEF anti, T
<1>8. \A t \in T : index_to_name'[t] \in D /\ name_to_variable'[index_to_name'[t]] = t
  BY <1>1, <1>3, <1>6, <1>7
<1>9. \A d \in D : index_to_name'[name_to_variable'[d]] = d
  BY <1>1, <1>3, <1>6, <1>7
<1>10. EntriesStay
  BY <1>4, <1>6, <1>7 DEF EntriesStay
<1>11. DictionaryInv'
  <2>1. /\ bdd_size' \in Nat /\ Known' \subseteq Names /\ DOMAIN index_to_name' = Indices'
    BY <1>4, <1>5, <1>6, <1>7 DEF DictionaryInv
  <2>2. \A name \in Known' : name_to_variable'[name] \in Indices' \cup {nullptr}
    BY <1>1, <1>5, <1>6 DEF DictionaryInv
  <2>3. \A index \in Indices' : /\ index_to_name'[index] \in Known'
                                /\ name_to_variable'[index_to_name'[index]] = index
    BY <1>5, <1>6, <1>7, <1>8 DEF DictionaryInv
  <2>4. \A name \in Known' : name_to_variable'[name] \in Indices' =>
                                 index_to_name'[name_to_variable'[name]] = name
    <3>1. ASSUME NEW name \in Known, name_to_variable'[name] \in Indices'
          PROVE  index_to_name'[name_to_variable'[name]] = name
      <4>1. name_to_variable[name] \in Indices
        BY <1>4, <1>5, <1>6, <3>1, NullAssumption DEF DictionaryInv, Indices
      <4>. QED  BY <1>6, <1>7, <4>1 DEF DictionaryInv
    <3>. QED  BY <1>6, <1>9, <3>1
  <2>. QED  BY <2>1, <2>2, <2>3, <2>4 DEF DictionaryInv
<1>. QED  BY <1>4, <1>6, <1>10, <1>11

\* Giving every name of a list without one a new variable.
LEMMA NamedVariablesRegistered ==
    ASSUME DictionaryInv, NEW names \in Seq(Names), register(new_variables(names))
    PROVE  /\ Known' = Known \cup fresh(names) /\ ToSet(names) \subseteq Known'
           /\ bdd_size' = bdd_size + Cardinality(fresh(names))
           /\ DictionaryInv' /\ EntriesStay
<1>1. /\ fresh(names) \in SUBSET Names /\ fresh(names) \cap Known = {}
      /\ Cardinality(fresh(names)) \in Nat /\ ToSet(names) \subseteq Known \cup fresh(names)
  BY FreshNames
<1>2. new_variables(names) \in
          Bijection(fresh(names), bdd_size .. bdd_size + Cardinality(fresh(names)) - 1)
  BY NewVariables DEF DictionaryInv
<1>. QED  BY <1>1, <1>2, Registered

\* Making the variables of an automaton.
LEMMA StateVariablesRegistered ==
    ASSUME StateNamesAreDistinct, DictionaryInv, NextNamesAreFree, NEW variable_count \in Nat,
           register(state_names(variable_count))
    PROVE  /\ Known' = Known \cup NewStateNames(variable_count)
           /\ bdd_size' = bdd_size + variable_count
           /\ DictionaryInv' /\ EntriesStay
           /\ \A i \in 0 .. variable_count - 1 :
                  name_to_variable'[StateName(state_variable_count + i)] = bdd_size + i
<1>1. bdd_size \in Nat /\ state_variable_count \in Nat
  BY DEF DictionaryInv, NextNamesAreFree
<1>2. /\ NewStateNames(variable_count) \in SUBSET Names
      /\ Cardinality(NewStateNames(variable_count)) = variable_count
      /\ state_names(variable_count) \in
            Bijection(NewStateNames(variable_count), bdd_size .. bdd_size + variable_count - 1)
      /\ \A i \in 0 .. variable_count - 1 :
            state_names(variable_count)[StateName(state_variable_count + i)] = bdd_size + i
  BY <1>1, StateNameVariables
<1>3. \A i \in 0 .. variable_count - 1 :
          /\ StateName(state_variable_count + i) \in NewStateNames(variable_count)
          /\ StateName(state_variable_count + i) \notin Known
  BY <1>1 DEF NewStateNames, NextNamesAreFree
<1>4. NewStateNames(variable_count) \cap Known = {}
  BY <1>3 DEF NewStateNames
<1>5. /\ bdd_size' = bdd_size + variable_count
      /\ Known' = Known \cup NewStateNames(variable_count)
      /\ DictionaryInv' /\ EntriesStay
      /\ \A d \in NewStateNames(variable_count) :
            name_to_variable'[d] = state_names(variable_count)[d]
  BY <1>2, <1>4, Registered
<1>. QED  BY <1>2, <1>3, <1>5

\* The names after these are still free.
LEMMA NextNamesStayFree ==
    ASSUME StateNamesAreDistinct, NextNamesAreFree, NEW variable_count \in Nat,
           Known' = Known \cup NewStateNames(variable_count),
           state_variable_count' = state_variable_count + variable_count
    PROVE  NextNamesAreFree'
<1>1. \A k \in Nat : k >= state_variable_count + variable_count =>
          StateName(k) \notin NewStateNames(variable_count)
  <2>. SUFFICES ASSUME NEW k \in Nat, k >= state_variable_count + variable_count,
                       NEW i \in 0 .. variable_count - 1,
                       StateName(k) = StateName(state_variable_count + i)
                PROVE  FALSE
    BY DEF NewStateNames
  <2>1. state_variable_count + i \in Nat /\ state_variable_count + i # k
    BY DEF NextNamesAreFree
  <2>. QED  BY <2>1 DEF StateNamesAreDistinct
<1>. QED  BY <1>1 DEF NextNamesAreFree

\* Letters that are not known yet get null variables.
LEMMA NullsRegistered ==
    ASSUME DictionaryInv, NEW names \in NameLists, name_to_variable' = with_nulls(names),
           UNCHANGED <<bdd_size, index_to_name>>
    PROVE  /\ Known' = Known \cup fresh(names) /\ ToSet(names) \subseteq Known'
           /\ DictionaryInv' /\ EntriesStay
<1>1. /\ fresh(names) \subseteq Names /\ ToSet(names) \subseteq Known \cup fresh(names)
  BY FreshNames, NamesAssumption
<1>2. /\ Known' = Known \cup fresh(names)
      /\ \A name \in Known : name_to_variable'[name] = name_to_variable[name]
      /\ \A name \in fresh(names) : name_to_variable'[name] = nullptr
  BY NullEntries DEF Known
<1>3. Indices' = Indices /\ nullptr \notin Indices
  BY NullAssumption DEF Indices, DictionaryInv
<1>4. bdd_size' = bdd_size + 0
  BY DEF DictionaryInv
<1>. QED  BY <1>1, <1>2, <1>3, <1>4 DEF DictionaryInv, EntriesStay

\* The names of a list are none of those to come.
LEMMA ListedNamesAreNoNext ==
    ASSUME NoStateNamesAreListed, NextNamesAreFree, NEW names \in NameLists,
           Known' = Known \cup fresh(names), state_variable_count' \in Nat,
           state_variable_count' >= state_variable_count
    PROVE  NextNamesAreFree'
<1>1. \A k \in Nat : StateName(k) \notin fresh(names)
  BY FreshNames, NamesAssumption DEF NoStateNamesAreListed
<1>. QED  BY <1>1 DEF NextNamesAreFree

\* What every call leaves of the dictionary, and the names it knows afterwards.
LEMMA NextDictionary ==
    ASSUME StateNamesAreDistinct, NoStateNamesAreListed, DictionaryInv, NextNamesAreFree,
           [Next]_vars
    PROVE  DictionaryInv' /\ NextNamesAreFree' /\ EntriesStay
<1>1. ASSUME NEW names \in NameLists, create_named_variables(names)
      PROVE  DictionaryInv' /\ NextNamesAreFree' /\ EntriesStay
  <2>1. register(new_variables(names)) /\ state_variable_count' = state_variable_count
    BY <1>1 DEF create_named_variables
  <2>2. state_variable_count' \in Nat /\ state_variable_count' >= state_variable_count
    BY <2>1 DEF NextNamesAreFree
  <2>. QED  BY <2>1, <2>2, NamedVariablesRegistered, NamesAssumption, ListedNamesAreNoNext
<1>2. ASSUME NEW variable_count \in Widths, create_state_variables(variable_count)
      PROVE  DictionaryInv' /\ NextNamesAreFree' /\ EntriesStay
  <2>1. variable_count \in Nat /\ register(state_names(variable_count))
        /\ state_variable_count' = state_variable_count + variable_count
    BY <1>2 DEF create_state_variables, Widths
  <2>2. /\ Known' = Known \cup NewStateNames(variable_count)
        /\ DictionaryInv' /\ EntriesStay
    BY <2>1, StateVariablesRegistered
  <2>4. NextNamesAreFree'
    BY <2>1, <2>2, NextNamesStayFree
  <2>. QED  BY <2>2, <2>4
<1>3. ASSUME NEW names \in NameLists, create_named_state_variables(names)
      PROVE  DictionaryInv' /\ NextNamesAreFree' /\ EntriesStay
  <2>1. /\ register(new_variables(names))
        /\ state_variable_count' = state_variable_count + Len(names)
    BY <1>3 DEF create_named_state_variables
  <2>2. Len(names) \in Nat
    BY NamesAssumption, LenProperties
  <2>3. state_variable_count' \in Nat /\ state_variable_count' >= state_variable_count
    BY <2>1, <2>2 DEF NextNamesAreFree
  <2>. QED  BY <2>1, <2>3, NamedVariablesRegistered, NamesAssumption, ListedNamesAreNoNext
<1>4. ASSUME NEW names \in NameLists,
             create_input_variables(names) \/ create_output_variables(names)
      PROVE  DictionaryInv' /\ NextNamesAreFree' /\ EntriesStay
  <2>1. /\ name_to_variable' = with_nulls(names)
        /\ UNCHANGED <<bdd_size, index_to_name>>
        /\ state_variable_count' = state_variable_count
    BY <1>4 DEF create_input_variables, create_output_variables
  <2>2. state_variable_count' \in Nat /\ state_variable_count' >= state_variable_count
    BY <2>1 DEF NextNamesAreFree
  <2>. QED  BY <2>1, <2>2, NullsRegistered, ListedNamesAreNoNext
<1>5. ASSUME UNCHANGED <<bdd_size, name_to_variable, index_to_name, state_variable_count>>
      PROVE  DictionaryInv' /\ NextNamesAreFree' /\ EntriesStay
  <2>1. bdd_size' = bdd_size + 0
    BY <1>5 DEF DictionaryInv
  <2>. QED  BY <1>5, <2>1 DEF DictionaryInv, NextNamesAreFree, EntriesStay, Known, Indices
<1>. QED  BY <1>1, <1>2, <1>3, <1>4, <1>5
          DEF Next, vars, create_product_state_space, create_complement_state_space,
              partition_variables

\* The dictionary is empty at first.
LEMMA InitDictionary == Init => DictionaryInv /\ NextNamesAreFree
BY DEF Init, DictionaryInv, NextNamesAreFree, Known, Indices

\* The invariant of the dictionary, as long as names do not collide.
LEMMA DictionaryInvariant ==
    ASSUME StateNamesAreDistinct, NoStateNamesAreListed
    PROVE  Spec => [](DictionaryInv /\ NextNamesAreFree)
<1>1. DictionaryInv /\ NextNamesAreFree /\ [Next]_vars => (DictionaryInv /\ NextNamesAreFree)'
  BY NextDictionary
<1>. QED  BY <1>1, InitDictionary, PTL DEF Spec

\* A name leads to an index that leads back to it, and an index to a name that
\* leads back to it, while no name has a null variable.
THEOREM DictionaryTheorem ==
    ASSUME StateNamesAreDistinct, NoStateNamesAreListed
    PROVE  Spec => []Dictionary
<1>1. DictionaryInv => Dictionary
  <2>. SUFFICES ASSUME DictionaryInv, NoNulls PROVE Dictionary
    BY DEF Dictionary
  <2>1. \A name \in Known : name_to_variable[name] # nullptr
    BY DEF NoNulls, Known, Range
  <2>. QED  BY <2>1 DEF DictionaryInv, Dictionary
<1>. QED  BY <1>1, DictionaryInvariant, PTL

\* No call gives a variable another name, or a name another variable, null
\* variables included.
THEOREM NamesAreStableTheorem ==
    ASSUME StateNamesAreDistinct, NoStateNamesAreListed
    PROVE  Spec => NamesAreStable
<1>. DEFINE A == /\ \A name \in Known :
                        name \in DOMAIN name_to_variable'
                            /\ name_to_variable'[name] = name_to_variable[name]
                 /\ \A index \in DOMAIN index_to_name :
                        index_to_name'[index] = index_to_name[index]
<1>1. DictionaryInv /\ NextNamesAreFree /\ [Next]_vars => [A]_vars
  <2>. SUFFICES ASSUME DictionaryInv, NextNamesAreFree, [Next]_vars PROVE A
    OBVIOUS
  <2>1. EntriesStay /\ DOMAIN index_to_name = Indices
    BY NextDictionary DEF DictionaryInv
  <2>2. \A name \in Known : name \in Known' /\ name_to_variable'[name] = name_to_variable[name]
    BY <2>1 DEF EntriesStay
  <2>3. Known' = DOMAIN name_to_variable'
    BY DEF Known
  <2>4. \A index \in DOMAIN index_to_name : index_to_name'[index] = index_to_name[index]
    BY <2>1 DEF EntriesStay
  <2>. QED  BY <2>2, <2>3, <2>4
<1>. QED  BY <1>1, DictionaryInvariant, PTL DEF Spec, NamesAreStable

-----------------------------------------------------------------------------
(* Groups and letters *)

Variable == Indices \cup {nullptr}

\* Joining two groups.
LEMMA FlattenPair ==
    ASSUME NEW S, NEW s \in Seq(S), NEW t \in Seq(S), NEW seqs, seqs = <<s, t>>
    PROVE  FlattenSeq(seqs) = s \o t
<1>1. Len(seqs) = 2 /\ seqs[1] = s /\ seqs[2] = t
  OBVIOUS
<1>. DEFINE Flattens(f) ==
              f = [i \in 1 .. Len(seqs) |-> IF i = 1 THEN seqs[i] ELSE f[i - 1] \o seqs[i]]
            g == [i \in 1 .. Len(seqs) |-> IF i = 1 THEN s ELSE s \o t]
            f == CHOOSE f : Flattens(f)
<1>2. Flattens(g)
  BY <1>1
<1>3. Flattens(f)
  <2>. HIDE DEF Flattens, g
  <2>. QED  BY <1>2
<1>4. f[1] = s /\ f[2] = s \o t
  <2>. HIDE DEF f
  <2>. QED  BY <1>1, <1>3
<1>5. FlattenSeq(seqs) = f[Len(seqs)]
  BY <1>1 DEF FlattenSeq
<1>. QED  BY <1>1, <1>4, <1>5

\* The elements of joined lists.
LEMMA JoinedElements ==
    ASSUME NEW S, NEW s \in Seq(S), NEW t \in Seq(S)
    PROVE  s \o t \in Seq(S) /\ ToSet(s \o t) = ToSet(s) \cup ToSet(t)
<1>1. ToSet(s) = Range(s) /\ ToSet(t) = Range(t) /\ ToSet(s \o t) = Range(s \o t)
  BY DEF ToSet, Range
<1>2. Range(s \o t) = Range(s) \cup Range(t)
  BY RangeConcatenation
<1>. QED  BY <1>1, <1>2, ConcatProperties

\* The longest prefix of a list with known names only exists.
LEMMA KnownPrefix ==
    ASSUME NEW names \in Seq(Names)
    PROVE  \E p \in Prefixes(names) :
               /\ ToSet(p) \subseteq Known
               /\ p # names => names[Len(p) + 1] \notin Known
<1>. DEFINE T == {l \in Nat : l + 1 \in 1 .. Len(names) /\ names[l + 1] \notin Known}
<1>1. /\ Len(names) \in Nat /\ DOMAIN names = 1 .. Len(names)
      /\ \A i \in 1 .. Len(names) : names[i] \in Names
  BY LenProperties, ElementOfSeq
<1>2. ASSUME NEW l \in 0 .. Len(names)
      PROVE  /\ SubSeq(names, 1, l) \in Prefixes(names)
             /\ Len(SubSeq(names, 1, l)) = l
             /\ ToSet(SubSeq(names, 1, l)) = {names[i] : i \in 1 .. l}
  <2>. DEFINE p == SubSeq(names, 1, l)
  <2>1. p \in Seq(Names) /\ Len(p) = l /\ \A i \in 1 .. l : p[i] = names[i]
    <3>1. \A i \in 1 .. l : names[i] \in Names
      BY <1>1
    <3>2. /\ p \in Seq(Names) /\ Len(p) = (IF 1 <= l THEN l - 1 + 1 ELSE 0)
          /\ \A i \in 1 .. l - 1 + 1 : p[i] = names[1 + i - 1]
      BY <3>1, SubSeqProperties
    <3>. HIDE DEF p
    <3>. QED  BY <3>2
  <2>2. DOMAIN p = 1 .. l
    <3>. HIDE DEF p
    <3>. QED  BY <2>1, LenProperties
  <2>3. ToSet(p) = {names[i] : i \in 1 .. l}
    <3>. HIDE DEF p
    <3>. QED  BY <2>1, <2>2 DEF ToSet
  <2>. QED  BY <2>1, <2>3 DEF Prefixes
<1>3. CASE T = {}
  <2>1. \A i \in 1 .. Len(names) : names[i] \in Known
    <3>. SUFFICES ASSUME NEW i \in 1 .. Len(names) PROVE names[i] \in Known
      OBVIOUS
    <3>1. i - 1 \in Nat /\ (i - 1) + 1 = i
      BY <1>1
    <3>. QED  BY <1>3, <3>1
  <2>2. SubSeq(names, 1, Len(names)) = names
    BY SubSeqFull, Zenon
  <2>3. names \in Prefixes(names) /\ ToSet(names) = {names[i] : i \in 1 .. Len(names)}
    <3>1. Len(names) \in 0 .. Len(names)
      BY <1>1
    <3>2. /\ SubSeq(names, 1, Len(names)) \in Prefixes(names)
          /\ ToSet(SubSeq(names, 1, Len(names))) = {names[i] : i \in 1 .. Len(names)}
      BY <1>2, <3>1
    <3>. QED  BY <2>2, <3>2
  <2>. QED  BY <2>1, <2>3
<1>4. CASE T # {}
  <2>1. PICK l \in T : \A k \in T : l <= k
    <3>1. T \in SUBSET Nat
      OBVIOUS
    <3>. HIDE DEF T
    <3>. QED  BY <1>4, <3>1, LeastNumber
  <2>2. l \in 0 .. Len(names) /\ names[l + 1] \notin Known
    BY <1>1, <2>1
  <2>3. \A i \in 1 .. l : names[i] \in Known
    <3>. SUFFICES ASSUME NEW i \in 1 .. l PROVE names[i] \in Known
      OBVIOUS
    <3>1. i - 1 \in Nat /\ (i - 1) + 1 = i /\ i \in 1 .. Len(names) /\ ~(l <= i - 1)
      BY <1>1, <2>2
    <3>. QED  BY <2>1, <3>1
  <2>. QED  BY <1>2, <2>2, <2>3
<1>. QED  BY <1>3, <1>4

\* Variables of known names, and those that .at() finds.
LEMMA VariablesOfNames ==
    ASSUME DictionaryInv, NEW names \in Seq(Names)
    PROVE  /\ ToSet(names) \subseteq Known =>
                  /\ [i \in DOMAIN names |-> name_to_variable[names[i]]] \in Seq(Variable)
                  /\ \A i \in DOMAIN names : name_to_variable[names[i]] \in Range(name_to_variable)
           /\ variables_of(names) \in Seq(Variable)
<1>1. ASSUME NEW q \in Seq(Names), ToSet(q) \subseteq Known
      PROVE  /\ [i \in DOMAIN q |-> name_to_variable[q[i]]] \in Seq(Variable)
             /\ \A i \in DOMAIN q : name_to_variable[q[i]] \in Range(name_to_variable)
  <2>1. Len(q) \in Nat /\ DOMAIN q = 1 .. Len(q) /\ \A i \in DOMAIN q : q[i] \in Known
    BY <1>1, ListElements
  <2>2. \A i \in DOMAIN q : name_to_variable[q[i]] \in Variable
    BY <2>1 DEF DictionaryInv, Variable
  <2>3. [i \in 1 .. Len(q) |-> name_to_variable[q[i]]] \in [1 .. Len(q) -> Variable]
    BY <2>1, <2>2
  <2>4. [i \in 1 .. Len(q) |-> name_to_variable[q[i]]] \in Seq(Variable)
    BY <2>1, <2>3, SeqDef
  <2>. QED  BY <2>1, <2>4 DEF Range, Known
<1>. DEFINE Found(p) == /\ ToSet(p) \subseteq Known
                        /\ p # names => names[Len(p) + 1] \notin Known
            found == CHOOSE p \in Prefixes(names) : Found(p)
<1>2. found \in Prefixes(names) /\ ToSet(found) \subseteq Known
  BY KnownPrefix
<1>3. \A p \in Prefixes(names) : p \in Seq(Names)
  <2>. SUFFICES ASSUME NEW l \in 0 .. Len(names) PROVE SubSeq(names, 1, l) \in Seq(Names)
    BY DEF Prefixes
  <2>1. \A i \in 1 .. l : names[i] \in Names
    BY LenProperties, ElementOfSeq
  <2>. QED  BY <2>1, LenProperties, SubSeqProperties
<1>4. variables_of(names) = [i \in DOMAIN found |-> name_to_variable[found[i]]]
  BY DEF variables_of
<1>. HIDE DEF found
<1>. QED  BY <1>1, <1>2, <1>3, <1>4

\* Types of the groups and of the letters, and where the variables of a group
\* come from.
GroupsInv ==
    /\ bdd_size <= MaxVariables
    /\ state_variables \in Seq(Seq(Variable))
    /\ input_variables \in Seq(Variable) /\ output_variables \in Seq(Variable)
    /\ exception \in {"none", "runtime_error", "out_of_range"}
    /\ \A id \in DOMAIN state_variables : \A variable \in Variables(id) :
            variable \in Indices \/ variable \in Range(name_to_variable)

\* A call makes one more group.
GroupAdded(group) ==
    /\ state_variables' = Append(state_variables, group)
    /\ group \in Seq(Variable')
    /\ \A variable \in ToSet(group) :
            variable \in Indices' \/ variable \in Range(name_to_variable')

\* There are only more variables and names afterwards.
LEMMA MoreVariables ==
    ASSUME DictionaryInv, DictionaryInv', EntriesStay
    PROVE  /\ Indices \subseteq Indices' /\ Variable \subseteq Variable'
           /\ Range(name_to_variable) \subseteq Range(name_to_variable')
           /\ Seq(Variable) \subseteq Seq(Variable')
           /\ Seq(Seq(Variable)) \subseteq Seq(Seq(Variable'))
<1>1. Indices \subseteq Indices' /\ Variable \subseteq Variable'
  <2>1. PICK n \in Nat : bdd_size' = bdd_size + n
    BY DEF EntriesStay
  <2>2. bdd_size \in Nat
    BY DEF DictionaryInv
  <2>3. Indices \subseteq Indices'
    BY <2>1, <2>2 DEF Indices
  <2>. QED  BY <2>3 DEF Variable
<1>2. Seq(Variable) \subseteq Seq(Variable')
  <2>1. \A S, T : S \subseteq T => Seq(S) \subseteq Seq(T)
    BY SeqMonotonic
  <2>. QED  BY <1>1, <2>1
<1>3. Seq(Seq(Variable)) \subseteq Seq(Seq(Variable'))
  <2>. DEFINE S == Seq(Variable)
              T == Seq(Variable')
  <2>. HIDE DEF S, T
  <2>1. S \subseteq T => Seq(S) \subseteq Seq(T)
    BY SeqMonotonic
  <2>. QED  BY <1>2, <2>1 DEF S, T
<1>4. Range(name_to_variable) \subseteq Range(name_to_variable')
  BY DEF EntriesStay, Known, Range
<1>. QED  BY <1>1, <1>2, <1>3, <1>4

\* The groups after a new one was added.
LEMMA GroupsAfter ==
    ASSUME DictionaryInv, DictionaryInv', EntriesStay,
           GroupsInv, NEW group, GroupAdded(group)
    PROVE  /\ state_variables' \in Seq(Seq(Variable'))
           /\ DOMAIN state_variables \subseteq DOMAIN state_variables'
           /\ \A id \in DOMAIN state_variables : Variables(id)' = Variables(id)
           /\ \E new \in DOMAIN state_variables' :
                  /\ DOMAIN state_variables' = DOMAIN state_variables \cup {new}
                  /\ Variables(new)' = ToSet(group)
           /\ \A id \in DOMAIN state_variables' : \A variable \in Variables(id)' :
                  variable \in Indices' \/ variable \in Range(name_to_variable')
<1>. DEFINE S == Seq(Variable')
<1>1. state_variables \in Seq(S) /\ group \in S
  BY MoreVariables DEF GroupsInv, GroupAdded
<1>2. PICK n \in Nat : n = Len(state_variables) /\ DOMAIN state_variables = 1 .. n
  BY <1>1, LenProperties
<1>3. /\ state_variables' \in Seq(S)
      /\ Len(state_variables') = n + 1
      /\ \A i \in 1 .. n : state_variables'[i] = state_variables[i]
      /\ state_variables'[n + 1] = group
  <2>. HIDE DEF S
  <2>. QED  BY <1>1, <1>2, AppendProperties DEF GroupAdded
<1>5. DOMAIN state_variables' = 1 .. n + 1
  <2>. HIDE DEF S
  <2>. QED  BY <1>3, LenProperties
<1>6. \A id \in DOMAIN state_variables : Variables(id)' = Variables(id)
  BY <1>2, <1>3 DEF Variables
<1>7. Variables(n + 1)' = ToSet(group)
  BY <1>3 DEF Variables
<1>8. DOMAIN state_variables' = DOMAIN state_variables \cup {n + 1} /\ n + 1 \in DOMAIN state_variables'
  BY <1>2, <1>5
<1>9. ASSUME NEW id \in DOMAIN state_variables', NEW variable \in Variables(id)'
      PROVE  variable \in Indices' \/ variable \in Range(name_to_variable')
  <2>1. CASE id \in DOMAIN state_variables
    BY <1>6, <1>9, <2>1, MoreVariables DEF GroupsInv
  <2>2. CASE id = n + 1
    BY <1>7, <1>9, <2>2 DEF GroupAdded
  <2>. QED  BY <1>8, <2>1, <2>2
<1>. QED  BY <1>3, <1>6, <1>7, <1>8, <1>9

\* The group of an automaton whose variables are made for it: the next indices.
LEMMA NumberedGroup ==
    ASSUME DictionaryInv, DictionaryInv', NEW variable_count \in Nat,
           bdd_size' = bdd_size + variable_count, create_state_variables(variable_count)
    PROVE  \E group : /\ GroupAdded(group)
                      /\ ToSet(group) = bdd_size .. bdd_size + variable_count - 1
<1>. DEFINE I == 1 .. variable_count
<1>0. bdd_size \in Nat
  BY DEF DictionaryInv
<1>1. PICK group : group = [i \in I |-> bdd_size + i - 1]
  OBVIOUS
<1>2. ToSet(group) = bdd_size .. bdd_size + variable_count - 1
  <2>1. \A i \in I : bdd_size + i - 1 \in bdd_size .. bdd_size + variable_count - 1
    BY <1>0
  <2>2. ASSUME NEW t \in bdd_size .. bdd_size + variable_count - 1 PROVE t \in ToSet(group)
    <3>1. t - bdd_size + 1 \in I /\ bdd_size + (t - bdd_size + 1) - 1 = t
      BY <1>0
    <3>2. group[t - bdd_size + 1] = t /\ t - bdd_size + 1 \in DOMAIN group
      BY <1>1, <3>1
    <3>. QED  BY <3>2 DEF ToSet
  <2>. QED  BY <1>1, <2>1, <2>2 DEF ToSet
<1>3. bdd_size .. bdd_size + variable_count - 1 \subseteq Indices'
  BY <1>0 DEF Indices
<1>4. group \in Seq(Variable')
  <2>1. \A i \in I : group[i] \in ToSet(group)
    BY <1>1 DEF ToSet
  <2>2. group \in [1 .. variable_count -> Variable']
    BY <1>1, <1>2, <1>3, <2>1 DEF Variable
  <2>. QED  BY <2>2, SeqDef
<1>5. state_variables' = Append(state_variables, group)
  BY <1>1 DEF create_state_variables, new_state_variables
<1>. QED  BY <1>2, <1>3, <1>4, <1>5 DEF GroupAdded

\* The group of an automaton whose variables have names.
LEMMA NamedGroup ==
    ASSUME DictionaryInv', NEW names \in NameLists, ToSet(names) \subseteq Known',
           create_named_state_variables(names)
    PROVE  \E group : /\ GroupAdded(group) /\ Len(group) = Len(names)
                      /\ \A i \in 1 .. Len(names) : group[i] = name_to_variable'[names[i]]
<1>0. Len(names) \in Nat /\ DOMAIN names = 1 .. Len(names)
      /\ \A i \in 1 .. Len(names) : names[i] \in Known'
  BY NamesAssumption, ListElements
<1>1. PICK group : group = [i \in 1 .. Len(names) |-> name_to_variable'[names[i]]]
  OBVIOUS
<1>2. \A i \in 1 .. Len(names) : /\ group[i] = name_to_variable'[names[i]]
                                 /\ group[i] \in Variable' /\ group[i] \in Range(name_to_variable')
  BY <1>0, <1>1 DEF DictionaryInv, Variable, Range, Known
<1>3. group \in [1 .. Len(names) -> Variable']
  BY <1>1, <1>2
<1>4. group \in Seq(Variable') /\ Len(group) = Len(names)
  BY <1>0, <1>3, SeqDef
<1>5. state_variables' = Append(state_variables, group)
  BY <1>0, <1>1 DEF create_named_state_variables
<1>6. \A variable \in ToSet(group) : variable \in Range(name_to_variable')
  BY <1>1, <1>2 DEF ToSet
<1>. QED  BY <1>2, <1>4, <1>5, <1>6 DEF GroupAdded

\* The group of a product has the variables of both factors, that of a complement
\* those of the automaton.
LEMMA SharedGroup ==
    ASSUME GroupsInv, UNCHANGED <<bdd_size, name_to_variable>>
    PROVE  /\ \A automaton_ids \in Pairs : create_product_state_space(automaton_ids) =>
                  \E group : /\ GroupAdded(group)
                             /\ ToSet(group) =
                                  Variables(automaton_ids[1]) \cup Variables(automaton_ids[2])
           /\ \A automaton_id \in DOMAIN state_variables :
                  create_complement_state_space(automaton_id) =>
                      \E group : GroupAdded(group) /\ ToSet(group) = Variables(automaton_id)
<1>1. \A id \in DOMAIN state_variables : state_variables[id] \in Seq(Variable)
  BY LenProperties, ElementOfSeq DEF GroupsInv
<1>2. Indices' = Indices /\ Variable' = Variable
  BY DEF Indices, Variable
<1>3. \A group \in Seq(Variable) :
          /\ state_variables' = Append(state_variables, group)
          /\ ToSet(group) \subseteq Indices \cup Range(name_to_variable)
          => GroupAdded(group)
  BY <1>2 DEF GroupAdded
<1>4. \A id \in DOMAIN state_variables : Variables(id) \subseteq Indices \cup Range(name_to_variable)
  BY DEF GroupsInv
<1>5. ASSUME NEW automaton_ids \in Pairs, create_product_state_space(automaton_ids)
      PROVE  \E group : /\ GroupAdded(group)
                        /\ ToSet(group) =
                             Variables(automaton_ids[1]) \cup Variables(automaton_ids[2])
  <2>1. PICK a \in DOMAIN state_variables, b \in DOMAIN state_variables : automaton_ids = <<a, b>>
    BY DEF Pairs
  <2>. DEFINE s == state_variables[a]
              t == state_variables[b]
              seqs == [i \in DOMAIN automaton_ids |-> state_variables[automaton_ids[i]]]
  <2>2. seqs = <<s, t>>
    BY <2>1
  <2>3. s \in Seq(Variable) /\ t \in Seq(Variable)
    BY <1>1
  <2>4. FlattenSeq(seqs) = s \o t
    <3>. HIDE DEF seqs, s, t
    <3>. QED  BY <2>2, <2>3, FlattenPair
  <2>5. s \o t \in Seq(Variable) /\ ToSet(s \o t) = ToSet(s) \cup ToSet(t)
    <3>. HIDE DEF s, t
    <3>. QED  BY <2>3, JoinedElements
  <2>6. state_variables' = Append(state_variables, s \o t)
    BY <1>5, <2>4 DEF create_product_state_space
  <2>7. ToSet(s) = Variables(automaton_ids[1]) /\ ToSet(t) = Variables(automaton_ids[2])
    BY <2>1 DEF Variables
  <2>8. ToSet(s \o t) \subseteq Indices \cup Range(name_to_variable)
    BY <1>4, <2>1, <2>5, <2>7
  <2>. HIDE DEF s, t
  <2>. QED  BY <1>3, <2>5, <2>6, <2>7, <2>8
<1>6. ASSUME NEW automaton_id \in DOMAIN state_variables,
             create_complement_state_space(automaton_id)
      PROVE  \E group : GroupAdded(group) /\ ToSet(group) = Variables(automaton_id)
  BY <1>1, <1>3, <1>4, <1>6 DEF create_complement_state_space, Variables
<1>. QED  BY <1>5, <1>6

\* Letters are added to a side that has some already.
LEMMA MoreLetters ==
    ASSUME DictionaryInv, DictionaryInv', EntriesStay, NEW names \in NameLists,
           ToSet(names) \subseteq Known', NEW letters \in Seq(Variable)
    PROVE  letters \o [i \in DOMAIN names |-> name_to_variable'[names[i]]] \in Seq(Variable')
<1>0. Len(names) \in Nat /\ DOMAIN names = 1 .. Len(names)
      /\ \A i \in 1 .. Len(names) : names[i] \in Known'
  BY NamesAssumption, ListElements
<1>1. [i \in 1 .. Len(names) |-> name_to_variable'[names[i]]] \in [1 .. Len(names) -> Variable']
  BY <1>0 DEF DictionaryInv, Variable
<1>2. PICK more \in Seq(Variable') : more = [i \in DOMAIN names |-> name_to_variable'[names[i]]]
  <2>1. [i \in DOMAIN names |-> name_to_variable'[names[i]]] =
            [i \in 1 .. Len(names) |-> name_to_variable'[names[i]]]
    BY <1>0
  <2>2. [i \in 1 .. Len(names) |-> name_to_variable'[names[i]]] \in Seq(Variable')
    BY <1>0, <1>1, SeqDef
  <2>. QED  BY <2>1, <2>2
<1>3. letters \in Seq(Variable')
  BY MoreVariables
<1>. QED  BY <1>2, <1>3, ConcatProperties

\* After a call that makes a group.
LEMMA GroupAddedTypes ==
    ASSUME DictionaryInv, DictionaryInv', EntriesStay, GroupsInv, bdd_size' <= MaxVariables,
           NEW group, GroupAdded(group), exception' = "none",
           UNCHANGED <<input_variables, output_variables>>
    PROVE  GroupsInv'
<1>1. /\ state_variables' \in Seq(Seq(Variable'))
      /\ \A id \in DOMAIN state_variables' : \A variable \in Variables(id)' :
             variable \in Indices' \/ variable \in Range(name_to_variable')
  BY GroupsAfter
<1>2. input_variables' \in Seq(Variable') /\ output_variables' \in Seq(Variable')
  BY MoreVariables DEF GroupsInv
<1>. QED  BY <1>1, <1>2 DEF GroupsInv

\* After a call that makes none.
LEMMA GroupsStayTypes ==
    ASSUME DictionaryInv, DictionaryInv', EntriesStay, GroupsInv, bdd_size' <= MaxVariables,
           exception' \in {"none", "runtime_error", "out_of_range"},
           UNCHANGED state_variables,
           input_variables' \in Seq(Variable') , output_variables' \in Seq(Variable')
    PROVE  GroupsInv'
<1>1. state_variables' \in Seq(Seq(Variable'))
  BY MoreVariables DEF GroupsInv
<1>2. ASSUME NEW id \in DOMAIN state_variables', NEW variable \in Variables(id)'
      PROVE  variable \in Indices' \/ variable \in Range(name_to_variable')
  <2>1. id \in DOMAIN state_variables /\ variable \in Variables(id)
    BY <1>2 DEF Variables
  <2>. QED  BY <2>1, MoreVariables DEF GroupsInv
<1>. QED  BY <1>1, <1>2 DEF GroupsInv

\* Every call keeps groups and letters well typed.
LEMMA NextGroupsInv ==
    ASSUME StateNamesAreDistinct, NoStateNamesAreListed, DictionaryInv, NextNamesAreFree,
           GroupsInv, [Next]_vars
    PROVE  GroupsInv'
<1>0. DictionaryInv' /\ EntriesStay /\ bdd_size \in Nat
  BY NextDictionary DEF DictionaryInv
<1>l. input_variables \in Seq(Variable') /\ output_variables \in Seq(Variable')
  BY <1>0, MoreVariables DEF GroupsInv
<1>1. ASSUME NEW names \in NameLists, create_named_variables(names) PROVE GroupsInv'
  <2>1. bdd_size' = bdd_size + Cardinality(fresh(names))
    BY <1>1, NamedVariablesRegistered, NamesAssumption DEF create_named_variables
  <2>. QED  BY <1>0, <1>1, <1>l, <2>1, GroupsStayTypes DEF create_named_variables
<1>2. ASSUME NEW variable_count \in Widths, create_state_variables(variable_count) PROVE GroupsInv'
  <2>1. variable_count \in Nat
    BY DEF Widths
  <2>2. bdd_size' = bdd_size + variable_count
    BY <1>2, <2>1, StateVariablesRegistered DEF create_state_variables
  <2>3. PICK group : GroupAdded(group)
    BY <1>0, <1>2, <2>1, <2>2, NumberedGroup
  <2>. QED  BY <1>0, <1>2, <2>2, <2>3, GroupAddedTypes DEF create_state_variables
<1>3. ASSUME NEW names \in NameLists, create_named_state_variables(names) PROVE GroupsInv'
  <2>1. bdd_size' = bdd_size + Cardinality(fresh(names)) /\ ToSet(names) \subseteq Known'
    BY <1>3, NamedVariablesRegistered, NamesAssumption DEF create_named_state_variables
  <2>2. PICK group : GroupAdded(group)
    BY <1>0, <1>3, <2>1, NamedGroup
  <2>. QED  BY <1>0, <1>3, <2>1, <2>2, GroupAddedTypes DEF create_named_state_variables
<1>4. ASSUME NEW automaton_ids \in Pairs, create_product_state_space(automaton_ids)
      PROVE  GroupsInv'
  <2>1. UNCHANGED <<bdd_size, name_to_variable, input_variables, output_variables>>
        /\ exception' = "none"
    BY <1>4 DEF create_product_state_space
  <2>2. PICK group : GroupAdded(group)
    BY <1>4, <2>1, SharedGroup
  <2>3. bdd_size' <= MaxVariables
    BY <2>1 DEF GroupsInv
  <2>. QED  BY <1>0, <2>1, <2>2, <2>3, GroupAddedTypes
<1>5. ASSUME NEW automaton_id \in DOMAIN state_variables,
             create_complement_state_space(automaton_id)
      PROVE  GroupsInv'
  <2>1. UNCHANGED <<bdd_size, name_to_variable, input_variables, output_variables>>
        /\ exception' = "none"
    BY <1>5 DEF create_complement_state_space
  <2>2. PICK group : GroupAdded(group)
    BY <1>5, <2>1, SharedGroup
  <2>3. bdd_size' <= MaxVariables
    BY <2>1 DEF GroupsInv
  <2>. QED  BY <1>0, <2>1, <2>2, <2>3, GroupAddedTypes
<1>6. ASSUME NEW names \in NameLists,
             create_input_variables(names) \/ create_output_variables(names)
      PROVE  GroupsInv'
  <2>1. /\ name_to_variable' = with_nulls(names) /\ exception' = "none"
        /\ UNCHANGED <<bdd_size, index_to_name, state_variables>>
    BY <1>6 DEF create_input_variables, create_output_variables
  <2>2. ToSet(names) \subseteq Known' /\ bdd_size' <= MaxVariables
    BY <2>1, NullsRegistered DEF GroupsInv
  <2>3. /\ input_variables \o [i \in DOMAIN names |-> name_to_variable'[names[i]]]
              \in Seq(Variable')
        /\ output_variables \o [i \in DOMAIN names |-> name_to_variable'[names[i]]]
              \in Seq(Variable')
    BY <1>0, <2>2, MoreLetters DEF GroupsInv
  <2>4. input_variables' \in Seq(Variable') /\ output_variables' \in Seq(Variable')
    BY <1>6, <1>l, <2>3 DEF create_input_variables, create_output_variables
  <2>. QED  BY <1>0, <2>1, <2>2, <2>4, GroupsStayTypes
<1>7. ASSUME NEW input_names \in NameLists, NEW output_names \in NameLists,
             partition_variables(input_names, output_names)
      PROVE  GroupsInv'
  <2>1. UNCHANGED <<bdd_size, state_variables>> /\ bdd_size' <= MaxVariables
    BY <1>7 DEF partition_variables, GroupsInv
  <2>2. input_names \in Seq(Names) /\ output_names \in Seq(Names)
    BY NamesAssumption
  <2>3. /\ variables_of(input_names) \in Seq(Variable')
        /\ variables_of(output_names) \in Seq(Variable')
    BY <1>0, <2>2, VariablesOfNames, MoreVariables
  <2>4. /\ input_variables' \in {input_variables, variables_of(input_names)}
        /\ output_variables' \in {output_variables, variables_of(output_names)}
        /\ exception' \in {"none", "runtime_error", "out_of_range"}
    BY <1>7 DEF partition_variables
  <2>5. input_variables' \in Seq(Variable') /\ output_variables' \in Seq(Variable')
    BY <1>l, <2>3, <2>4
  <2>. QED  BY <1>0, <2>1, <2>4, <2>5, GroupsStayTypes
<1>8. CASE UNCHANGED vars
  BY <1>0, <1>8, <1>l, GroupsStayTypes DEF vars, GroupsInv
<1>. QED  BY <1>1, <1>2, <1>3, <1>4, <1>5, <1>6, <1>7, <1>8 DEF Next

\* There is no group and no letter at first.
LEMMA InitGroupsInv == Init => GroupsInv
<1>. SUFFICES ASSUME Init PROVE GroupsInv
  OBVIOUS
<1>1. <<>> \in Seq(Seq(Variable)) /\ <<>> \in Seq(Variable)
  BY EmptySeq
<1>2. 0 <= MaxVariables
  BY BoundsAssumption
<1>. QED  BY <1>1, <1>2 DEF Init, GroupsInv

\* The invariants of the manager together.
ManagerInv == DictionaryInv /\ NextNamesAreFree /\ GroupsInv

THEOREM ManagerInvariant ==
    ASSUME StateNamesAreDistinct, NoStateNamesAreListed
    PROVE  Spec => []ManagerInv
<1>1. Init => ManagerInv
  BY InitDictionary, InitGroupsInv DEF ManagerInv
<1>2. ManagerInv /\ [Next]_vars => ManagerInv'
  BY NextDictionary, NextGroupsInv DEF ManagerInv
<1>. QED  BY <1>1, <1>2, PTL DEF Spec

\* The maps go from known names to indices and back; groups and letters are lists
\* of variables.
THEOREM TypeCorrect ==
    ASSUME StateNamesAreDistinct, NoStateNamesAreListed
    PROVE  Spec => []TypeOK
<1>1. ManagerInv => TypeOK
  <2>. SUFFICES ASSUME ManagerInv PROVE TypeOK
    OBVIOUS
  <2>1. bdd_size \in 0 .. MaxVariables /\ state_variable_count \in Nat
    BY BoundsAssumption DEF ManagerInv, DictionaryInv, GroupsInv, NextNamesAreFree
  <2>2. Range(name_to_variable) \subseteq Variable /\ Range(index_to_name) \subseteq Names
    BY DEF ManagerInv, DictionaryInv, Known, Range, Variable
  <2>. QED  BY <2>1, <2>2 DEF ManagerInv, DictionaryInv, GroupsInv, Variable, TypeOK
<1>. QED  BY <1>1, ManagerInvariant, PTL

-----------------------------------------------------------------------------
(* The vectors handed to CUDD *)

\* A list in which nothing occurs twice has each element at its own position last.
LEMMA OnlyPosition ==
    ASSUME NEW S, NEW s \in Seq(S), IsInjective(s), NEW i \in DOMAIN s
    PROVE  /\ {j \in 1 .. Len(s) : s[j] = s[i]} = {i}
           /\ Max({i}) = i
<1>1. DOMAIN s = 1 .. Len(s) /\ Len(s) \in Nat
  BY LenProperties
<1>. QED  BY <1>1 DEF IsInjective, Max

\* Substituting a transition function replaces the i-th variable of the automaton
\* by its i-th component and leaves every other variable as it is.
THEOREM ComposesOnlyItsOwnVariablesTheorem ==
    ASSUME StateNamesAreDistinct, NoStateNamesAreListed
    PROVE  Spec => []ComposesOnlyItsOwnVariables
<1>1. ASSUME ManagerInv, SlotInv PROVE ComposesOnlyItsOwnVariables
  <2>. SUFFICES ASSUME NEW id \in DOMAIN state_variables, NoNulls,
                       IsInjective(state_variables[id])
                PROVE  /\ \A i \in DOMAIN state_variables[id] :
                            make_compose_vector(id)[state_variables[id][i]] = StateBdd(i)
                       /\ \A index \in Indices \ Variables(id) :
                            make_compose_vector(id)[index] = Itself(index)
    BY DEF ComposesOnlyItsOwnVariables
  <2>. DEFINE s == state_variables[id]
              vector == make_compose_vector(id)
              Slots == 0 .. total_variable_count - 1
  <2>1. Indices \subseteq Slots
    <3>1. Cardinality(Known) \in Nat
      BY <1>1, FS_CardinalityType DEF SlotInv
    <3>2. bdd_size \in Nat /\ total_variable_count \in Nat /\ bdd_size <= total_variable_count
      BY <1>1, <3>1 DEF SlotInv, total_variable_count
    <3>. QED  BY <3>2 DEF Indices
  <2>2. nullptr \notin Range(name_to_variable) /\ Range(name_to_variable) \subseteq Indices
    BY <1>1 DEF NoNulls, ManagerInv, DictionaryInv, Range, Known
  <2>3. Variables(id) \subseteq Indices
    BY <1>1, <2>2 DEF ManagerInv, GroupsInv
  <2>4. s \in Seq(Variable) /\ \A i \in DOMAIN s : s[i] \in Variables(id)
    <3>1. s \in Seq(Variable)
      BY <1>1, LenProperties, ElementOfSeq DEF ManagerInv, GroupsInv
    <3>. HIDE DEF s
    <3>2. \A i \in DOMAIN s : s[i] \in ToSet(s)
      BY <3>1, ListElements
    <3>. QED  BY <3>1, <3>2 DEF Variables, s
  <2>5. ASSUME NEW i \in DOMAIN s PROVE vector[s[i]] = StateBdd(i)
    <3>1. s[i] \in Slots /\ s[i] \in Variables(id)
      BY <2>1, <2>3, <2>4
    <3>2. {j \in 1 .. Len(s) : s[j] = s[i]} = {i} /\ Max({i}) = i
      <4>. HIDE DEF s
      <4>1. IsInjective(s)
        BY DEF s
      <4>. QED  BY <2>4, <4>1, OnlyPosition
    <3>. DEFINE last == SelectLastInSeq(s, LAMBDA variable : variable = s[i])
    <3>3. last = i
      BY <3>2 DEF SelectLastInSeq
    <3>4. vector[s[i]] = StateBdd(last)
      BY <3>1 DEF make_compose_vector
    <3>. QED  BY <3>3, <3>4
  <2>6. ASSUME NEW index \in Indices \ Variables(id) PROVE vector[index] = Itself(index)
    <3>1. index \in Slots /\ index \in Range(name_to_variable)
      BY <1>1, <2>1 DEF ManagerInv, DictionaryInv, Known, Range
    <3>. QED  BY <3>1 DEF make_compose_vector
  <2>. QED  BY <2>5, <2>6
<1>2. Spec => []SlotInv
  <2>1. Init => SlotInv
    BY FS_EmptySet DEF Init, SlotInv, total_variable_count, Known
  <2>. QED  BY <2>1, NextSlotInv, PTL DEF Spec
<1>. QED  BY <1>1, <1>2, ManagerInvariant, PTL

-----------------------------------------------------------------------------
(* How many state variables there are *)

GroupVariables == UNION {Variables(id) : id \in DOMAIN state_variables}

\* The count of state variables is exact as long as the manager made them all.
CountInv ==
    OnlyGeneratedStateNames =>
        IsFiniteSet(GroupVariables) /\ Cardinality(GroupVariables) = state_variable_count

\* If the manager made every state variable after a call, it did before.
LEMMA OnlyGeneratedBefore ==
    ASSUME ManagerInv, DictionaryInv', EntriesStay, OnlyGeneratedStateNames',
           \A id \in DOMAIN state_variables :
               id \in DOMAIN state_variables' /\ Variables(id)' = Variables(id)
    PROVE  OnlyGeneratedStateNames /\ GroupVariables \subseteq Indices
<1>1. ASSUME NEW id \in DOMAIN state_variables, NEW variable \in Variables(id)
      PROVE  variable \in Indices /\ index_to_name[variable] \in StateNames
  <2>1. variable \in Indices' /\ index_to_name'[variable] \in StateNames
    BY <1>1 DEF OnlyGeneratedStateNames, StateNames
  <2>2. variable # nullptr
    BY <2>1, NullAssumption DEF Indices, DictionaryInv
  <2>3. variable \in Indices
    BY <1>1, <2>2 DEF ManagerInv, GroupsInv, DictionaryInv, Range, Known
  <2>. QED  BY <2>1, <2>3 DEF EntriesStay
<1>. QED  BY <1>1 DEF OnlyGeneratedStateNames, GroupVariables

\* A new group adds its variables to those of the others.
LEMMA GroupVariablesAfter ==
    ASSUME ManagerInv, DictionaryInv', EntriesStay, NEW group, GroupAdded(group)
    PROVE  /\ \A id \in DOMAIN state_variables :
                  id \in DOMAIN state_variables' /\ Variables(id)' = Variables(id)
           /\ GroupVariables' = GroupVariables \cup ToSet(group)
           /\ \E new \in DOMAIN state_variables' : Variables(new)' = ToSet(group)
<1>1. /\ DOMAIN state_variables \subseteq DOMAIN state_variables'
      /\ \A id \in DOMAIN state_variables : Variables(id)' = Variables(id)
      /\ \E new \in DOMAIN state_variables' :
              /\ DOMAIN state_variables' = DOMAIN state_variables \cup {new}
              /\ Variables(new)' = ToSet(group)
  BY GroupsAfter DEF ManagerInv
<1>2. PICK new \in DOMAIN state_variables' :
          /\ DOMAIN state_variables' = DOMAIN state_variables \cup {new}
          /\ Variables(new)' = ToSet(group)
  BY <1>1
<1>3. GroupVariables' = UNION {Variables(id)' : id \in DOMAIN state_variables'}
  BY DEF GroupVariables
<1>4. ASSUME NEW x PROVE x \in GroupVariables' <=> x \in GroupVariables \cup ToSet(group)
  BY <1>1, <1>2, <1>3 DEF GroupVariables
<1>. QED  BY <1>1, <1>4

\* Every call keeps the count exact.
LEMMA NextCountInv ==
    ASSUME StateNamesAreDistinct, NoStateNamesAreListed, ManagerInv, CountInv, [Next]_vars
    PROVE  CountInv'
<1>. SUFFICES ASSUME OnlyGeneratedStateNames'
              PROVE  /\ IsFiniteSet(GroupVariables')
                     /\ Cardinality(GroupVariables') = state_variable_count'
  BY DEF CountInv
<1>0. /\ DictionaryInv /\ DictionaryInv' /\ EntriesStay /\ NextNamesAreFree /\ GroupsInv
      /\ bdd_size \in Nat /\ state_variable_count \in Nat
  BY NextDictionary DEF ManagerInv, DictionaryInv, NextNamesAreFree
<1>1. ASSUME UNCHANGED <<state_variables, state_variable_count>>
      PROVE  /\ IsFiniteSet(GroupVariables')
             /\ Cardinality(GroupVariables') = state_variable_count'
  <2>1. /\ \A id \in DOMAIN state_variables :
               id \in DOMAIN state_variables' /\ Variables(id)' = Variables(id)
        /\ GroupVariables' = GroupVariables
    BY <1>1 DEF Variables, GroupVariables
  <2>2. OnlyGeneratedStateNames
    BY <1>0, <2>1, OnlyGeneratedBefore
  <2>. QED  BY <1>1, <2>1, <2>2 DEF CountInv
<1>2. ASSUME NEW group, GroupAdded(group)
      PROVE  /\ IsFiniteSet(GroupVariables)
             /\ Cardinality(GroupVariables) = state_variable_count
             /\ GroupVariables \subseteq Indices
             /\ GroupVariables' = GroupVariables \cup ToSet(group)
             /\ \A variable \in ToSet(group) :
                    variable \in Indices' /\ index_to_name'[variable] \in StateNames
  <2>1. /\ \A id \in DOMAIN state_variables :
                id \in DOMAIN state_variables' /\ Variables(id)' = Variables(id)
        /\ GroupVariables' = GroupVariables \cup ToSet(group)
    BY <1>0, <1>2, GroupVariablesAfter
  <2>2. PICK new \in DOMAIN state_variables' : Variables(new)' = ToSet(group)
    BY <1>0, <1>2, GroupVariablesAfter
  <2>3. OnlyGeneratedStateNames /\ GroupVariables \subseteq Indices
    BY <1>0, <2>1, OnlyGeneratedBefore
  <2>. QED  BY <2>1, <2>2, <2>3 DEF CountInv, OnlyGeneratedStateNames, StateNames
<1>3. ASSUME NEW variable_count \in Widths, create_state_variables(variable_count)
      PROVE  /\ IsFiniteSet(GroupVariables')
             /\ Cardinality(GroupVariables') = state_variable_count'
  <2>1. /\ variable_count \in Nat /\ register(state_names(variable_count))
        /\ state_variable_count' = state_variable_count + variable_count
    BY <1>3 DEF Widths, create_state_variables
  <2>2. bdd_size' = bdd_size + variable_count
    BY <1>0, <2>1, StateVariablesRegistered
  <2>. DEFINE T == bdd_size .. bdd_size + variable_count - 1
  <2>3. PICK group : GroupAdded(group) /\ ToSet(group) = T
    BY <1>0, <1>3, <2>1, <2>2, NumberedGroup
  <2>4. IsFiniteSet(T) /\ Cardinality(T) = variable_count
    <3>1. /\ bdd_size \in Int /\ bdd_size + variable_count - 1 \in Int
          /\ bdd_size > bdd_size + variable_count - 1 <=> variable_count = 0
      BY <1>0, <2>1
    <3>2. IsFiniteSet(T) /\ Cardinality(T) =
              IF bdd_size > bdd_size + variable_count - 1 THEN 0
              ELSE (bdd_size + variable_count - 1) - bdd_size + 1
      BY <3>1, FS_Interval
    <3>. QED  BY <1>0, <2>1, <3>1, <3>2
  <2>5. Indices \cap T = {}
    BY <1>0 DEF Indices
  <2>6. /\ IsFiniteSet(GroupVariables)
        /\ Cardinality(GroupVariables) = state_variable_count
        /\ GroupVariables \subseteq Indices
        /\ GroupVariables' = GroupVariables \cup T
    BY <1>2, <2>3
  <2>. HIDE DEF T
  <2>7. GroupVariables \cap T = {}
    BY <2>5, <2>6
  <2>8. /\ IsFiniteSet(GroupVariables \cup T)
        /\ Cardinality(GroupVariables \cup T) =
               Cardinality(GroupVariables) + Cardinality(T) - Cardinality(GroupVariables \cap T)
    BY <2>4, <2>6, FS_Union
  <2>. QED  BY <1>0, <2>1, <2>4, <2>6, <2>7, <2>8, FS_EmptySet
<1>4. ASSUME NEW names \in NameLists, create_named_state_variables(names)
      PROVE  /\ IsFiniteSet(GroupVariables')
             /\ Cardinality(GroupVariables') = state_variable_count'
  <2>1. /\ register(new_variables(names))
        /\ state_variable_count' = state_variable_count + Len(names)
    BY <1>4 DEF create_named_state_variables
  <2>2. ToSet(names) \subseteq Known'
    BY <1>0, <2>1, NamedVariablesRegistered, NamesAssumption
  <2>3. PICK group : /\ GroupAdded(group) /\ Len(group) = Len(names)
                     /\ \A i \in 1 .. Len(names) : group[i] = name_to_variable'[names[i]]
    BY <1>0, <1>4, <2>2, NamedGroup
  <2>4. /\ Len(names) \in Nat /\ \A i \in 1 .. Len(names) : names[i] \in ToSet(names)
        /\ names \in Seq(Names)
    BY NamesAssumption, ListElements
  <2>5. group \in Seq(Variable') /\ DOMAIN group = 1 .. Len(names)
    BY <2>3, LenProperties DEF GroupAdded
  <2>6. Len(names) = 0
    <3>. SUFFICES ASSUME Len(names) # 0 PROVE FALSE
      OBVIOUS
    <3>1. 1 \in 1 .. Len(names)
      BY <2>4
    <3>2. group[1] \in ToSet(group) /\ group[1] = name_to_variable'[names[1]]
      BY <2>3, <2>5, <3>1 DEF ToSet
    <3>3. group[1] \in Indices' /\ index_to_name'[group[1]] \in StateNames
      BY <1>2, <2>3, <3>2
    <3>4. names[1] \in ToSet(names) /\ names[1] \in Known'
      BY <2>2, <2>4, <3>1
    <3>5. index_to_name'[group[1]] = names[1]
      BY <1>0, <3>2, <3>3, <3>4 DEF DictionaryInv
    <3>6. PICK k \in 0 .. MaxVariables * MaxAutomata : names[1] = StateName(k)
      BY <3>3, <3>5 DEF StateNames
    <3>. QED  BY <3>4, <3>6 DEF NoStateNamesAreListed
  <2>7. ToSet(group) = {}
    BY <2>5, <2>6 DEF ToSet
  <2>8. state_variable_count' = state_variable_count
    BY <1>0, <2>1, <2>6
  <2>9. /\ IsFiniteSet(GroupVariables)
        /\ Cardinality(GroupVariables) = state_variable_count
        /\ GroupVariables' = GroupVariables \cup ToSet(group)
    BY <1>2, <2>3
  <2>10. GroupVariables' = GroupVariables
    BY <2>7, <2>9
  <2>. QED  BY <2>8, <2>9, <2>10
<1>5. ASSUME UNCHANGED <<bdd_size, name_to_variable, state_variable_count>>,
             NEW group, GroupAdded(group), ToSet(group) \subseteq GroupVariables
      PROVE  /\ IsFiniteSet(GroupVariables')
             /\ Cardinality(GroupVariables') = state_variable_count'
  BY <1>2, <1>5
<1>6. ASSUME NEW automaton_ids \in Pairs, create_product_state_space(automaton_ids)
      PROVE  /\ IsFiniteSet(GroupVariables')
             /\ Cardinality(GroupVariables') = state_variable_count'
  <2>1. UNCHANGED <<bdd_size, name_to_variable, state_variable_count>>
    BY <1>6 DEF create_product_state_space
  <2>2. PICK group : /\ GroupAdded(group)
                     /\ ToSet(group) =
                          Variables(automaton_ids[1]) \cup Variables(automaton_ids[2])
    BY <1>0, <1>6, <2>1, SharedGroup
  <2>3. ToSet(group) \subseteq GroupVariables
    BY <2>2 DEF Pairs, GroupVariables
  <2>. QED  BY <1>5, <2>1, <2>2, <2>3
<1>7. ASSUME NEW automaton_id \in DOMAIN state_variables,
             create_complement_state_space(automaton_id)
      PROVE  /\ IsFiniteSet(GroupVariables')
             /\ Cardinality(GroupVariables') = state_variable_count'
  <2>1. UNCHANGED <<bdd_size, name_to_variable, state_variable_count>>
    BY <1>7 DEF create_complement_state_space
  <2>2. PICK group : GroupAdded(group) /\ ToSet(group) = Variables(automaton_id)
    BY <1>0, <1>7, <2>1, SharedGroup
  <2>3. ToSet(group) \subseteq GroupVariables
    BY <2>2 DEF GroupVariables
  <2>. QED  BY <1>5, <2>1, <2>2, <2>3
<1>. QED  BY <1>1, <1>3, <1>4, <1>6, <1>7
          DEF Next, vars, create_named_variables, create_input_variables,
              create_output_variables, partition_variables

\* A partition that names each letter exactly once is never refused for its size
\* as long as the manager made every state variable itself.
THEOREM ExactPartitionIsAcceptedTheorem ==
    ASSUME StateNamesAreDistinct, NoStateNamesAreListed
    PROVE  Spec => []ExactPartitionIsAccepted
<1>1. Init => ManagerInv /\ CountInv
  <2>1. ASSUME Init PROVE GroupVariables = {} /\ state_variable_count = 0
    BY <2>1 DEF Init, GroupVariables
  <2>. QED  BY <2>1, FS_EmptySet, InitDictionary, InitGroupsInv DEF ManagerInv, CountInv
<1>2. ManagerInv /\ CountInv /\ [Next]_vars => ManagerInv' /\ CountInv'
  BY NextDictionary, NextGroupsInv, NextCountInv DEF ManagerInv
<1>3. ASSUME ManagerInv, CountInv PROVE ExactPartitionIsAccepted
  <2>. SUFFICES ASSUME NEW input_names \in NameLists, NEW output_names \in NameLists,
                       OnlyGeneratedStateNames, Exact(input_names, output_names)
                PROVE  ~wrong_size(input_names, output_names)
    BY DEF ExactPartitionIsAccepted
  <2>. DEFINE both == input_names \o output_names
              Named == {index_to_name[index] : index \in Letters}
  <2>0. DictionaryInv /\ bdd_size \in Nat /\ state_variable_count \in Nat
    BY <1>3 DEF ManagerInv, DictionaryInv, NextNamesAreFree
  <2>1. /\ GroupVariables \subseteq Indices /\ IsFiniteSet(GroupVariables)
        /\ Cardinality(GroupVariables) = state_variable_count
    BY <1>3 DEF CountInv, OnlyGeneratedStateNames, GroupVariables
  <2>2. IsFiniteSet(Indices) /\ Cardinality(Indices) = bdd_size
    <3>1. IsFiniteSet(Indices) /\ Cardinality(Indices) =
              IF 0 > bdd_size - 1 THEN 0 ELSE (bdd_size - 1) - 0 + 1
      BY <2>0, FS_Interval DEF Indices
    <3>. QED  BY <2>0, <3>1
  <2>3. Letters = Indices \ GroupVariables
    BY DEF Letters, GroupVariables
  <2>4. IsFiniteSet(Letters) /\ Cardinality(Letters) = bdd_size - state_variable_count
    <3>1. Indices \cap GroupVariables = GroupVariables
      BY <2>1
    <3>2. /\ IsFiniteSet(Indices \ GroupVariables)
          /\ Cardinality(Indices \ GroupVariables) =
                Cardinality(Indices) - Cardinality(Indices \cap GroupVariables)
      BY <2>1, <2>2, FS_Difference
    <3>. QED  BY <2>1, <2>2, <2>3, <3>1, <3>2
  <2>5. Cardinality(Named) = Cardinality(Letters)
    <3>. DEFINE f == [index \in Letters |-> index_to_name[index]]
    <3>1. \A index \in Letters : name_to_variable[index_to_name[index]] = index
      BY <2>0, <2>3 DEF DictionaryInv
    <3>2. f \in [Letters -> Named] /\ \A name \in Named : \E index \in Letters : f[index] = name
      OBVIOUS
    <3>3. \A i, j \in Letters : f[i] = f[j] => i = j
      BY <3>1
    <3>4. f \in Bijection(Letters, Named)
      <4>. HIDE DEF f, Named
      <4>. QED  BY <3>2, <3>3, Fun_IsBij
    <3>5. ExistsBijection(Letters, Named)
      <4>. HIDE DEF f, Named
      <4>. QED  BY <3>4 DEF ExistsBijection
    <3>. HIDE DEF Named
    <3>. QED  BY <2>4, <3>5, FS_Bijection
  <2>6. /\ input_names \in Seq(Names) /\ output_names \in Seq(Names)
        /\ Len(input_names) \in Nat /\ Len(output_names) \in Nat
    BY NamesAssumption, LenProperties
  <2>7. both \in Seq(Names) /\ Len(both) = Len(input_names) + Len(output_names)
    BY <2>6, ConcatProperties
  <2>8. Cardinality(ToSet(both)) = Len(both) /\ ToSet(both) = Named
    <3>1. IsInjective(both) /\ ToSet(both) = Named
      BY DEF Exact
    <3>. HIDE DEF both, Named
    <3>. QED  BY <2>7, <3>1, ListElements
  <2>9. DOMAIN index_to_name = Indices
    BY <2>0 DEF DictionaryInv
  <2>. HIDE DEF both, Named
  <2>. QED  BY <2>0, <2>2, <2>4, <2>5, <2>7, <2>8, <2>9 DEF wrong_size
<1>. QED  BY <1>1, <1>2, <1>3, PTL DEF Spec

=============================================================================
