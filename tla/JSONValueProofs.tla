--------------------------- MODULE JSONValueProofs ---------------------------
(***************************************************************************)
(* The caches of a JSONValue agree with the value they mirror, for values  *)
(* of any size and any names: a cached wrapper stands for the element at   *)
(* its own position of the block that is in use.                           *)
(***************************************************************************)
EXTENDS JSONValue, LeastElement, SequenceTheorems, TLAPS

(***************************************************************************)
(* The value and its pool.                                                 *)
(***************************************************************************)
LEMMA ElementsTyped ==
  ASSUME TypeOK
  PROVE  /\ Elements \in Seq(Element)
         /\ Elements # <<>> => m_value.block \in DOMAIN heap
<1>1. CASE m_value.block = 0
  BY <1>1 DEF Elements
<1>2. CASE m_value.block # 0
  <2>1. m_value.block \in DOMAIN heap
    BY <1>2 DEF TypeOK
  <2>. QED BY <1>2, <2>1 DEF TypeOK, Elements
<1>. QED BY <1>1, <1>2

\* The element of a name is the first that has it.
LEMMA NamedIsThere ==
  ASSUME NEW elements \in Seq(Element), NEW n \in NamesOf(elements)
  PROVE  /\ Named(elements, n) \in DOMAIN elements
         /\ elements[Named(elements, n)].name = n
<1> DEFINE T == { i \in DOMAIN elements : elements[i].name = n }
<1>1. T \in SUBSET Nat /\ T # {}
  BY DEF NamesOf
<1>. HIDE DEF T
<1>2. Min(T) \in T
  BY <1>1, MinExists
<1>. QED BY <1>2 DEF T, Named

LEMMA LoadedMembersTyped ==
  ASSUME TypeOK, IsObject
  PROVE  /\ DOMAIN LoadedMembers \subseteq Names
         /\ \A n \in DOMAIN LoadedMembers : LoadedMembers[n] \in Wrapper
<1>1. CASE membersLoaded
  BY <1>1 DEF TypeOK, LoadedMembers
<1>2. CASE ~membersLoaded
  <2>1. \A n \in NamesOf(Elements) : Named(Elements, n) \in Nat
    <3>1. Elements \in Seq(Element)
      BY ElementsTyped
    <3>. QED BY <3>1, NamedIsThere
  <2>2. m_value.block \in Nat
    BY DEF TypeOK
  <2>3. LoadedMembers = [n \in NamesOf(Elements) |-> Fresh(m_value.block, Named(Elements, n))]
    BY <1>2 DEF LoadedMembers
  <2>4. \A n \in NamesOf(Elements) : Fresh(m_value.block, Named(Elements, n)) \in Wrapper
    BY <2>1, <2>2 DEF Fresh, Wrapper
  <2>. QED BY <2>3, <2>4 DEF TypeOK
<1>. QED BY <1>1, <1>2

LEMMA LoadedValuesTyped ==
  ASSUME TypeOK
  PROVE  LoadedValues \in Seq(Wrapper)
<1> DEFINE new == [i \in DOMAIN Elements |-> Fresh(m_value.block, i)]
<1>1. Elements \in Seq(Element)
  BY ElementsTyped
<1>2. new \in Seq(Wrapper)
  <2>1. Len(Elements) \in Nat /\ DOMAIN Elements = 1..Len(Elements)
    BY <1>1
  <2>2. \A i \in DOMAIN Elements : Fresh(m_value.block, i) \in Wrapper
    BY <2>1 DEF TypeOK, Fresh, Wrapper
  <2>. QED BY <2>1, <2>2
<1>3. values \in Seq(Wrapper)
  BY DEF TypeOK
<1>. HIDE DEF new
<1>4. values \o new \in Seq(Wrapper)
  BY <1>2, <1>3, ConcatProperties
<1>. QED BY <1>3, <1>4 DEF LoadedValues, new

\* A wrapper whose nested value was read remembers which one.
LEMMA ReadDeepTyped ==
  ASSUME NEW w \in Wrapper
  PROVE  ReadDeep(w) \in Wrapper
  BY DEF ReadDeep, Seen, Wrapper

\* A write through a wrapper changes one value and nothing of the shape.
LEMMA WriteInHeap ==
  ASSUME TypeOK, NEW w \in Wrapper, InHeap(w), NEW v \in Scalars,
         heap' = [heap EXCEPT ![w.block][w.index].value = v]
  PROVE  /\ heap' \in Seq(Seq(Element))
         /\ Len(heap') = Len(heap)
         /\ \A b \in DOMAIN heap :
              /\ DOMAIN heap'[b] = DOMAIN heap[b]
              /\ Len(heap'[b]) = Len(heap[b])
              /\ \A i \in DOMAIN heap[b] :
                   /\ heap'[b][i].name = heap[b][i].name
                   /\ heap'[b][i].value = IF b = w.block /\ i = w.index THEN v
                                          ELSE heap[b][i].value
<1> DEFINE old == heap[w.block]
           new == [old EXCEPT ![w.index].value = v]
<1>1. w.block \in DOMAIN heap /\ w.index \in DOMAIN old /\ heap \in Seq(Seq(Element))
  BY DEF InHeap, TypeOK
<1>2. old \in Seq(Element) /\ old[w.index] \in Element
  BY <1>1
<1>3. [old[w.index] EXCEPT !.value = v] \in Element
  BY <1>2 DEF Element, Values
<1>4. new \in Seq(Element) /\ Len(new) = Len(old) /\ DOMAIN new = DOMAIN old
  BY <1>1, <1>2, <1>3
<1>5. \A i \in DOMAIN old : /\ new[i].name = old[i].name
                            /\ new[i].value = IF i = w.index THEN v ELSE old[i].value
  <2>1. new[w.index] = [old[w.index] EXCEPT !.value = v]
    BY <1>1
  <2>2. new[w.index].name = old[w.index].name /\ new[w.index].value = v
    BY <1>2, <2>1 DEF Element
  <2>. QED BY <1>1, <2>2
<1>6. heap' = [heap EXCEPT ![w.block] = new]
  OBVIOUS
<1>. HIDE DEF old, new
<1>7. heap' \in Seq(Seq(Element)) /\ Len(heap') = Len(heap)
  <2>1. heap' \in [1..Len(heap) -> Seq(Element)]
    <3>1. heap \in [1..Len(heap) -> Seq(Element)]
      BY <1>1, LenProperties
    <3>. QED BY <1>4, <1>6, <3>1
  <2>2. Len(heap) \in Nat
    BY <1>1
  <2>. QED BY <2>1, <2>2
<1>8. \A b \in DOMAIN heap : heap'[b] = IF b = w.block THEN new ELSE heap[b]
  BY <1>1, <1>6
<1>. QED BY <1>4, <1>5, <1>7, <1>8 DEF old

\* An element is appended to the content, in place or in a new block.
LEMMA AppendAppends ==
  ASSUME TypeOK, NEW e \in Element, AppendElement(e)
  PROVE  /\ heap' \in Seq(Seq(Element))
         /\ m_value' \in [type : Types, block : 0..Len(heap'), capacity : Nat]
         /\ m_value'.type = m_value.type
         /\ m_value'.block # 0
         /\ Elements' = Append(Elements, e)
<1>1. Elements \in Seq(Element) /\ Grown \in Nat
  <2>1. m_value.capacity \in Nat
    BY DEF TypeOK
  <2>2. (m_value.capacity + 1) \div 2 \in Nat
    BY <2>1
  <2>. QED BY <2>1, <2>2, ElementsTyped, JSONAssumption DEF Grown
<1>2. Append(Elements, e) \in Seq(Element)
  BY <1>1
<1>3. ASSUME NEW c \in Nat, AppendInPlace(e, c)
      PROVE  /\ heap' \in Seq(Seq(Element))
             /\ m_value' \in [type : Types, block : 0..Len(heap'), capacity : Nat]
             /\ m_value'.type = m_value.type
             /\ m_value'.block # 0
             /\ Elements' = Append(Elements, e)
  <2>1. m_value.block \in DOMAIN heap /\ Elements = heap[m_value.block]
    BY <1>3 DEF AppendInPlace, TypeOK, Elements
  <2>2. heap' = [heap EXCEPT ![m_value.block] = Append(Elements, e)]
    BY <1>3, <2>1 DEF AppendInPlace
  <2>3. heap' \in Seq(Seq(Element)) /\ Len(heap') = Len(heap)
    BY <1>2, <2>1, <2>2 DEF TypeOK
  <2>4. heap'[m_value.block] = Append(Elements, e)
    BY <2>1, <2>2
  <2>5. /\ m_value' \in [type : Types, block : 0..Len(heap'), capacity : Nat]
        /\ m_value'.type = m_value.type
        /\ m_value'.block = m_value.block
        /\ m_value.block # 0
    BY <1>3, <2>3 DEF AppendInPlace, TypeOK
  <2>. QED BY <2>3, <2>4, <2>5 DEF Elements
<1>4. CASE AppendMoved(e)
  <2>1. heap' = Append(heap, Append(Elements, e))
    BY <1>4 DEF AppendMoved
  <2>2. /\ heap' \in Seq(Seq(Element)) /\ Len(heap') = Len(heap) + 1 /\ Len(heap) \in Nat
        /\ heap'[Len(heap) + 1] = Append(Elements, e)
    BY <1>2, <2>1 DEF TypeOK
  <2>3. /\ m_value' \in [type : Types, block : 0..Len(heap'), capacity : Nat]
        /\ m_value'.type = m_value.type
        /\ m_value'.block = Len(heap) + 1
    <3>1. m_value' = [m_value EXCEPT !.block = Len(heap) + 1, !.capacity = Grown]
      BY <1>4 DEF AppendMoved
    <3>2. m_value \in [type : Types, block : 0..Len(heap), capacity : Nat]
      BY DEF TypeOK
    <3>3. Len(heap) + 1 \in 0..Len(heap')
      BY <2>2
    <3>. QED BY <1>1, <3>1, <3>2, <3>3
  <2>. QED BY <2>2, <2>3 DEF Elements
<1>. QED BY <1>1, <1>3, <1>4 DEF AppendElement, TypeOK

\* The same, seen from the value that is wrapped.
LEMMA WriteInElements ==
  ASSUME TypeOK, NEW w \in Wrapper, InHeap(w), NEW v \in Scalars, m_value' = m_value,
         heap' = [heap EXCEPT ![w.block][w.index].value = v]
  PROVE  /\ DOMAIN Elements' = DOMAIN Elements
         /\ Len(Elements') = Len(Elements)
         /\ \A i \in DOMAIN Elements :
              /\ Elements'[i].name = Elements[i].name
              /\ Elements'[i].value = IF m_value.block = w.block /\ i = w.index THEN v
                                      ELSE Elements[i].value
         /\ NamesOf(Elements') = NamesOf(Elements)
<1>1. CASE m_value.block = 0
  <2>1. Elements = <<>> /\ Elements' = <<>>
    BY <1>1 DEF Elements
  <2>. QED BY <2>1
<1>2. CASE m_value.block # 0
  <2>1. m_value.block \in DOMAIN heap
    BY <1>2 DEF TypeOK
  <2>2. Elements = heap[m_value.block] /\ Elements' = heap'[m_value.block]
    BY <1>2 DEF Elements
  <2>3. /\ DOMAIN Elements' = DOMAIN Elements
        /\ Len(Elements') = Len(Elements)
        /\ \A i \in DOMAIN Elements :
             /\ Elements'[i].name = Elements[i].name
             /\ Elements'[i].value = IF m_value.block = w.block /\ i = w.index THEN v
                                     ELSE Elements[i].value
    BY <2>1, <2>2, WriteInHeap
  <2>. QED BY <2>3 DEF NamesOf
<1>. QED BY <1>1, <1>2

\* RemoveMember fills the hole with the last element.
LEMMA WithoutFillsHole ==
  ASSUME NEW elements \in Seq(Element), elements # <<>>, NEW n
  PROVE  /\ Without(elements, n) \in Seq(Element)
         /\ NamesOf(Without(elements, n)) \subseteq NamesOf(elements)
         /\ n \notin NamesOf(elements) => Without(elements, n) = elements
         /\ n \in NamesOf(elements) =>
              /\ Len(Without(elements, n)) = Len(elements) - 1
              /\ \A j \in 1..(Len(elements) - 1) :
                   Without(elements, n)[j] = IF j = Named(elements, n) THEN elements[Len(elements)]
                                             ELSE elements[j]
<1> DEFINE size == Len(elements)
           hole == Named(elements, n)
           rest == [j \in 1..(size - 1) |-> IF j = hole THEN elements[size] ELSE elements[j]]
<1>1. size \in Nat \ {0} /\ DOMAIN elements = 1..size
  BY EmptySeq, LenProperties
<1>2. \A j \in 1..size : elements[j] \in Element
  BY ElementOfSeq
<1>3. CASE n \notin NamesOf(elements)
  BY <1>3 DEF Without
<1>4. CASE n \in NamesOf(elements)
  <2>1. Without(elements, n) = rest
    BY <1>4 DEF Without
  <2>2. \A j \in 1..(size - 1) : rest[j] = elements[j] \/ rest[j] = elements[size]
    OBVIOUS
  <2>3. rest \in Seq(Element) /\ Len(rest) = size - 1
    <3>1. \A j \in 1..(size - 1) : (IF j = hole THEN elements[size] ELSE elements[j]) \in Element
      BY <1>1, <1>2
    <3>2. size - 1 \in Nat
      BY <1>1
    <3>. HIDE DEF size, hole
    <3>. QED BY <3>1, <3>2
  <2>4. NamesOf(rest) \subseteq NamesOf(elements)
    <3>1. \A j \in 1..(size - 1) : j \in DOMAIN elements /\ size \in DOMAIN elements
      BY <1>1
    <3>2. DOMAIN rest = 1..(size - 1)
      OBVIOUS
    <3>3. \A j \in DOMAIN rest : \E i \in DOMAIN elements : rest[j] = elements[i]
      BY <2>2, <3>1, <3>2
    <3>. HIDE DEF rest, size
    <3>. QED BY <3>3 DEF NamesOf
  <2>. QED BY <1>4, <2>1, <2>3, <2>4
<1>. QED BY <1>3, <1>4

(***************************************************************************)
(* Types.                                                                  *)
(***************************************************************************)
\* Calls that read: only the caches change.
LEMMA ReadsAreTyped ==
  ASSUME TypeOK, heap' = heap, m_value' = m_value, free' \subseteq Nested,
         membersLoaded' \in BOOLEAN, DOMAIN members' \subseteq Names,
         \A n \in DOMAIN members' : members'[n] \in Wrapper,
         valuesLoaded' \in BOOLEAN, values' \in Seq(Wrapper),
         crashed' \in BOOLEAN, mishaps' \subseteq Mishaps
  PROVE  TypeOK'
  BY DEF TypeOK, IsObject, Elements

LEMMA SetTypeTyped ==
  ASSUME TypeOK, NEW type \in Types, SetType(type)
  PROVE  TypeOK'
<1>1. m_value' = [type |-> type, block |-> 0, capacity |-> 0] /\ heap' = heap
  BY DEF SetType
<1>2. Elements' = <<>>
  BY <1>1 DEF Elements
<1>3. NamesOf(Elements)' = {}
  BY <1>2 DEF NamesOf
<1>4. m_value' \in [type : Types, block : 0..Len(heap'), capacity : Nat]
  BY <1>1 DEF TypeOK
<1>5. /\ membersLoaded' \in BOOLEAN /\ DOMAIN members' \subseteq Names
      /\ \A n \in DOMAIN members' : members'[n] \in Wrapper
  <2>1. DOMAIN <<>> = {}
    OBVIOUS
  <2>2. CASE UNCHANGED <<membersLoaded, members>>
    BY <2>2 DEF TypeOK
  <2>3. CASE membersLoaded' = FALSE /\ members' = <<>>
    BY <2>1, <2>3
  <2>. QED BY <2>2, <2>3 DEF SetType
<1>6. valuesLoaded' \in BOOLEAN /\ values' \in Seq(Wrapper)
  <2>1. CASE UNCHANGED <<valuesLoaded, values>>
    BY <2>1 DEF TypeOK
  <2>2. CASE valuesLoaded' = FALSE /\ values' = <<>>
    <3>1. <<>> \in Seq(Wrapper)
      BY EmptySeq
    <3>. QED BY <2>2, <3>1
  <2>. QED BY <2>1, <2>2 DEF SetType
<1>7. mishaps' \subseteq Mishaps /\ UNCHANGED <<free, crashed>>
  BY DEF SetType, TypeOK, Note, Mishaps
<1>. QED BY <1>1, <1>3, <1>4, <1>5, <1>6, <1>7 DEF TypeOK

LEMMA SetScalarTyped ==
  ASSUME TypeOK, SetScalar
  PROVE  TypeOK'
<1>1. /\ m_value' = [type |-> "OTHER", block |-> 0, capacity |-> 0] /\ heap' = heap
      /\ UNCHANGED <<membersLoaded, members, valuesLoaded, values, free, crashed>>
  BY DEF SetScalar, caches
<1>2. m_value' \in [type : Types, block : 0..Len(heap'), capacity : Nat]
  BY <1>1 DEF TypeOK, Types
<1>3. ~IsObject'
  BY <1>1 DEF IsObject
<1>4. mishaps' \subseteq Mishaps
  BY DEF SetScalar, TypeOK, Note, Mishaps
<1>. QED BY <1>1, <1>2, <1>3, <1>4 DEF TypeOK

LEMMA ReadingTyped ==
  ASSUME TypeOK,
         \/ \E v \in Nested : BuildValue(v)
         \/ FailAfterLoad
         \/ \E n \in Names, deep \in BOOLEAN : GetObjectMemberValue(n, deep)
         \/ \E i \in 1..MaxElements, deep \in BOOLEAN : GetArrayValue(i, deep)
         \/ Crashed
  PROVE  TypeOK'
<1>1. ASSUME NEW v \in Nested, BuildValue(v) PROVE TypeOK'
  BY <1>1, ReadsAreTyped DEF BuildValue, caches, TypeOK
<1>2. CASE FailAfterLoad
  <2>1. DOMAIN members' \subseteq Names /\ \A n \in DOMAIN members' : members'[n] \in Wrapper
    BY <1>2, LoadedMembersTyped DEF FailAfterLoad, IsObject
  <2>. QED BY <1>2, <2>1, ReadsAreTyped DEF FailAfterLoad, TypeOK
<1>3. ASSUME NEW n \in Names, NEW deep \in BOOLEAN, GetObjectMemberValue(n, deep) PROVE TypeOK'
  <2>1. /\ DOMAIN LoadedMembers \subseteq Names
        /\ \A k \in DOMAIN LoadedMembers : LoadedMembers[k] \in Wrapper
    BY <1>3, LoadedMembersTyped DEF GetObjectMemberValue, IsObject
  <2>2. n \in DOMAIN LoadedMembers => ReadDeep(LoadedMembers[n]) \in Wrapper
    BY <2>1, ReadDeepTyped
  <2>3. /\ n \in DOMAIN LoadedMembers
        /\ members' = [LoadedMembers EXCEPT ![n] = IF deep THEN ReadDeep(@) ELSE @]
    BY <1>3 DEF GetObjectMemberValue
  <2>4. DOMAIN members' \subseteq Names /\ \A k \in DOMAIN members' : members'[k] \in Wrapper
    BY <2>1, <2>2, <2>3
  <2>. QED BY <1>3, <2>4, ReadsAreTyped DEF GetObjectMemberValue, TypeOK
<1>4. ASSUME NEW i \in 1..MaxElements, NEW deep \in BOOLEAN, GetArrayValue(i, deep) PROVE TypeOK'
  <2>1. LoadedValues \in Seq(Wrapper)
    BY LoadedValuesTyped
  <2>2. values' \in Seq(Wrapper) /\ crashed' \in BOOLEAN
    <3>1. CASE i \in DOMAIN LoadedValues
      <4>1. LoadedValues[i] \in Wrapper
        BY <2>1, <3>1
      <4>2. ReadDeep(LoadedValues[i]) \in Wrapper
        BY <4>1, ReadDeepTyped
      <4>3. values' = [LoadedValues EXCEPT ![i] = IF deep THEN ReadDeep(LoadedValues[i])
                                                   ELSE LoadedValues[i]] /\ crashed' = crashed
        BY <1>4, <3>1 DEF GetArrayValue
      <4>. HIDE DEF LoadedValues, ReadDeep
      <4>4. (IF deep THEN ReadDeep(LoadedValues[i]) ELSE LoadedValues[i]) \in Wrapper
        BY <4>1, <4>2
      <4>5. \A S : \A s \in Seq(S) : \A x \in S : \A k \in DOMAIN s : [s EXCEPT ![k] = x] \in Seq(S)
        OBVIOUS
      <4>. QED BY <2>1, <3>1, <4>3, <4>4, <4>5 DEF TypeOK
    <3>2. CASE i \notin DOMAIN LoadedValues
      BY <1>4, <2>1, <3>2 DEF GetArrayValue
    <3>. QED BY <3>1, <3>2
  <2>. QED BY <1>4, <2>2, ReadsAreTyped DEF GetArrayValue, TypeOK
<1>5. ASSUME UNCHANGED vars PROVE TypeOK'
  BY <1>5, ReadsAreTyped DEF vars, caches, TypeOK
<1>. QED BY <1>1, <1>2, <1>3, <1>4, <1>5 DEF Crashed

\* A new element of an object has a name.
LEMMA AddMemberTyped ==
  ASSUME TypeOK, NEW n \in Names, NEW v \in Values, AddMember(n, v)
  PROVE  TypeOK'
<1> DEFINE e == [name |-> n, value |-> v]
<1>1. e \in Element
  BY DEF Element
<1>2. AppendElement(e) /\ IsObject
  BY DEF AddMember, IsObject
<1>. HIDE DEF e
<1>3. /\ heap' \in Seq(Seq(Element))
      /\ m_value' \in [type : Types, block : 0..Len(heap'), capacity : Nat]
      /\ m_value'.type = m_value.type
      /\ m_value'.block # 0
      /\ Elements' = Append(Elements, e)
  BY <1>1, <1>2, AppendAppends
<1>4. Elements \in Seq(Element)
  BY ElementsTyped
<1>5. /\ Elements' \in Seq(Element) /\ NamesOf(Elements') \subseteq NamesOf(Elements) \cup {n}
      /\ n \in NamesOf(Elements')
  <2>1. Elements' \in Seq(Element) /\ Len(Elements') = Len(Elements) + 1
    BY <1>1, <1>3, <1>4
  <2>2. \A i \in 1..Len(Elements') : Elements'[i] = IF i <= Len(Elements) THEN Elements[i] ELSE e
    BY <1>1, <1>3, <1>4, AppendProperties
  <2>3. Len(Elements) \in Nat /\ DOMAIN Elements = 1..Len(Elements)
          /\ DOMAIN Elements' = 1..(Len(Elements) + 1)
    BY <1>4, <2>1
  <2>4. \A i \in DOMAIN Elements' : (i \in DOMAIN Elements /\ Elements'[i] = Elements[i]) \/ Elements'[i] = e
    BY <2>1, <2>2, <2>3
  <2>5. Len(Elements) + 1 \in DOMAIN Elements' /\ Elements'[Len(Elements) + 1] = e
    BY <2>1, <2>2, <2>3
  <2>6. e.name = n
    BY DEF e
  <2>. QED BY <2>1, <2>4, <2>5, <2>6 DEF NamesOf
<1>6. IsObject' => NamesOf(Elements)' \subseteq Names
  BY <1>2, <1>5 DEF TypeOK
<1>7. Named(heap'[m_value'.block], n) \in Nat /\ m_value'.block \in Nat
  <2>1. heap'[m_value'.block] = Elements'
    BY <1>3 DEF Elements
  <2>2. Named(Elements', n) \in DOMAIN Elements'
    BY <1>5, NamedIsThere
  <2>3. DOMAIN Elements' \subseteq Nat
    BY <1>5, LenProperties
  <2>. QED BY <1>3, <2>1, <2>2, <2>3
<1>8. /\ DOMAIN LoadedMembers \subseteq Names
      /\ \A k \in DOMAIN LoadedMembers : LoadedMembers[k] \in Wrapper
  BY <1>2, LoadedMembersTyped
<1>9. /\ membersLoaded' \in BOOLEAN /\ DOMAIN members' \subseteq Names
      /\ \A k \in DOMAIN members' : members'[k] \in Wrapper
  <2>1. InsertMember(n)
    BY DEF AddMember
  <2>2. Fresh(m_value'.block, Named(heap'[m_value'.block], n)) \in Wrapper
    BY <1>7 DEF Fresh, Wrapper
  <2>. QED BY <1>8, <2>1, <2>2 DEF InsertMember
<1>10. /\ mishaps' \subseteq Mishaps /\ free' \subseteq Nested
       /\ UNCHANGED <<valuesLoaded, values, crashed>>
  BY DEF AddMember, RemoveFreeValue, TypeOK, Note, Mishaps
<1>. QED BY <1>3, <1>6, <1>9, <1>10 DEF TypeOK

LEMMA AddArrayValueTyped ==
  ASSUME TypeOK, NEW v \in Values, AddArrayValue(v)
  PROVE  TypeOK'
<1> DEFINE e == [name |-> None, value |-> v]
<1>1. e \in Element
  BY DEF Element
<1>2. AppendElement(e) /\ IsArray
  BY DEF AddArrayValue, IsArray
<1>. HIDE DEF e
<1>3. /\ heap' \in Seq(Seq(Element))
      /\ m_value' \in [type : Types, block : 0..Len(heap'), capacity : Nat]
      /\ m_value'.type = m_value.type
      /\ m_value'.block # 0
  BY <1>1, <1>2, AppendAppends
<1>4. ~IsObject'
  BY <1>2, <1>3 DEF IsObject, IsArray
<1>5. values' \in Seq(Wrapper)
  <2>1. Len(Elements) \in Nat
    BY ElementsTyped
  <2>2. Fresh(m_value'.block, Len(Elements) + 1) \in Wrapper
    BY <1>3, <2>1 DEF Fresh, Wrapper
  <2>3. values' = Append(values, Fresh(m_value'.block, Len(Elements) + 1))
    BY DEF AddArrayValue
  <2>. QED BY <2>2, <2>3 DEF TypeOK
<1>6. /\ mishaps' \subseteq Mishaps /\ free' \subseteq Nested
      /\ UNCHANGED <<membersLoaded, members, valuesLoaded, crashed>>
  BY DEF AddArrayValue, RemoveFreeValue, TypeOK, Note, Mishaps
<1>. QED BY <1>3, <1>4, <1>5, <1>6 DEF TypeOK

LEMMA WritesTyped ==
  ASSUME TypeOK, NEW v \in Scalars,
         (\E n \in Names : WriteMember(n, v)) \/ (\E i \in 1..MaxElements : WriteArrayValue(i, v))
  PROVE  TypeOK'
<1>1. ASSUME NEW w \in Wrapper, InHeap(w), m_value' = m_value,
             heap' = [heap EXCEPT ![w.block][w.index].value = v]
      PROVE  /\ heap' \in Seq(Seq(Element))
             /\ m_value' \in [type : Types, block : 0..Len(heap'), capacity : Nat]
             /\ IsObject' => NamesOf(Elements)' \subseteq Names
  BY <1>1, WriteInHeap, WriteInElements DEF TypeOK, IsObject
<1>2. ASSUME NEW n \in Names, WriteMember(n, v) PROVE TypeOK'
  <2>1. /\ DOMAIN LoadedMembers \subseteq Names
        /\ \A k \in DOMAIN LoadedMembers : LoadedMembers[k] \in Wrapper
    BY <1>2, LoadedMembersTyped DEF WriteMember, IsObject
  <2>. QED BY <1>1, <1>2, <2>1 DEF WriteMember, TypeOK
<1>3. ASSUME NEW i \in 1..MaxElements, WriteArrayValue(i, v) PROVE TypeOK'
  <2>1. LoadedValues \in Seq(Wrapper)
    BY LoadedValuesTyped
  <2>2. LoadedValues[i] \in Wrapper
    BY <1>3, <2>1 DEF WriteArrayValue
  <2>. QED BY <1>1, <1>3, <2>1, <2>2 DEF WriteArrayValue, TypeOK
<1>. QED BY <1>2, <1>3

LEMMA RemoveMemberTyped ==
  ASSUME TypeOK, NEW n \in Names, RemoveMember(n)
  PROVE  TypeOK'
<1> DEFINE last == Elements[Len(Elements)].name
<1>1. IsObject /\ Elements # <<>> /\ m_value' = m_value
  BY DEF RemoveMember, IsObject
<1>2. /\ DOMAIN LoadedMembers \subseteq Names
      /\ \A k \in DOMAIN LoadedMembers : LoadedMembers[k] \in Wrapper
  BY <1>1, LoadedMembersTyped
<1>3. membersLoaded' = TRUE /\ UNCHANGED <<valuesLoaded, values, free>>
  BY DEF RemoveMember
<1>4. CASE crashed' = TRUE /\ UNCHANGED <<heap, members, mishaps>>
  BY <1>1, <1>3, <1>4, ReadsAreTyped DEF TypeOK
<1>5. CASE /\ ~(n \in DOMAIN LoadedMembers /\ last \notin DOMAIN LoadedMembers)
           /\ heap' = [heap EXCEPT ![m_value.block] = Without(@, n)]
           /\ members' = EraseMember(n, last)
           /\ UNCHANGED crashed
  <2>1. m_value.block \in DOMAIN heap /\ Elements \in Seq(Element) /\ m_value.block # 0
    BY <1>1, ElementsTyped DEF Elements
  <2>2. Elements = heap[m_value.block]
    BY <2>1 DEF Elements
  <2>3. /\ Without(Elements, n) \in Seq(Element)
        /\ NamesOf(Without(Elements, n)) \subseteq NamesOf(Elements)
    BY <1>1, <2>1, WithoutFillsHole
  <2>4. heap' = [heap EXCEPT ![m_value.block] = Without(Elements, n)]
    BY <1>5, <2>2
  <2>5. heap' \in Seq(Seq(Element)) /\ Len(heap') = Len(heap)
          /\ heap'[m_value.block] = Without(Elements, n)
    <3>. DEFINE x == Without(Elements, n)
    <3>1. x \in Seq(Element) /\ heap' = [heap EXCEPT ![m_value.block] = x]
      BY <2>3, <2>4
    <3>. HIDE DEF x
    <3>2. heap' \in Seq(Seq(Element)) /\ Len(heap') = Len(heap) /\ heap'[m_value.block] = x
      BY <2>1, <3>1 DEF TypeOK
    <3>. QED BY <3>2 DEF x
  <2>6. Elements' = Without(Elements, n)
    BY <1>1, <2>1, <2>5 DEF Elements
  <2>7. NamesOf(Elements)' \subseteq Names
    BY <1>1, <2>3, <2>6 DEF TypeOK
  <2>8. DOMAIN members' \subseteq Names /\ \A k \in DOMAIN members' : members'[k] \in Wrapper
    BY <1>2, <1>5 DEF EraseMember
  <2>9. mishaps' \subseteq Mishaps
    BY DEF RemoveMember, TypeOK, Note, Mishaps
  <2>. QED BY <1>1, <1>3, <1>5, <2>5, <2>7, <2>8, <2>9 DEF TypeOK
<1>. QED BY <1>4, <1>5 DEF RemoveMember

LEMMA ClearArrayTyped ==
  ASSUME TypeOK, ClearArray
  PROVE  TypeOK'
<1>1. IsArray /\ m_value' = m_value
  BY DEF ClearArray, IsArray
<1>2. ~IsObject'
  BY <1>1 DEF IsObject, IsArray
<1>3. heap' \in Seq(Seq(Element)) /\ Len(heap') = Len(heap)
  <2>1. CASE m_value.block = 0
    BY <2>1 DEF ClearArray, TypeOK
  <2>2. CASE m_value.block # 0
    <3>1. m_value.block \in DOMAIN heap
      BY <2>2 DEF TypeOK
    <3>2. heap' = [heap EXCEPT ![m_value.block] = <<>>]
      BY <2>2 DEF ClearArray
    <3>. QED BY <3>1, <3>2 DEF TypeOK
  <2>. QED BY <2>1, <2>2
<1>4. values' \in Seq(Wrapper) /\ valuesLoaded' = TRUE
        /\ UNCHANGED <<membersLoaded, members, free, crashed, mishaps>>
  BY DEF ClearArray
<1>. QED BY <1>1, <1>2, <1>3, <1>4 DEF TypeOK

LEMMA StepKeepsTypes == TypeOK /\ [Next]_vars => TypeOK'
<1>. SUFFICES ASSUME TypeOK, Step \/ UNCHANGED vars PROVE TypeOK'
  BY DEF Next
<1>1. ASSUME NEW type \in Types, SetType(type) PROVE TypeOK'
  BY <1>1, SetTypeTyped
<1>2. CASE SetScalar
  BY <1>2, SetScalarTyped
<1>3. CASE \/ \E v \in Nested : BuildValue(v)
           \/ FailAfterLoad
           \/ \E n \in Names, deep \in BOOLEAN : GetObjectMemberValue(n, deep)
           \/ \E i \in 1..MaxElements, deep \in BOOLEAN : GetArrayValue(i, deep)
           \/ Crashed
  BY <1>3, ReadingTyped
<1>4. ASSUME NEW n \in Names, NEW v \in Scalars, WriteMember(n, v) PROVE TypeOK'
  BY <1>4, WritesTyped
<1>5. ASSUME NEW i \in 1..MaxElements, NEW v \in Scalars, WriteArrayValue(i, v) PROVE TypeOK'
  BY <1>5, WritesTyped
<1>6. ASSUME NEW n \in Names, NEW v \in Values, AddMember(n, v) PROVE TypeOK'
  BY <1>6, AddMemberTyped
<1>7. ASSUME NEW n \in Names, RemoveMember(n) PROVE TypeOK'
  BY <1>7, RemoveMemberTyped
<1>8. ASSUME NEW v \in Values, AddArrayValue(v) PROVE TypeOK'
  BY <1>8, AddArrayValueTyped
<1>9. CASE ClearArray
  BY <1>9, ClearArrayTyped
<1>10. CASE UNCHANGED vars
  BY <1>10, ReadsAreTyped DEF vars, caches, TypeOK
<1>. QED
  BY <1>1, <1>2, <1>3, <1>4, <1>5, <1>6, <1>7, <1>8, <1>9, <1>10 DEF Step

(***************************************************************************)
(* What the caches give once they are loaded.                              *)
(***************************************************************************)
LEMMA LoadedValuesExtend ==
  ASSUME TypeOK, ~valuesLoaded
  PROVE  /\ Len(LoadedValues) = Len(values) + Len(Elements)
         /\ \A i \in DOMAIN values : LoadedValues[i] = values[i]
         /\ \A i \in DOMAIN Elements : LoadedValues[Len(values) + i] = Fresh(m_value.block, i)
<1> DEFINE new == [i \in DOMAIN Elements |-> Fresh(m_value.block, i)]
<1>1. Elements \in Seq(Element) /\ values \in Seq(Wrapper)
  BY ElementsTyped DEF TypeOK
<1>2. /\ Len(Elements) \in Nat /\ DOMAIN Elements = 1..Len(Elements)
      /\ Len(values) \in Nat /\ DOMAIN values = 1..Len(values)
  BY <1>1
<1>3. new \in Seq(Wrapper) /\ Len(new) = Len(Elements)
  <2>1. \A i \in DOMAIN Elements : Fresh(m_value.block, i) \in Wrapper
    BY <1>2 DEF TypeOK, Fresh, Wrapper
  <2>. QED BY <1>2, <2>1
<1>4. \A i \in DOMAIN Elements : new[i] = Fresh(m_value.block, i)
  OBVIOUS
<1>. HIDE DEF new
<1>5. /\ Len(values \o new) = Len(values) + Len(Elements)
      /\ \A i \in 1..(Len(values) + Len(Elements)) :
           (values \o new)[i] = IF i <= Len(values) THEN values[i] ELSE new[i - Len(values)]
  BY <1>1, <1>3, ConcatProperties
<1>6. LoadedValues = values \o new
  BY DEF LoadedValues, new
<1>7. \A i \in DOMAIN Elements : /\ Len(values) + i \in 1..(Len(values) + Len(Elements))
                                 /\ ~(Len(values) + i <= Len(values))
                                 /\ Len(values) + i - Len(values) = i
  BY <1>2
<1>. QED BY <1>2, <1>4, <1>5, <1>6, <1>7

LEMMA LoadedCovers ==
  ASSUME TypeOK, CachesCover, "duplicate" \notin mishaps
  PROVE  /\ IsObject => NamesOf(Elements) \subseteq DOMAIN LoadedMembers
         /\ IsArray => DOMAIN Elements \subseteq DOMAIN LoadedValues
<1>1. IsObject => NamesOf(Elements) \subseteq DOMAIN LoadedMembers
  BY DEF CachesCover, LoadedMembers
<1>2. IsArray => DOMAIN Elements \subseteq DOMAIN LoadedValues
  <2>1. Elements \in Seq(Element) /\ values \in Seq(Wrapper) /\ LoadedValues \in Seq(Wrapper)
    BY ElementsTyped, LoadedValuesTyped DEF TypeOK
  <2>2. IsArray => Len(Elements) <= Len(LoadedValues)
    <3>1. CASE valuesLoaded
      BY <3>1 DEF CachesCover, LoadedValues
    <3>2. CASE ~valuesLoaded
      BY <2>1, <3>2, LoadedValuesExtend, LenProperties
    <3>. QED BY <3>1, <3>2
  <2>3. /\ DOMAIN Elements = 1..Len(Elements) /\ DOMAIN LoadedValues = 1..Len(LoadedValues)
        /\ Len(Elements) \in Nat /\ Len(LoadedValues) \in Nat
    BY <2>1, LenProperties
  <2>. QED BY <2>2, <2>3
<1>. QED BY <1>1, <1>2

\* Among different names, the element of a name is the only one that has it.
LEMMA NamedIsUnique ==
  ASSUME NEW elements \in Seq(Element), NEW i \in DOMAIN elements,
         \A j, k \in DOMAIN elements : elements[j].name = elements[k].name => j = k
  PROVE  Named(elements, elements[i].name) = i
<1>1. elements[i].name \in NamesOf(elements)
  BY DEF NamesOf
<1>. QED BY <1>1, NamedIsThere

LEMMA LoadedMembersMirror ==
  ASSUME IndInv, mishaps = {}, IsObject
  PROVE  /\ DOMAIN LoadedMembers = NamesOf(Elements)
         /\ \A i \in DOMAIN Elements : Mirrors(LoadedMembers[Elements[i].name], i)
<1>1. CASE membersLoaded
  BY <1>1 DEF IndInv, CachesMirror, MembersMirror, LoadedMembers
<1>2. CASE ~membersLoaded
  <2>1. LoadedMembers = [n \in NamesOf(Elements) |-> Fresh(m_value.block, Named(Elements, n))]
    BY <1>2 DEF LoadedMembers
  <2>2. ASSUME NEW i \in DOMAIN Elements PROVE Mirrors(LoadedMembers[Elements[i].name], i)
    <3>1. Elements[i].name \in NamesOf(Elements)
      BY DEF NamesOf
    <3>2. Named(Elements, Elements[i].name) = i
      <4>1. Elements \in Seq(Element) /\ NamesDiffer
        BY ElementsTyped DEF IndInv, CachesCover
      <4>. QED BY <4>1, NamedIsUnique DEF NamesDiffer
    <3>3. LoadedMembers[Elements[i].name] = Fresh(m_value.block, i)
      BY <2>1, <3>1, <3>2
    <3>. QED BY <3>3 DEF Mirrors, Fresh
  <2>. QED BY <2>1, <2>2
<1>. QED BY <1>1, <1>2

LEMMA LoadedValuesMirror ==
  ASSUME IndInv, mishaps = {}, IsArray, NEW i \in DOMAIN Elements
  PROVE  i \in DOMAIN LoadedValues /\ Mirrors(LoadedValues[i], i)
<1>1. i \in DOMAIN LoadedValues
  BY LoadedCovers DEF IndInv
<1>2. CASE valuesLoaded
  BY <1>1, <1>2 DEF IndInv, CachesMirror, ValuesMirror, LoadedValues
<1>3. CASE ~valuesLoaded
  <2>1. /\ \A j \in DOMAIN values : LoadedValues[j] = values[j]
        /\ \A j \in DOMAIN Elements : LoadedValues[Len(values) + j] = Fresh(m_value.block, j)
    BY <1>3, LoadedValuesExtend DEF IndInv
  <2>2. /\ \A j \in DOMAIN Elements \cap DOMAIN values : Mirrors(values[j], j)
        /\ values = <<>> \/ Len(values) = Len(Elements)
    BY <1>3 DEF IndInv, CachesMirror, ValuesMirror
  <2>3. CASE values = <<>>
    <3>1. Len(values) + i = i
      <4>1. i \in Nat
        BY ElementsTyped, LenProperties DEF IndInv
      <4>. QED BY <2>3, <4>1
    <3>2. LoadedValues[i] = Fresh(m_value.block, i)
      BY <2>1, <3>1
    <3>. QED BY <1>1, <3>2 DEF Mirrors, Fresh
  <2>4. CASE Len(values) = Len(Elements)
    <3>1. i \in DOMAIN values
      BY <2>4, ElementsTyped, LenProperties DEF IndInv, TypeOK
    <3>. QED BY <1>1, <2>1, <2>2, <3>1
  <2>. QED BY <2>2, <2>3, <2>4
<1>. QED BY <1>2, <1>3

\* A wrapper that mirrors an element reads it, and reading it deeply keeps that.
LEMMA MirrorIsRead ==
  ASSUME TypeOK, NEW i \in DOMAIN Elements, NEW w \in Wrapper, Mirrors(w, i)
  PROVE  Content(w) = Elements[i].value /\ Seen(w) = Elements[i].value
           /\ InHeap(w) /\ Mirrors(ReadDeep(w), i)
<1>1. Elements = heap[m_value.block] /\ m_value.block \in DOMAIN heap /\ Elements \in Seq(Element)
  <2>1. Elements # <<>>
    OBVIOUS
  <2>. QED BY <2>1, ElementsTyped DEF Elements
<1>2. InHeap(w) /\ Content(w) = Elements[i].value
  BY <1>1 DEF Mirrors, InHeap, Content
<1>3. Seen(w) = Elements[i].value
  BY <1>2 DEF Seen, Mirrors
<1>. QED BY <1>2, <1>3 DEF ReadDeep, Mirrors, Wrapper

(***************************************************************************)
(* Caches and owners, call by call.                                        *)
(***************************************************************************)
CacheInv == CachesCover /\ CachesMirror /\ BuiltValuesHaveOneOwner

LEMMA SetTypeKeepsCaches ==
  ASSUME IndInv, NEW type \in Types, SetType(type)
  PROVE  CacheInv'
<1>1. m_value' = [type |-> type, block |-> 0, capacity |-> 0]
  BY DEF SetType
<1>2. Elements' = <<>> /\ DOMAIN Elements' = {} /\ Len(Elements') = 0
  BY <1>1 DEF Elements
<1>3. NamesOf(Elements)' = {}
  BY <1>2 DEF NamesOf
<1>4. BuiltValuesHaveOneOwner'
  BY <1>2 DEF BuiltValuesHaveOneOwner
<1>5. CachesCover'
  <2>1. "duplicate" \notin mishaps' => ~crashed'
    BY DEF IndInv, CachesCover, SetType
  <2>2. NamesDiffer'
    BY <1>2 DEF NamesDiffer
  <2>3. Len(values') >= 0
    BY SetTypeTyped, LenProperties DEF IndInv, TypeOK
  <2>. QED BY <1>2, <1>3, <2>1, <2>2, <2>3 DEF CachesCover
<1>6. CachesMirror'
  <2>. SUFFICES ASSUME mishaps' = {} PROVE MembersMirror' /\ ValuesMirror'
    BY DEF CachesMirror
  <2>1. DOMAIN members' = {} /\ values' = <<>>
    BY DEF SetType, Note
  <2>. QED BY <1>2, <1>3, <2>1 DEF MembersMirror, ValuesMirror
<1>. QED BY <1>4, <1>5, <1>6 DEF CacheInv

LEMMA SetScalarKeepsCaches ==
  ASSUME IndInv, SetScalar
  PROVE  CacheInv'
<1>1. /\ m_value' = [type |-> "OTHER", block |-> 0, capacity |-> 0]
      /\ UNCHANGED <<membersLoaded, members, valuesLoaded, values, crashed>>
  BY DEF SetScalar, caches
<1>2. Elements' = <<>> /\ DOMAIN Elements' = {}
  BY <1>1 DEF Elements
<1>3. ~IsObject' /\ ~IsArray'
  BY <1>1 DEF IsObject, IsArray
<1>4. BuiltValuesHaveOneOwner'
  BY <1>2 DEF BuiltValuesHaveOneOwner
<1>5. CachesCover'
  BY <1>1, <1>3 DEF IndInv, CachesCover, SetScalar, NamesDiffer
<1>6. CachesMirror'
  <2>. SUFFICES ASSUME mishaps' = {} PROVE MembersMirror' /\ ValuesMirror'
    BY DEF CachesMirror
  <2>1. DOMAIN members = {} /\ values = <<>>
    BY DEF SetScalar, Note
  <2>. QED BY <1>1, <1>3, <2>1 DEF MembersMirror, ValuesMirror
<1>. QED BY <1>4, <1>5, <1>6 DEF CacheInv

LEMMA BuildValueKeepsCaches ==
  ASSUME IndInv, NEW v \in Nested, BuildValue(v)
  PROVE  CacheInv'
<1>1. UNCHANGED <<heap, m_value, membersLoaded, members, valuesLoaded, values, crashed, mishaps>>
  BY DEF BuildValue, caches
<1>2. Elements' = Elements
  BY <1>1 DEF Elements
<1>3. CachesCover' /\ CachesMirror'
  BY <1>1, <1>2 DEF IndInv, CachesCover, NamesDiffer, CachesMirror, MembersMirror, ValuesMirror,
                    Mirrors, IsObject, IsArray
<1>4. BuiltValuesHaveOneOwner'
  BY <1>2 DEF IndInv, BuiltValuesHaveOneOwner, BuildValue
<1>. QED BY <1>3, <1>4 DEF CacheInv

\* Reading members: each wrapper of the loaded cache stays, or is read deeply.
LEMMA MemberReadsKeepCaches ==
  ASSUME IndInv, IsObject, membersLoaded' = TRUE,
         UNCHANGED <<heap, m_value, valuesLoaded, values, free, crashed, mishaps>>,
         DOMAIN members' = DOMAIN LoadedMembers,
         \A n \in DOMAIN members' : members'[n] \in {LoadedMembers[n], ReadDeep(LoadedMembers[n])}
  PROVE  CacheInv'
<1>1. Elements' = Elements /\ IsObject' /\ ~IsArray /\ ~IsArray'
  BY DEF Elements, IsObject, IsArray
<1>2. BuiltValuesHaveOneOwner'
  BY <1>1 DEF IndInv, BuiltValuesHaveOneOwner
<1>3. CachesCover'
  BY <1>1, LoadedCovers DEF IndInv, CachesCover, NamesDiffer
<1>4. CachesMirror'
  <2>. SUFFICES ASSUME mishaps = {} PROVE MembersMirror' /\ ValuesMirror'
    BY DEF CachesMirror
  <2>1. /\ DOMAIN LoadedMembers = NamesOf(Elements)
        /\ \A i \in DOMAIN Elements : Mirrors(LoadedMembers[Elements[i].name], i)
    BY LoadedMembersMirror
  <2>2. ASSUME NEW i \in DOMAIN Elements PROVE Mirrors(members'[Elements[i].name], i)
    <3>1. Elements[i].name \in DOMAIN LoadedMembers
      BY <2>1 DEF NamesOf
    <3>2. LoadedMembers[Elements[i].name] \in Wrapper
      BY <3>1, LoadedMembersTyped DEF IndInv
    <3>. QED BY <2>1, <3>1, <3>2, MirrorIsRead DEF IndInv
  <2>3. MembersMirror'
    BY <1>1, <2>1, <2>2 DEF MembersMirror, Mirrors
  <2>4. ValuesMirror'
    BY <1>1 DEF IndInv, CachesMirror, ValuesMirror
  <2>. QED BY <2>3, <2>4
<1>. QED BY <1>2, <1>3, <1>4 DEF CacheInv

LEMMA GetMemberKeepsCaches ==
  ASSUME IndInv,
         FailAfterLoad \/ \E n \in Names, deep \in BOOLEAN : GetObjectMemberValue(n, deep)
  PROVE  CacheInv'
<1>1. CASE FailAfterLoad
  BY <1>1, MemberReadsKeepCaches DEF FailAfterLoad, IsObject
<1>2. ASSUME NEW n \in Names, NEW deep \in BOOLEAN, GetObjectMemberValue(n, deep) PROVE CacheInv'
  <2>1. members' = [LoadedMembers EXCEPT ![n] = IF deep THEN ReadDeep(LoadedMembers[n])
                                                ELSE LoadedMembers[n]]
    BY <1>2 DEF GetObjectMemberValue
  <2>2. /\ DOMAIN members' = DOMAIN LoadedMembers
        /\ \A k \in DOMAIN members' : members'[k] \in {LoadedMembers[k], ReadDeep(LoadedMembers[k])}
    BY <2>1
  <2>. QED BY <1>2, <2>2, MemberReadsKeepCaches DEF GetObjectMemberValue, IsObject
<1>. QED BY <1>1, <1>2

LEMMA GetArrayValueKeepsCaches ==
  ASSUME IndInv, NEW i \in 1..MaxElements, NEW deep \in BOOLEAN, GetArrayValue(i, deep)
  PROVE  CacheInv'
<1>1. /\ IsArray /\ IsArray' /\ ~IsObject /\ ~IsObject' /\ Elements' = Elements
      /\ i \in DOMAIN Elements /\ valuesLoaded' = TRUE
      /\ UNCHANGED <<heap, m_value, membersLoaded, members, free, mishaps>>
  BY DEF GetArrayValue, IsArray, IsObject, Elements
<1>2. BuiltValuesHaveOneOwner'
  BY <1>1 DEF IndInv, BuiltValuesHaveOneOwner
<1>3. LoadedValues \in Seq(Wrapper) /\ Elements \in Seq(Element)
  BY LoadedValuesTyped, ElementsTyped DEF IndInv
<1>4. CASE i \in DOMAIN LoadedValues
  <2>1. /\ values' = [LoadedValues EXCEPT ![i] = IF deep THEN ReadDeep(LoadedValues[i])
                                                 ELSE LoadedValues[i]]
        /\ crashed' = crashed
    BY <1>4 DEF GetArrayValue
  <2>2. /\ DOMAIN values' = DOMAIN LoadedValues
        /\ \A k \in DOMAIN values' : values'[k] \in {LoadedValues[k], ReadDeep(LoadedValues[k])}
    BY <2>1
  <2>3. CachesCover'
    <3>1. "duplicate" \notin mishaps => DOMAIN Elements \subseteq DOMAIN values'
      BY <1>1, <2>2, LoadedCovers DEF IndInv
    <3>2. values' \in Seq(Wrapper)
      BY ReadingTyped DEF IndInv, TypeOK
    <3>3. DOMAIN Elements \subseteq DOMAIN values' => Len(Elements) <= Len(values')
      <4>1. Len(Elements) \in Nat /\ Len(values') \in Nat
              /\ DOMAIN Elements = 1..Len(Elements) /\ DOMAIN values' = 1..Len(values')
        BY <1>3, <3>2, LenProperties
      <4>. QED BY <4>1
    <3>. QED BY <1>1, <2>1, <3>1, <3>3 DEF IndInv, CachesCover, NamesDiffer
  <2>4. CachesMirror'
    <3>. SUFFICES ASSUME mishaps = {} PROVE MembersMirror' /\ ValuesMirror'
      BY <1>1 DEF CachesMirror
    <3>1. ASSUME NEW k \in DOMAIN Elements PROVE Mirrors(values'[k], k)
      <4>1. k \in DOMAIN LoadedValues /\ Mirrors(LoadedValues[k], k)
        BY <1>1, LoadedValuesMirror
      <4>2. LoadedValues[k] \in Wrapper
        BY <1>3, <4>1, ElementOfSeq, LenProperties
      <4>. QED BY <2>2, <4>1, <4>2, MirrorIsRead DEF IndInv
    <3>2. ValuesMirror'
      BY <1>1, <3>1 DEF ValuesMirror, Mirrors
    <3>3. MembersMirror'
      BY <1>1 DEF IndInv, CachesMirror, MembersMirror
    <3>. QED BY <3>2, <3>3
  <2>. QED BY <1>2, <2>3, <2>4 DEF CacheInv
<1>5. CASE i \notin DOMAIN LoadedValues
  <2>1. "duplicate" \in mishaps
    BY <1>1, <1>5, LoadedCovers DEF IndInv
  <2>. QED BY <1>1, <1>2, <2>1 DEF CacheInv, CachesCover, CachesMirror
<1>. QED BY <1>4, <1>5

LEMMA UnchangedKeepsCaches ==
  ASSUME IndInv, UNCHANGED vars
  PROVE  CacheInv'
  BY DEF IndInv, CacheInv, vars, caches, CachesCover, NamesDiffer, CachesMirror, MembersMirror,
         ValuesMirror, Mirrors, BuiltValuesHaveOneOwner, IsObject, IsArray, Elements

\* A write through the wrapper of an element changes that element and no other.
LEMMA WriteMemberKeepsCaches ==
  ASSUME IndInv, NEW n \in Names, NEW v \in Scalars, WriteMember(n, v)
  PROVE  CacheInv'
<1> DEFINE w == LoadedMembers[n]
<1>1. /\ IsObject /\ IsObject' /\ ~IsArray /\ ~IsArray' /\ n \in DOMAIN LoadedMembers /\ InHeap(w)
      /\ heap' = [heap EXCEPT ![w.block][w.index].value = v]
      /\ members' = LoadedMembers /\ membersLoaded' = TRUE
      /\ UNCHANGED <<m_value, valuesLoaded, values, free, crashed, mishaps>>
  BY DEF WriteMember, IsObject, IsArray
<1>2. w \in Wrapper
  BY <1>1, LoadedMembersTyped DEF IndInv
<1>3. /\ DOMAIN Elements' = DOMAIN Elements
      /\ Len(Elements') = Len(Elements)
      /\ \A i \in DOMAIN Elements :
           /\ Elements'[i].name = Elements[i].name
           /\ Elements'[i].value \in {v, Elements[i].value}
      /\ NamesOf(Elements') = NamesOf(Elements)
  <2>. HIDE DEF w
  <2>. QED BY <1>1, <1>2, WriteInElements DEF IndInv
<1>4. v \notin Nested
  BY JSONAssumption
<1>5. BuiltValuesHaveOneOwner'
  BY <1>1, <1>3, <1>4 DEF IndInv, BuiltValuesHaveOneOwner
<1>6. CachesCover'
  BY <1>1, <1>3, LoadedCovers DEF IndInv, CachesCover, NamesDiffer
<1>7. CachesMirror'
  <2>. SUFFICES ASSUME mishaps = {} PROVE MembersMirror' /\ ValuesMirror'
    BY <1>1 DEF CachesMirror
  <2>1. /\ DOMAIN LoadedMembers = NamesOf(Elements)
        /\ \A i \in DOMAIN Elements : Mirrors(LoadedMembers[Elements[i].name], i)
    BY <1>1, LoadedMembersMirror
  <2>2. MembersMirror'
    BY <1>1, <1>3, <1>4, <2>1 DEF MembersMirror, Mirrors
  <2>3. ValuesMirror'
    BY <1>1 DEF IndInv, CachesMirror, ValuesMirror
  <2>. QED BY <2>2, <2>3
<1>. QED BY <1>5, <1>6, <1>7 DEF CacheInv

LEMMA WriteArrayValueKeepsCaches ==
  ASSUME IndInv, NEW i \in 1..MaxElements, NEW v \in Scalars, WriteArrayValue(i, v)
  PROVE  CacheInv'
<1> DEFINE w == LoadedValues[i]
<1>1. /\ IsArray /\ IsArray' /\ ~IsObject /\ ~IsObject' /\ i \in DOMAIN LoadedValues /\ InHeap(w)
      /\ heap' = [heap EXCEPT ![w.block][w.index].value = v]
      /\ values' = LoadedValues /\ valuesLoaded' = TRUE
      /\ UNCHANGED <<m_value, membersLoaded, members, free, crashed, mishaps>>
  BY DEF WriteArrayValue, IsObject, IsArray
<1>2. w \in Wrapper /\ LoadedValues \in Seq(Wrapper) /\ Elements \in Seq(Element)
  BY <1>1, LoadedValuesTyped, ElementsTyped DEF IndInv
<1>3. /\ DOMAIN Elements' = DOMAIN Elements
      /\ Len(Elements') = Len(Elements)
      /\ \A k \in DOMAIN Elements : Elements'[k].value \in {v, Elements[k].value}
  <2>. HIDE DEF w
  <2>. QED BY <1>1, <1>2, WriteInElements DEF IndInv
<1>4. v \notin Nested
  BY JSONAssumption
<1>5. BuiltValuesHaveOneOwner'
  BY <1>1, <1>3, <1>4 DEF IndInv, BuiltValuesHaveOneOwner
<1>6. CachesCover'
  <2>1. "duplicate" \notin mishaps => Len(Elements) <= Len(LoadedValues)
    <3>1. /\ DOMAIN Elements = 1..Len(Elements) /\ DOMAIN LoadedValues = 1..Len(LoadedValues)
          /\ Len(Elements) \in Nat /\ Len(LoadedValues) \in Nat
      BY <1>2, LenProperties
    <3>. QED BY <1>1, <3>1, LoadedCovers DEF IndInv
  <2>. QED BY <1>1, <1>3, <2>1 DEF IndInv, CachesCover, NamesDiffer
<1>7. CachesMirror'
  <2>. SUFFICES ASSUME mishaps = {} PROVE MembersMirror' /\ ValuesMirror'
    BY <1>1 DEF CachesMirror
  <2>1. \A k \in DOMAIN Elements : Mirrors(LoadedValues[k], k)
    BY <1>1, LoadedValuesMirror
  <2>2. ValuesMirror'
    BY <1>1, <1>3, <1>4, <2>1 DEF ValuesMirror, Mirrors
  <2>3. MembersMirror'
    BY <1>1 DEF IndInv, CachesMirror, MembersMirror
  <2>. QED BY <2>2, <2>3
<1>. QED BY <1>5, <1>6, <1>7 DEF CacheInv

\* A block that is not full, or is empty, is where it was or where nothing refers to.
LEMMA AppendedElements ==
  ASSUME TypeOK, NEW e \in Element, AppendElement(e)
  PROVE  /\ Elements \in Seq(Element) /\ Len(Elements) \in Nat
         /\ DOMAIN Elements = 1..Len(Elements)
         /\ DOMAIN Elements' = 1..(Len(Elements) + 1)
         /\ Len(Elements') = Len(Elements) + 1
         /\ \A i \in DOMAIN Elements : Elements'[i] = Elements[i]
         /\ Elements'[Len(Elements) + 1] = e
         /\ Elements' \in Seq(Element)
<1>1. Elements \in Seq(Element)
  BY ElementsTyped
<1>2. Elements' = Append(Elements, e)
  BY AppendAppends
<1>3. /\ Elements' \in Seq(Element) /\ Len(Elements') = Len(Elements) + 1
      /\ \A i \in 1..Len(Elements) : Elements'[i] = Elements[i]
      /\ Elements'[Len(Elements) + 1] = e
  BY <1>1, <1>2, AppendProperties
<1>. QED BY <1>1, <1>3, LenProperties

\* A value leaves the document's list for the one place where it is added.
LEMMA AppendKeepsOwner ==
  ASSUME IndInv, NEW e \in Element, AppendElement(e), RemoveFreeValue(e.value)
  PROVE  BuiltValuesHaveOneOwner'
<1>1. /\ DOMAIN Elements = 1..Len(Elements) /\ Len(Elements) \in Nat
      /\ DOMAIN Elements' = 1..(Len(Elements) + 1)
      /\ \A i \in DOMAIN Elements : Elements'[i] = Elements[i]
      /\ Elements'[Len(Elements) + 1] = e
  BY AppendedElements DEF IndInv
<1>2. /\ e.value \in Scalars \cup free /\ free' = free \ {e.value}
      /\ Nested \cap Scalars = {}
  BY JSONAssumption DEF RemoveFreeValue
<1>3. \A i \in DOMAIN Elements : Elements[i].value \in Nested =>
        /\ Elements[i].value \notin free
        /\ \A j \in DOMAIN Elements : Elements[j].value = Elements[i].value => j = i
  BY DEF IndInv, BuiltValuesHaveOneOwner
<1>4. \A i \in DOMAIN Elements' : i \in DOMAIN Elements \/ i = Len(Elements) + 1
  BY <1>1
<1>. QED BY <1>1, <1>2, <1>3, <1>4 DEF BuiltValuesHaveOneOwner

LEMMA AddMemberKeepsCaches ==
  ASSUME IndInv, NEW n \in Names, NEW v \in Values, AddMember(n, v)
  PROVE  CacheInv'
<1> DEFINE e == [name |-> n, value |-> v]
<1>1. e \in Element /\ e.name = n /\ e.value = v
  BY DEF Element
<1>2. AppendElement(e) /\ RemoveFreeValue(e.value) /\ InsertMember(n) /\ IsObject /\ ~IsArray
      /\ UNCHANGED <<valuesLoaded, values, crashed>>
  BY DEF AddMember, IsObject, IsArray
<1>3. BuiltValuesHaveOneOwner'
  BY <1>1, <1>2, AppendKeepsOwner
<1>. HIDE DEF e
<1>4. /\ Elements \in Seq(Element) /\ Elements' \in Seq(Element) /\ Len(Elements) \in Nat
      /\ DOMAIN Elements = 1..Len(Elements)
      /\ DOMAIN Elements' = 1..(Len(Elements) + 1)
      /\ \A i \in DOMAIN Elements : Elements'[i] = Elements[i]
      /\ Elements'[Len(Elements) + 1] = e
  BY <1>1, <1>2, AppendedElements DEF IndInv
<1>5. m_value'.type = m_value.type /\ heap'[m_value'.block] = Elements'
  BY <1>1, <1>2, AppendAppends DEF IndInv, Elements
<1>6. IsObject' /\ ~IsArray'
  BY <1>2, <1>5 DEF IsObject, IsArray
<1>7. NamesOf(Elements') = NamesOf(Elements) \cup {n}
  <2>1. \A i \in DOMAIN Elements' : i \in DOMAIN Elements \/ i = Len(Elements) + 1
    BY <1>4
  <2>2. DOMAIN Elements \subseteq DOMAIN Elements' /\ Len(Elements) + 1 \in DOMAIN Elements'
    BY <1>4
  <2>. QED BY <1>1, <1>4, <2>1, <2>2 DEF NamesOf
<1>8. /\ mishaps \subseteq mishaps'
      /\ "duplicate" \notin mishaps' => n \notin NamesOf(Elements)
      /\ "moved" \notin mishaps' => m_value'.block = m_value.block \/ Elements = <<>>
  BY DEF AddMember, Note
<1>9. "duplicate" \notin mishaps' => NamesDiffer'
  <2>1. \A i \in DOMAIN Elements' : i \in DOMAIN Elements \/ i = Len(Elements) + 1
    BY <1>4
  <2>2. \A i \in DOMAIN Elements : Elements[i].name \in NamesOf(Elements)
    BY DEF NamesOf
  <2>3. "duplicate" \notin mishaps' => NamesDiffer
    BY <1>8 DEF IndInv, CachesCover
  <2>. QED BY <1>1, <1>2, <1>4, <1>8, <2>1, <2>2, <2>3 DEF NamesDiffer
<1>10. /\ membersLoaded' = TRUE
       /\ members' = IF n \in DOMAIN LoadedMembers THEN LoadedMembers
                     ELSE [k \in DOMAIN LoadedMembers \cup {n} |->
                             IF k = n THEN Fresh(m_value'.block, Named(Elements', n))
                                      ELSE LoadedMembers[k]]
  BY <1>2, <1>5 DEF InsertMember
<1>11. CachesCover'
  <2>1. "duplicate" \notin mishaps' => NamesOf(Elements') \subseteq DOMAIN members'
    BY <1>2, <1>7, <1>8, <1>10, LoadedCovers DEF IndInv
  <2>. QED BY <1>2, <1>6, <1>8, <1>9, <2>1 DEF IndInv, CachesCover
<1>12. CachesMirror'
  <2>. SUFFICES ASSUME mishaps' = {} PROVE MembersMirror' /\ ValuesMirror'
    BY DEF CachesMirror
  <2>1. /\ mishaps = {} /\ n \notin NamesOf(Elements)
        /\ m_value'.block = m_value.block \/ Elements = <<>>
    BY <1>8
  <2>2. /\ DOMAIN LoadedMembers = NamesOf(Elements)
        /\ \A i \in DOMAIN Elements : Mirrors(LoadedMembers[Elements[i].name], i)
    BY <1>2, <2>1, LoadedMembersMirror
  <2>3. DOMAIN members' = NamesOf(Elements')
    BY <1>7, <1>10, <2>1, <2>2
  <2>4. ASSUME NEW i \in DOMAIN Elements' PROVE Mirrors(members[Elements[i].name], i)'
    <3>1. CASE i \in DOMAIN Elements
      <4>1. Elements'[i] = Elements[i] /\ Elements[i].name \in NamesOf(Elements)
        BY <1>4, <3>1 DEF NamesOf
      <4>2. members'[Elements[i].name] = LoadedMembers[Elements[i].name]
        BY <1>10, <2>1, <2>2, <4>1
      <4>3. m_value'.block = m_value.block
        BY <2>1, <3>1
      <4>. QED BY <2>2, <3>1, <4>1, <4>2, <4>3 DEF Mirrors
    <3>2. CASE i = Len(Elements) + 1
      <4>1. Elements'[i].name = n
        BY <1>1, <1>4, <3>2
      <4>2. Named(Elements', n) = i
        BY <1>4, <1>6, <1>9, <4>1, <2>1, NamedIsUnique DEF NamesDiffer
      <4>3. members'[n] = Fresh(m_value'.block, i)
        BY <1>10, <2>1, <2>2, <4>2
      <4>. QED BY <4>1, <4>3 DEF Mirrors, Fresh
    <3>. QED BY <1>4, <3>1, <3>2
  <2>5. MembersMirror'
    BY <2>3, <2>4, <1>6, <1>10 DEF MembersMirror
  <2>6. ValuesMirror'
    BY <1>2, <1>6, <2>1 DEF IndInv, CachesMirror, ValuesMirror
  <2>. QED BY <2>5, <2>6
<1>. QED BY <1>3, <1>11, <1>12 DEF CacheInv

LEMMA AddArrayValueKeepsCaches ==
  ASSUME IndInv, NEW v \in Values, AddArrayValue(v)
  PROVE  CacheInv'
<1> DEFINE e == [name |-> None, value |-> v]
           w == Fresh(m_value'.block, Len(Elements) + 1)
<1>1. e \in Element /\ e.value = v
  BY DEF Element
<1>2. /\ AppendElement(e) /\ RemoveFreeValue(e.value) /\ IsArray /\ ~IsObject
      /\ values' = Append(values, w)
      /\ UNCHANGED <<membersLoaded, members, valuesLoaded, crashed>>
  BY DEF AddArrayValue, IsObject, IsArray
<1>3. BuiltValuesHaveOneOwner'
  BY <1>1, <1>2, AppendKeepsOwner
<1>4. m_value'.type = m_value.type /\ m_value'.block \in Nat
  <2>. HIDE DEF e
  <2>. QED BY <1>1, <1>2, AppendAppends DEF IndInv
<1>5. IsArray' /\ ~IsObject'
  BY <1>2, <1>4 DEF IsObject, IsArray
<1>6. /\ Elements \in Seq(Element) /\ Len(Elements) \in Nat /\ Len(Elements') = Len(Elements) + 1
      /\ DOMAIN Elements = 1..Len(Elements)
      /\ DOMAIN Elements' = 1..(Len(Elements) + 1)
      /\ \A i \in DOMAIN Elements : Elements'[i] = Elements[i]
  <2>. HIDE DEF e
  <2>. QED BY <1>1, <1>2, AppendedElements DEF IndInv
<1>7. w \in Wrapper /\ values \in Seq(Wrapper)
  BY <1>4, <1>6 DEF IndInv, TypeOK, Fresh, Wrapper
<1>8. w.block = m_value'.block /\ w.index = Len(Elements) + 1 /\ w.read = None
  BY DEF Fresh
<1>. HIDE DEF e, w
<1>9. /\ Len(values) \in Nat /\ Len(values') = Len(values) + 1
      /\ DOMAIN values = 1..Len(values) /\ DOMAIN values' = 1..(Len(values) + 1)
      /\ \A i \in DOMAIN values : values'[i] = values[i]
      /\ values'[Len(values) + 1] = w
  BY <1>2, <1>7, AppendProperties, LenProperties
<1>10. /\ mishaps \subseteq mishaps'
       /\ mishaps' = {} => /\ Len(values) = Len(Elements)
                           /\ m_value'.block = m_value.block \/ values = <<>>
  BY DEF AddArrayValue, Note
<1>11. CachesCover'
  <2>. SUFFICES ASSUME "duplicate" \notin mishaps' PROVE /\ valuesLoaded' => Len(Elements') <= Len(values')
                                                         /\ ~crashed'
    BY <1>5 DEF CachesCover, NamesDiffer
  <2>1. /\ valuesLoaded => Len(Elements) <= Len(values)
        /\ ~crashed
    BY <1>2, <1>10 DEF IndInv, CachesCover
  <2>. QED BY <1>2, <1>6, <1>9, <2>1
<1>12. CachesMirror'
  <2>. SUFFICES ASSUME mishaps' = {} PROVE MembersMirror' /\ ValuesMirror'
    BY DEF CachesMirror
  <2>1. /\ mishaps = {} /\ Len(values) = Len(Elements)
        /\ m_value'.block = m_value.block \/ values = <<>>
    BY <1>10
  <2>2. \A i \in DOMAIN Elements \cap DOMAIN values : Mirrors(values[i], i)
    BY <1>2, <2>1 DEF IndInv, CachesMirror, ValuesMirror
  <2>3. ASSUME NEW i \in DOMAIN Elements' \cap DOMAIN values' PROVE Mirrors(values[i], i)'
    <3>1. CASE i \in DOMAIN Elements
      <4>1. i \in DOMAIN values /\ values'[i] = values[i] /\ Elements'[i] = Elements[i]
        BY <1>6, <1>9, <2>1, <3>1
      <4>2. values # <<>>
        BY <4>1
      <4>. QED BY <2>1, <2>2, <3>1, <4>1, <4>2 DEF Mirrors
    <3>2. CASE i = Len(Elements) + 1
      BY <1>8, <1>9, <2>1, <3>2 DEF Mirrors
    <3>. QED BY <1>6, <3>1, <3>2
  <2>4. ValuesMirror'
    BY <1>5, <1>6, <1>9, <2>1, <2>3 DEF ValuesMirror
  <2>5. MembersMirror'
    BY <1>2, <1>5, <2>1 DEF IndInv, CachesMirror, MembersMirror
  <2>. QED BY <2>4, <2>5
<1>. QED BY <1>3, <1>11, <1>12 DEF CacheInv

LEMMA ClearArrayKeepsCaches ==
  ASSUME IndInv, ClearArray
  PROVE  CacheInv'
<1>1. /\ IsArray /\ IsArray' /\ ~IsObject /\ ~IsObject' /\ m_value' = m_value
      /\ values' = <<>> /\ valuesLoaded' = TRUE
      /\ UNCHANGED <<membersLoaded, members, free, crashed, mishaps>>
  BY DEF ClearArray, IsObject, IsArray
<1>2. Elements' = <<>> /\ DOMAIN Elements' = {} /\ Len(Elements') = 0 /\ Len(values') = 0
  <2>1. CASE m_value.block = 0
    BY <1>1, <2>1 DEF Elements
  <2>2. CASE m_value.block # 0
    <3>1. m_value.block \in DOMAIN heap /\ heap' = [heap EXCEPT ![m_value.block] = <<>>]
      BY <2>2 DEF ClearArray, IndInv, TypeOK
    <3>. QED BY <1>1, <2>2, <3>1 DEF Elements
  <2>. QED BY <1>1, <2>1, <2>2
<1>3. BuiltValuesHaveOneOwner'
  BY <1>2 DEF BuiltValuesHaveOneOwner
<1>4. CachesCover'
  BY <1>1, <1>2 DEF IndInv, CachesCover, NamesDiffer
<1>5. CachesMirror'
  BY <1>1, <1>2 DEF IndInv, CachesMirror, MembersMirror, ValuesMirror
<1>. QED BY <1>3, <1>4, <1>5 DEF CacheInv

LEMMA RemoveMemberKeepsCaches ==
  ASSUME IndInv, NEW n \in Names, RemoveMember(n)
  PROVE  CacheInv'
<1> DEFINE size == Len(Elements)
           last == Elements[size].name
           hole == Named(Elements, n)
<1>1. /\ IsObject /\ IsObject' /\ ~IsArray /\ ~IsArray' /\ Elements # <<>> /\ m_value' = m_value
      /\ membersLoaded' = TRUE /\ UNCHANGED <<valuesLoaded, values, free>>
      /\ mishaps \subseteq mishaps'
  BY DEF RemoveMember, IsObject, IsArray, Note
<1>2. /\ Elements \in Seq(Element) /\ size \in Nat \ {0} /\ DOMAIN Elements = 1..size
      /\ size \in DOMAIN Elements
  <2>1. Elements \in Seq(Element)
    BY ElementsTyped DEF IndInv
  <2>2. size \in Nat \ {0}
    BY <1>1, <2>1, EmptySeq
  <2>. QED BY <2>1, <2>2, LenProperties
<1>3. m_value.block \in DOMAIN heap /\ m_value.block # 0 /\ Elements = heap[m_value.block]
  BY <1>1, ElementsTyped DEF IndInv, Elements
<1>4. CASE /\ n \in DOMAIN LoadedMembers /\ last \notin DOMAIN LoadedMembers
           /\ UNCHANGED <<heap, members, mishaps>>
  <2>1. "duplicate" \in mishaps
    <3>1. last \in NamesOf(Elements)
      BY <1>2 DEF NamesOf
    <3>. QED BY <1>1, <1>4, <3>1, LoadedCovers DEF IndInv
  <2>2. Elements' = Elements
    BY <1>1, <1>4 DEF Elements
  <2>3. BuiltValuesHaveOneOwner'
    BY <1>1, <2>2 DEF IndInv, BuiltValuesHaveOneOwner
  <2>. QED BY <1>4, <2>1, <2>3 DEF CacheInv, CachesCover, CachesMirror
<1>5. CASE /\ heap' = [heap EXCEPT ![m_value.block] = Without(@, n)]
           /\ members' = EraseMember(n, last)
           /\ mishaps' = mishaps \cup
                Note("stale", /\ n \in NamesOf(Elements) \cap DOMAIN LoadedMembers
                              /\ n # last
                              /\ LoadedMembers[n].read # None)
           /\ UNCHANGED crashed
  <2>1. Elements' = Without(Elements, n)
    BY <1>1, <1>3, <1>5 DEF Elements
  <2>2. /\ Elements' \in Seq(Element)
        /\ n \notin NamesOf(Elements) => Elements' = Elements
        /\ n \in NamesOf(Elements) =>
             /\ Len(Elements') = size - 1
             /\ \A j \in 1..(size - 1) : Elements'[j] = IF j = hole THEN Elements[size] ELSE Elements[j]
    BY <1>1, <1>2, <2>1, WithoutFillsHole
  <2>3. n \in NamesOf(Elements) => DOMAIN Elements' = 1..(size - 1)
    BY <2>2, LenProperties
  <2>4. n \in NamesOf(Elements) => hole \in 1..size /\ Elements[hole].name = n
    BY <1>2, NamedIsThere
  <2>5. DOMAIN members' = DOMAIN LoadedMembers \ {n}
        /\ \A k \in DOMAIN members' :
             members'[k] = IF k = last /\ n \in DOMAIN LoadedMembers THEN LoadedMembers[n]
                           ELSE LoadedMembers[k]
    BY <1>5 DEF EraseMember
  <2>. HIDE DEF size, last, hole
  <2>6. \* Every element that is left was there, the last one possibly elsewhere.
        ASSUME n \in NamesOf(Elements)
        PROVE  \A j \in DOMAIN Elements' :
                 \/ j \in DOMAIN Elements /\ j # hole /\ j # size /\ Elements'[j] = Elements[j]
                 \/ j = hole /\ j # size /\ size \in DOMAIN Elements /\ Elements'[j] = Elements[size]
    BY <1>2, <2>2, <2>3, <2>6
  <2>7. BuiltValuesHaveOneOwner'
    <3>1. CASE n \notin NamesOf(Elements)
      BY <1>1, <2>2, <3>1 DEF IndInv, BuiltValuesHaveOneOwner
    <3>2. CASE n \in NamesOf(Elements)
      BY <1>1, <2>6, <3>2 DEF IndInv, BuiltValuesHaveOneOwner
    <3>. QED BY <3>1, <3>2
  <2>8. ASSUME "duplicate" \notin mishaps
        PROVE  /\ NamesDiffer'
               /\ NamesOf(Elements') = NamesOf(Elements) \ {n}
    <3>1. \A i, j \in DOMAIN Elements : Elements[i].name = Elements[j].name => i = j
      BY <1>1, <2>8 DEF IndInv, CachesCover, NamesDiffer
    <3>2. CASE n \notin NamesOf(Elements)
      BY <2>2, <3>1, <3>2 DEF NamesDiffer
    <3>3. CASE n \in NamesOf(Elements)
      <4>1. NamesDiffer'
        BY <2>6, <3>1, <3>3 DEF NamesDiffer
      <4>2. \A j \in DOMAIN Elements' : Elements'[j].name \in NamesOf(Elements) \ {n}
        BY <1>2, <2>4, <2>6, <3>1, <3>3 DEF NamesOf
      <4>3. ASSUME NEW i \in DOMAIN Elements, Elements[i].name # n
            PROVE  \E j \in DOMAIN Elements' : Elements'[j].name = Elements[i].name
        <5>1. i # hole
          BY <2>4, <3>3, <4>3
        <5>2. CASE i # size
          <6>1. i \in 1..(size - 1)
            BY <1>2, <5>2
          <6>. QED BY <2>2, <2>3, <3>3, <5>1, <6>1
        <5>3. CASE i = size
          <6>1. hole \in 1..(size - 1)
            BY <1>2, <2>4, <3>3, <5>1, <5>3
          <6>. QED BY <2>2, <2>3, <3>3, <5>3, <6>1
        <5>. QED BY <5>2, <5>3
      <4>. QED BY <4>1, <4>2, <4>3 DEF NamesOf
    <3>. QED BY <3>2, <3>3
  <2>9. CachesCover'
    BY <1>1, <1>5, <2>5, <2>8, LoadedCovers DEF IndInv, CachesCover
  <2>10. CachesMirror'
    <3>. SUFFICES ASSUME mishaps' = {} PROVE MembersMirror' /\ ValuesMirror'
      BY DEF CachesMirror
    <3>1. /\ mishaps = {}
          /\ ~ (n \in NamesOf(Elements) \cap DOMAIN LoadedMembers /\ n # last /\ LoadedMembers[n].read # None)
      BY <1>1, <1>5 DEF Note
    <3>2. /\ DOMAIN LoadedMembers = NamesOf(Elements)
          /\ \A i \in DOMAIN Elements : Mirrors(LoadedMembers[Elements[i].name], i)
      BY <1>1, <3>1, LoadedMembersMirror
    <3>3. DOMAIN members' = NamesOf(Elements')
      BY <2>5, <2>8, <3>1, <3>2
    <3>4. ASSUME NEW j \in DOMAIN Elements' PROVE Mirrors(members[Elements[j].name], j)'
      <4>1. Elements'[j].name \in DOMAIN members'
        BY <3>3 DEF NamesOf
      <4>2. CASE n \notin NamesOf(Elements)
        BY <1>1, <2>2, <2>5, <3>2, <4>1, <4>2 DEF Mirrors
      <4>3. CASE n \in NamesOf(Elements) /\ j \in DOMAIN Elements /\ j # size /\ j # hole
                   /\ Elements'[j] = Elements[j]
        <5>1. Elements[j].name # last
          BY <1>1, <1>2, <3>1, <4>3 DEF IndInv, CachesCover, NamesDiffer, last
        <5>2. members'[Elements'[j].name] = LoadedMembers[Elements[j].name]
          BY <2>5, <4>1, <4>3, <5>1
        <5>. QED BY <1>1, <3>2, <4>3, <5>2 DEF Mirrors
      <4>4. CASE n \in NamesOf(Elements) /\ j = hole /\ j # size /\ Elements'[j] = Elements[size]
        <5>1. Elements'[j].name = last
          BY <4>4 DEF last
        <5>2. members'[Elements'[j].name] = LoadedMembers[n]
          BY <2>5, <3>2, <4>1, <4>4, <5>1
        <5>3. Mirrors(LoadedMembers[n], hole)
          BY <1>2, <2>4, <3>2, <4>4
        <5>4. n # last
          BY <1>1, <1>2, <2>4, <3>1, <4>4 DEF IndInv, CachesCover, NamesDiffer, last
        <5>5. LoadedMembers[n].read = None
          BY <3>1, <3>2, <4>4, <5>4
        <5>. QED BY <1>1, <4>4, <5>2, <5>3, <5>5 DEF Mirrors
      <4>. QED BY <2>6, <4>2, <4>3, <4>4
    <3>5. MembersMirror'
      BY <1>1, <3>3, <3>4 DEF MembersMirror
    <3>6. ValuesMirror'
      BY <1>1, <3>1 DEF IndInv, CachesMirror, ValuesMirror
    <3>. QED BY <3>5, <3>6
  <2>. QED BY <2>7, <2>9, <2>10 DEF CacheInv
<1>. QED BY <1>4, <1>5 DEF RemoveMember

(***************************************************************************)
(* The theorems.                                                           *)
(***************************************************************************)
LEMMA InitEstablishesIndInv == Init => IndInv
<1>. SUFFICES ASSUME Init PROVE IndInv
  OBVIOUS
<1>1. /\ membersLoaded = FALSE /\ valuesLoaded = FALSE /\ members = <<>> /\ values = <<>>
      /\ free = {} /\ crashed = FALSE /\ DOMAIN members = {} /\ values \in Seq(Wrapper)
  BY EmptySeq DEF Init
<1>2. CASE /\ heap = <<>>
           /\ m_value = [type |-> "OTHER", block |-> 0, capacity |-> 0]
           /\ mishaps = {}
  <2>1. Elements = <<>> /\ DOMAIN Elements = {} /\ ~IsObject /\ ~IsArray
    BY <1>2 DEF Elements, IsObject, IsArray
  <2>2. heap \in Seq(Seq(Element)) /\ m_value \in [type : Types, block : 0..Len(heap), capacity : Nat]
    BY <1>2, EmptySeq DEF Types
  <2>. QED BY <1>1, <1>2, <2>1, <2>2
       DEF IndInv, TypeOK, CachesCover, NamesDiffer, CachesMirror, MembersMirror, ValuesMirror,
           BuiltValuesHaveOneOwner
<1>3. ASSUME NEW type \in {"OBJECT", "ARRAY"}, NEW elements \in Seq(Element), Parsed(type, elements),
             type = "OBJECT" => NamesOf(elements) \subseteq Names
      PROVE  IndInv
  <2>1. /\ heap = <<elements>> /\ Len(heap) = 1 /\ heap \in Seq(Seq(Element))
        /\ m_value = [type |-> type, block |-> 1, capacity |-> Len(elements)]
        /\ Elements = elements
    BY <1>3 DEF Parsed, Elements
  <2>2. Len(elements) \in Nat /\ DOMAIN elements = 1..Len(elements)
    BY LenProperties
  <2>3. mishaps \subseteq Mishaps
    BY <1>3 DEF Parsed, Note, Mishaps
  <2>4. TypeOK
    <3>1. m_value \in [type : Types, block : 0..Len(heap), capacity : Nat]
      BY <2>1, <2>2 DEF Types
    <3>2. IsObject => NamesOf(Elements) \subseteq Names
      BY <1>3, <2>1 DEF IsObject
    <3>. QED BY <1>1, <2>1, <2>3, <3>1, <3>2 DEF TypeOK
  <2>5. BuiltValuesHaveOneOwner
    <3>1. \A i, j \in DOMAIN elements :
            i < j => elements[i].value \notin Nested \/ elements[i].value # elements[j].value
      BY <1>3 DEF Parsed
    <3>2. \A i, j \in DOMAIN elements : i # j => i < j \/ j < i
      BY <2>2
    <3>. QED BY <1>1, <2>1, <3>1, <3>2 DEF BuiltValuesHaveOneOwner
  <2>6. CachesCover
    <3>. SUFFICES ASSUME "duplicate" \notin mishaps PROVE NamesDiffer
      BY <1>1 DEF CachesCover
    <3>. SUFFICES ASSUME IsObject PROVE \A i, j \in DOMAIN elements :
                                          elements[i].name = elements[j].name => i = j
      BY <2>1 DEF NamesDiffer
    <3>1. \A i \in DOMAIN elements : elements[i].name # None
      BY <1>3, <2>1, JSONAssumption DEF NamesOf, IsObject
    <3>2. \A i, j \in DOMAIN elements :
            ~(i < j /\ elements[i].name # None /\ elements[i].name = elements[j].name)
      BY <1>3 DEF Parsed, Note
    <3>3. \A i, j \in DOMAIN elements : i # j => i < j \/ j < i
      BY <2>2
    <3>. QED BY <3>1, <3>2, <3>3
  <2>7. CachesMirror
    BY <1>1 DEF CachesMirror, MembersMirror, ValuesMirror
  <2>. QED BY <2>4, <2>5, <2>6, <2>7 DEF IndInv
<1>4. ASSUME NEW v \in Values, NEW w \in Values, NEW m \in Names, NEW n \in Names,
             Parsed("OBJECT", <<[name |-> m, value |-> v], [name |-> n, value |-> w]>>)
      PROVE  IndInv
  <2>. DEFINE elements == <<[name |-> m, value |-> v], [name |-> n, value |-> w]>>
  <2>1. elements \in Seq(Element) /\ NamesOf(elements) \subseteq Names
    BY DEF Element, NamesOf
  <2>. HIDE DEF elements
  <2>2. Parsed("OBJECT", elements)
    BY <1>4 DEF elements
  <2>. QED BY <1>3, <2>1, <2>2
<1>5. ASSUME NEW v \in Values, NEW w \in Values,
             Parsed("ARRAY", <<[name |-> None, value |-> v], [name |-> None, value |-> w]>>)
      PROVE  IndInv
  <2>. DEFINE elements == <<[name |-> None, value |-> v], [name |-> None, value |-> w]>>
  <2>1. elements \in Seq(Element)
    BY DEF Element
  <2>. HIDE DEF elements
  <2>2. Parsed("ARRAY", elements)
    BY <1>5 DEF elements
  <2>. QED BY <1>3, <2>1, <2>2
<1>. QED BY <1>2, <1>4, <1>5 DEF Init

LEMMA NextKeepsIndInv == IndInv /\ [Next]_vars => IndInv'
<1>. SUFFICES ASSUME IndInv, Step \/ UNCHANGED vars, TypeOK' PROVE CacheInv'
  BY StepKeepsTypes DEF IndInv, CacheInv, Next
<1>1. ASSUME NEW type \in Types, SetType(type) PROVE CacheInv'
  BY <1>1, SetTypeKeepsCaches
<1>2. CASE SetScalar
  BY <1>2, SetScalarKeepsCaches
<1>3. ASSUME NEW v \in Nested, BuildValue(v) PROVE CacheInv'
  BY <1>3, BuildValueKeepsCaches
<1>4. CASE FailAfterLoad \/ \E n \in Names, deep \in BOOLEAN : GetObjectMemberValue(n, deep)
  BY <1>4, GetMemberKeepsCaches
<1>5. ASSUME NEW n \in Names, NEW v \in Scalars, WriteMember(n, v) PROVE CacheInv'
  BY <1>5, WriteMemberKeepsCaches
<1>6. ASSUME NEW n \in Names, NEW v \in Values, AddMember(n, v) PROVE CacheInv'
  BY <1>6, AddMemberKeepsCaches
<1>7. ASSUME NEW n \in Names, RemoveMember(n) PROVE CacheInv'
  BY <1>7, RemoveMemberKeepsCaches
<1>8. ASSUME NEW i \in 1..MaxElements, NEW deep \in BOOLEAN, GetArrayValue(i, deep) PROVE CacheInv'
  BY <1>8, GetArrayValueKeepsCaches
<1>9. ASSUME NEW i \in 1..MaxElements, NEW v \in Scalars, WriteArrayValue(i, v) PROVE CacheInv'
  BY <1>9, WriteArrayValueKeepsCaches
<1>10. ASSUME NEW v \in Values, AddArrayValue(v) PROVE CacheInv'
  BY <1>10, AddArrayValueKeepsCaches
<1>11. CASE ClearArray
  BY <1>11, ClearArrayKeepsCaches
<1>12. CASE Crashed \/ UNCHANGED vars
  BY <1>12, UnchangedKeepsCaches DEF Crashed
<1>. QED
  BY <1>1, <1>2, <1>3, <1>4, <1>5, <1>6, <1>7, <1>8, <1>9, <1>10, <1>11, <1>12 DEF Step

\* The inductive invariant holds in every state of a JSON value.
THEOREM InvariantHolds == Spec => []IndInv
  BY InitEstablishesIndInv, NextKeepsIndInv, PTL DEF Spec

\* In every sequence of calls on a JSON value all variables keep their types.
THEOREM TypeCorrect == Spec => []TypeOK
<1>1. IndInv => TypeOK
  BY DEF IndInv
<1>. QED BY <1>1, InvariantHolds, PTL

\* Without a mishap, getObjectMemberValue and getArrayValue return what the
\* document holds, for values of any size.
THEOREM CachesAgree == Spec => []ReadsAgree
<1>1. IndInv => ReadsAgree
  <2>. SUFFICES ASSUME IndInv, mishaps = {}
                PROVE  /\ IsObject =>
                            /\ DOMAIN LoadedMembers = NamesOf(Elements)
                            /\ \A i \in DOMAIN Elements :
                                 Seen(LoadedMembers[Elements[i].name]) = Elements[i].value
                       /\ IsArray =>
                            \A i \in DOMAIN Elements : /\ i \in DOMAIN LoadedValues
                                                       /\ Seen(LoadedValues[i]) = Elements[i].value
    BY DEF ReadsAgree
  <2>1. ASSUME IsObject
        PROVE  /\ DOMAIN LoadedMembers = NamesOf(Elements)
               /\ \A i \in DOMAIN Elements :
                    Seen(LoadedMembers[Elements[i].name]) = Elements[i].value
    <3>1. /\ DOMAIN LoadedMembers = NamesOf(Elements)
          /\ \A i \in DOMAIN Elements : Mirrors(LoadedMembers[Elements[i].name], i)
      BY <2>1, LoadedMembersMirror
    <3>2. \A i \in DOMAIN Elements : LoadedMembers[Elements[i].name] \in Wrapper
      BY <2>1, <3>1, LoadedMembersTyped DEF IndInv, NamesOf
    <3>. QED BY <3>1, <3>2, MirrorIsRead DEF IndInv
  <2>2. ASSUME IsArray, NEW i \in DOMAIN Elements
        PROVE  i \in DOMAIN LoadedValues /\ Seen(LoadedValues[i]) = Elements[i].value
    <3>1. i \in DOMAIN LoadedValues /\ Mirrors(LoadedValues[i], i)
      BY <2>2, LoadedValuesMirror
    <3>2. LoadedValues[i] \in Wrapper
      <4>1. LoadedValues \in Seq(Wrapper)
        BY LoadedValuesTyped DEF IndInv
      <4>. QED BY <3>1, <4>1, ElementOfSeq, LenProperties
    <3>. QED BY <3>1, <3>2, MirrorIsRead DEF IndInv
  <2>. QED BY <2>1, <2>2
<1>. QED BY <1>1, InvariantHolds, PTL

\* Every fragment of a JSON pointer that the value answers for is found in the
\* cache, and no call is undefined, as long as no name is repeated.
THEOREM PointersResolve == Spec => []PointerStepsResolve
<1>1. IndInv => PointerStepsResolve
  <2>. SUFFICES ASSUME IndInv, "duplicate" \notin mishaps
                PROVE  (\A f \in Names \cup 1..MaxElements : Answers(f) => Wrapped(f)) /\ ~crashed
    BY DEF PointerStepsResolve
  <2>1. /\ IsObject => NamesOf(Elements) \subseteq DOMAIN LoadedMembers
        /\ IsArray => DOMAIN Elements \subseteq DOMAIN LoadedValues
    BY LoadedCovers DEF IndInv
  <2>2. ~crashed
    BY DEF IndInv, CachesCover
  <2>. QED BY <2>1, <2>2 DEF Answers, Wrapped
<1>. QED BY <1>1, InvariantHolds, PTL

\* A built value is in the document's list or in one place of the value, in
\* every sequence of calls, repeated names included.
THEOREM OneOwner == Spec => []BuiltValuesHaveOneOwner
<1>1. IndInv => BuiltValuesHaveOneOwner
  BY DEF IndInv
<1>. QED BY <1>1, InvariantHolds, PTL
=============================================================================
