------------------------------ MODULE JSONValue ------------------------------
(***************************************************************************)
(* One JSONValue of the RapidJSON adapter: a wrapper around a RapidJSON    *)
(* value (m_value) that caches wrappers of its members (m_objectMembers)   *)
(* or elements (m_arrayValues).  Presence and counts are read from the     *)
(* value, everything below it through the caches.                          *)
(*                                                                         *)
(* heap is RapidJSON's pool (external): it never frees a block, so a       *)
(* cached wrapper that refers to an old block reads what was there, and    *)
(* writes where nobody looks.  A nested value stands for its members: the  *)
(* wrapper of one remembers in read which value its own caches were loaded *)
(* from.  mishaps is history: the calls after which caches and value may   *)
(* disagree.                                                               *)
(***************************************************************************)
EXTENDS Naturals, Sequences, FiniteSets, SequencesExt

CONSTANTS Names,            \* member names
          Nested,           \* objects and arrays, by identity
          Scalars,          \* booleans, strings, numbers and null
          None,             \* nothing
          DefaultCapacity,  \* elements of the first block RapidJSON allocates
          MaxElements, MaxBlocks, MaxMishaps    \* bounds

Values == Nested \cup Scalars

ASSUME JSONAssumption ==
  /\ Nested \cap Scalars = {}
  /\ None \notin Values \cup Names
  /\ DefaultCapacity \in Nat \ {0}
  /\ MaxElements \in Nat
  /\ {MaxBlocks, MaxMishaps} \subseteq Nat

VARIABLES heap,                      \* blocks of elements
          m_value,                   \* type, block (0: none) and capacity
          membersLoaded, members,    \* m_objectMembersLoaded, m_objectMembers
          valuesLoaded, values,      \* m_arrayValuesLoaded, m_arrayValues
          free,                      \* m_freeValues: built and not attached
          crashed,                   \* undefined behaviour was reached
          mishaps

caches == <<membersLoaded, members, valuesLoaded, values>>
vars   == <<heap, m_value, caches, free, crashed, mishaps>>

Types    == {"OBJECT", "ARRAY", "OTHER"}    \* OTHER: null, boolean, string, number
Mishaps  == {"duplicate", "moved", "reset", "unaligned", "stale"}
Element  == [name : Names \cup {None}, value : Values]    \* no name in an array
Wrapper  == [block : Nat, index : Nat, read : Nested \cup {None}]

-----------------------------------------------------------------------------
Elements == IF m_value.block = 0 THEN <<>> ELSE heap[m_value.block]

NamesOf(elements)    == { elements[i].name : i \in DOMAIN elements }
Named(elements, n)   == Min({ i \in DOMAIN elements : elements[i].name = n })

Fresh(block, i) == [block |-> block, index |-> i, read |-> None]

\* loadObjectMembers and loadArrayValues: the latter appends.
LoadedMembers == IF membersLoaded THEN members
                 ELSE [n \in NamesOf(Elements) |-> Fresh(m_value.block, Named(Elements, n))]

LoadedValues == IF valuesLoaded THEN values
                ELSE values \o [i \in DOMAIN Elements |-> Fresh(m_value.block, i)]

\* What a read through wrapper w finds: the members of a nested value are those
\* that were there when they were first read.
InHeap(w) == w.block \in DOMAIN heap /\ w.index \in DOMAIN heap[w.block]
Content(w) == IF InHeap(w) THEN heap[w.block][w.index].value ELSE None
Seen(w) == IF Content(w) \in Nested /\ w.read # None THEN w.read ELSE Content(w)

\* Mutant: what is read of a scalar is kept, too.
ReadDeepAny(w) == [w EXCEPT !.read = Seen(w)]

ReadDeep(w) == IF Content(w) \in Nested THEN [w EXCEPT !.read = Seen(w)] ELSE w

\* AddMember and PushBack: a full block grows in place or is moved.
Grown == IF m_value.capacity = 0 THEN DefaultCapacity
         ELSE m_value.capacity + (m_value.capacity + 1) \div 2

Full == Len(Elements) = m_value.capacity

AppendInPlace(e, capacity) ==
  /\ m_value.block # 0
  /\ heap' = [heap EXCEPT ![m_value.block] = Append(@, e)]
  /\ m_value' = [m_value EXCEPT !.capacity = capacity]

AppendMoved(e) ==
  /\ Len(heap) < MaxBlocks
  /\ heap' = Append(heap, Append(Elements, e))
  /\ m_value' = [m_value EXCEPT !.block = Len(heap) + 1, !.capacity = Grown]

AppendElement(e) ==
  /\ Len(Elements) < MaxElements
  /\ IF Full THEN AppendInPlace(e, Grown) \/ AppendMoved(e)
             ELSE AppendInPlace(e, m_value.capacity)

Note(mishap, happened) == IF happened THEN {mishap} ELSE {}

-----------------------------------------------------------------------------
\* A document is parsed, with one block of just the right size, or empty.
Parsed(type, elements) ==
  /\ heap = <<elements>>
  /\ m_value = [type |-> type, block |-> 1, capacity |-> Len(elements)]
  /\ \A i, j \in DOMAIN elements :
       i < j => elements[i].value \notin Nested \/ elements[i].value # elements[j].value
  /\ mishaps = Note("duplicate", \E i, j \in DOMAIN elements :
                                   i < j /\ elements[i].name # None
                                         /\ elements[i].name = elements[j].name)

Init == /\ \/ /\ heap = <<>>
              /\ m_value = [type |-> "OTHER", block |-> 0, capacity |-> 0]
              /\ mishaps = {}
           \/ \E v, w \in Values :
                \/ \E m, n \in Names : Parsed("OBJECT", <<[name |-> m, value |-> v],
                                                          [name |-> n, value |-> w]>>)
                \/ Parsed("ARRAY", <<[name |-> None, value |-> v], [name |-> None, value |-> w]>>)
        /\ membersLoaded = FALSE
        /\ members = <<>>
        /\ valuesLoaded = FALSE
        /\ values = <<>>
        /\ free = {}
        /\ crashed = FALSE

\* setType gives the value an empty content; an object keeps its own cache
\* when it is made an object again, and an array likewise.
SetType(type) ==
  /\ ~crashed
  /\ m_value' = [type |-> type, block |-> 0, capacity |-> 0]
  /\ IF type = "OBJECT" THEN UNCHANGED <<membersLoaded, members>>
                        ELSE membersLoaded' = FALSE /\ members' = <<>>
  /\ IF type = "ARRAY" THEN UNCHANGED <<valuesLoaded, values>>
                       ELSE valuesLoaded' = FALSE /\ values' = <<>>
  /\ mishaps' = mishaps \cup Note("reset", DOMAIN members' # {} \/ values' # <<>>)
  /\ UNCHANGED <<heap, free, crashed>>

\* setBoolean, setString, setInteger, ..., setNull: the caches stay.
SetScalar ==
  /\ ~crashed
  /\ m_value' = [type |-> "OTHER", block |-> 0, capacity |-> 0]
  /\ mishaps' = mishaps \cup Note("reset", DOMAIN members # {} \/ values # <<>>)
  /\ UNCHANGED <<heap, caches, free, crashed>>

\* buildValue: the document owns the value until it is added.
BuildValue(v) ==
  /\ ~crashed
  /\ v \in Nested \ free
  /\ \A i \in DOMAIN Elements : Elements[i].value # v
  /\ free' = free \cup {v}
  /\ UNCHANGED <<heap, m_value, caches, crashed, mishaps>>

\* Mutant: the document keeps what it gave away.
RemoveFreeValueKeeps(v) == v \in Scalars \cup free /\ UNCHANGED free

\* removeFreeValue; addMember builds a scalar itself and adds it at once.
RemoveFreeValue(v) == v \in Scalars \cup free /\ free' = free \ {v}

-----------------------------------------------------------------------------
(***************************************************************************)
(* Objects.                                                                *)
(***************************************************************************)
\* getObjectMemberValue of a name that is not there, or addMember with a value
\* of another document: it throws after it has loaded the members.
FailAfterLoad ==
  /\ ~crashed
  /\ m_value.type = "OBJECT"
  /\ members' = LoadedMembers
  /\ membersLoaded' = TRUE
  /\ UNCHANGED <<heap, m_value, valuesLoaded, values, free, crashed, mishaps>>

\* getObjectMemberValue; the caller may go on and read the members of a nested one.
GetObjectMemberValue(n, deep) ==
  /\ ~crashed
  /\ m_value.type = "OBJECT"
  /\ n \in DOMAIN LoadedMembers
  /\ members' = [LoadedMembers EXCEPT ![n] = IF deep THEN ReadDeep(@) ELSE @]
  /\ membersLoaded' = TRUE
  /\ UNCHANGED <<heap, m_value, valuesLoaded, values, free, crashed, mishaps>>

\* A scalar is written to the member that getObjectMemberValue returns.
WriteMember(n, v) ==
  /\ ~crashed
  /\ m_value.type = "OBJECT"
  /\ n \in DOMAIN LoadedMembers
  /\ InHeap(LoadedMembers[n])
  /\ heap' = [heap EXCEPT ![LoadedMembers[n].block][LoadedMembers[n].index].value = v]
  /\ members' = LoadedMembers
  /\ membersLoaded' = TRUE
  /\ UNCHANGED <<m_value, valuesLoaded, values, free, crashed, mishaps>>

\* Mutant: the new member is left to the next load, which may have happened.
InsertMemberLate(n) == UNCHANGED <<members, membersLoaded>>

\* m_objectMembers.insert: no effect on a name that is already there.
InsertMember(n) ==
  /\ members' = IF n \in DOMAIN LoadedMembers THEN LoadedMembers
                ELSE [k \in DOMAIN LoadedMembers \cup {n} |->
                        IF k = n THEN Fresh(m_value'.block, Named(heap'[m_value'.block], n))
                                 ELSE LoadedMembers[k]]
  /\ membersLoaded' = TRUE

AddMember(n, v) ==
  /\ ~crashed
  /\ m_value.type = "OBJECT"
  /\ RemoveFreeValue(v)
  /\ AppendElement([name |-> n, value |-> v])
  /\ InsertMember(n)
  /\ mishaps' = mishaps \cup Note("duplicate", n \in NamesOf(Elements))
                        \cup Note("moved", m_value'.block # m_value.block /\ Elements # <<>>)
  /\ UNCHANGED <<valuesLoaded, values, crashed>>

\* RapidJSON's RemoveMember moves the last element into the hole.
Without(elements, n) ==
  LET size == Len(elements)
      i == Named(elements, n)
  IN  IF n \notin NamesOf(elements) THEN elements
      ELSE [j \in 1..(size - 1) |-> IF j = i THEN elements[size] ELSE elements[j]]

\* Mutant: the wrappers are not swapped.
EraseMemberOnly(n, last) == [k \in DOMAIN LoadedMembers \ {n} |-> LoadedMembers[k]]

\* removeMember first swaps the wrappers of the two, then erases.
EraseMember(n, last) ==
  [k \in DOMAIN LoadedMembers \ {n} |->
     IF k = last /\ n \in DOMAIN LoadedMembers THEN LoadedMembers[n] ELSE LoadedMembers[k]]

RemoveMember(n) ==
  /\ ~crashed
  /\ m_value.type = "OBJECT"
  /\ Elements # <<>>                      \* else it returns
  /\ LET last == Elements[Len(Elements)].name
     IN  IF n \in DOMAIN LoadedMembers /\ last \notin DOMAIN LoadedMembers
         THEN crashed' = TRUE /\ UNCHANGED <<heap, members, mishaps>>
         ELSE /\ heap' = [heap EXCEPT ![m_value.block] = Without(@, n)]
              /\ members' = EraseMember(n, last)
              /\ mishaps' = mishaps \cup
                   Note("stale", /\ n \in NamesOf(Elements) \cap DOMAIN LoadedMembers
                                 /\ n # last
                                 /\ LoadedMembers[n].read # None)
              /\ UNCHANGED crashed
  /\ membersLoaded' = TRUE
  /\ UNCHANGED <<m_value, valuesLoaded, values, free>>

-----------------------------------------------------------------------------
(***************************************************************************)
(* Arrays.                                                                 *)
(***************************************************************************)
\* getArrayValue does not check the index: the caller compares it with the count.
GetArrayValue(i, deep) ==
  /\ ~crashed
  /\ m_value.type = "ARRAY"
  /\ i \in DOMAIN Elements
  /\ IF i \in DOMAIN LoadedValues
     THEN /\ values' = [LoadedValues EXCEPT ![i] = IF deep THEN ReadDeep(@) ELSE @]
          /\ UNCHANGED crashed
     ELSE values' = LoadedValues /\ crashed' = TRUE
  /\ valuesLoaded' = TRUE
  /\ UNCHANGED <<heap, m_value, membersLoaded, members, free, mishaps>>

WriteArrayValue(i, v) ==
  /\ ~crashed
  /\ m_value.type = "ARRAY"
  /\ i \in DOMAIN Elements \cap DOMAIN LoadedValues
  /\ InHeap(LoadedValues[i])
  /\ heap' = [heap EXCEPT ![LoadedValues[i].block][LoadedValues[i].index].value = v]
  /\ values' = LoadedValues
  /\ valuesLoaded' = TRUE
  /\ UNCHANGED <<m_value, membersLoaded, members, free, crashed, mishaps>>

\* addArrayValue does not load first.
AddArrayValue(v) ==
  /\ ~crashed
  /\ m_value.type = "ARRAY"
  /\ RemoveFreeValue(v)
  /\ AppendElement([name |-> None, value |-> v])
  /\ values' = Append(values, Fresh(m_value'.block, Len(Elements) + 1))
  /\ mishaps' = mishaps \cup Note("unaligned", Len(values) # Len(Elements))
                        \cup Note("moved", m_value'.block # m_value.block /\ values # <<>>)
  /\ UNCHANGED <<membersLoaded, members, valuesLoaded, crashed>>

ClearArray ==
  /\ ~crashed
  /\ m_value.type = "ARRAY"
  /\ heap' = IF m_value.block = 0 THEN heap ELSE [heap EXCEPT ![m_value.block] = <<>>]
  /\ values' = <<>>
  /\ valuesLoaded' = TRUE
  /\ UNCHANGED <<m_value, membersLoaded, members, free, crashed, mishaps>>

\* After undefined behaviour nothing is known.
Crashed == crashed /\ UNCHANGED vars

Step ==
  \/ \E type \in Types : SetType(type)
  \/ SetScalar
  \/ \E v \in Nested : BuildValue(v)
  \/ FailAfterLoad
  \/ \E n \in Names, deep \in BOOLEAN : GetObjectMemberValue(n, deep)
  \/ \E n \in Names, v \in Scalars : WriteMember(n, v)
  \/ \E n \in Names, v \in Values : AddMember(n, v)
  \/ \E n \in Names : RemoveMember(n)
  \/ \E i \in 1..MaxElements, deep \in BOOLEAN : GetArrayValue(i, deep)
  \/ \E i \in 1..MaxElements, v \in Scalars : WriteArrayValue(i, v)
  \/ \E v \in Values : AddArrayValue(v)
  \/ ClearArray
  \/ Crashed

Next == Step /\ Cardinality(mishaps') <= MaxMishaps

Spec == Init /\ [][Next]_vars

-----------------------------------------------------------------------------
(***************************************************************************)
(* Properties.                                                             *)
(***************************************************************************)
IsObject == m_value.type = "OBJECT"
IsArray  == m_value.type = "ARRAY"

\* Types: the caches map names and positions to wrappers, and the elements of
\* an object have names.
TypeOK == /\ heap \in Seq(Seq(Element))
          /\ m_value \in [type : Types, block : 0..Len(heap), capacity : Nat]
          /\ IsObject => NamesOf(Elements) \subseteq Names
          /\ membersLoaded \in BOOLEAN
          /\ DOMAIN members \subseteq Names
          /\ \A n \in DOMAIN members : members[n] \in Wrapper
          /\ valuesLoaded \in BOOLEAN
          /\ values \in Seq(Wrapper)
          /\ free \subseteq Nested
          /\ crashed \in BOOLEAN
          /\ mishaps \subseteq Mishaps

\* What getObjectMemberValue and getArrayValue return is what the document
\* holds, through every order of reads, writes, additions and removals, as long
\* as no name is repeated, no block moves under cached wrappers, no value is
\* reset, no array is extended behind its cache and no element is moved under a
\* wrapper that was read.
ReadsAgree ==
  mishaps = {} =>
    /\ IsObject =>
         /\ DOMAIN LoadedMembers = NamesOf(Elements)
         /\ \A i \in DOMAIN Elements : Seen(LoadedMembers[Elements[i].name]) = Elements[i].value
    /\ IsArray =>
         \A i \in DOMAIN Elements : /\ i \in DOMAIN LoadedValues
                                    /\ Seen(LoadedValues[i]) = Elements[i].value

\* One fragment of getJSONPointerValue: the value itself is asked whether the
\* member or the index is there; only then it is taken from the cache.
Answers(f) == \/ IsObject /\ f \in NamesOf(Elements)
              \/ IsArray /\ f \in DOMAIN Elements

Wrapped(f) == \/ IsObject /\ f \in DOMAIN LoadedMembers
              \/ IsArray /\ f \in DOMAIN LoadedValues

\* The second step of a pointer never fails (a throw, or an index past the end
\* of the cache) and no call is undefined, unless a name was repeated.
PointerStepsResolve ==
  "duplicate" \notin mishaps =>
    /\ \A f \in Names \cup 1..MaxElements : Answers(f) => Wrapped(f)
    /\ ~crashed

\* A built value has one owner: the document's list, or the one place where it
\* was added.
BuiltValuesHaveOneOwner ==
  \A i \in DOMAIN Elements : Elements[i].value \in Nested =>
    /\ Elements[i].value \notin free
    /\ \A j \in DOMAIN Elements : Elements[j].value = Elements[i].value => j = i

-----------------------------------------------------------------------------
(***************************************************************************)
(* Stated by the repository and not met by the code.                       *)
(***************************************************************************)
\* "This modification swaps elements beforehand so after RemoveMember() is called
\* the last element is not lost" (JSONValue.cpp): after a removal the last
\* element is read as what it is.  Where the removed element had been read, its
\* wrapper now stands for the last one and still answers with the old members.
LastElementIsNotLost ==
  [][\A n \in Names, e \in Element :
       mishaps = {} /\ RemoveMember(n) /\ e = Last(Elements) /\ n # e.name =>
         Seen(members[e.name])' = e.value]_vars

-----------------------------------------------------------------------------
(***************************************************************************)
(* The inductive invariant behind them: a loaded cache covers the elements, *)
(* and a cached wrapper stands for the element at its own position of the  *)
(* block that is in use.                                                   *)
(***************************************************************************)
NamesDiffer ==
  IsObject => \A i, j \in DOMAIN Elements : Elements[i].name = Elements[j].name => i = j

CachesCover ==
  "duplicate" \notin mishaps =>
    /\ NamesDiffer
    /\ IsObject /\ membersLoaded => NamesOf(Elements) \subseteq DOMAIN members
    /\ IsArray /\ valuesLoaded => Len(Elements) <= Len(values)
    /\ ~crashed

Mirrors(w, i) ==
  /\ w.block = m_value.block
  /\ w.index = i
  /\ Elements[i].value \in Nested => w.read \in {None, Elements[i].value}

MembersMirror ==
  IF membersLoaded /\ IsObject
  THEN /\ DOMAIN members = NamesOf(Elements)
       /\ \A i \in DOMAIN Elements : Mirrors(members[Elements[i].name], i)
  ELSE DOMAIN members = {}

ValuesMirror ==
  IF IsArray
  THEN /\ \A i \in DOMAIN Elements \cap DOMAIN values : Mirrors(values[i], i)
       /\ ~valuesLoaded => values = <<>> \/ Len(values) = Len(Elements)
  ELSE values = <<>>

CachesMirror == mishaps = {} => MembersMirror /\ ValuesMirror

IndInv == TypeOK /\ CachesCover /\ CachesMirror /\ BuiltValuesHaveOneOwner
=============================================================================
