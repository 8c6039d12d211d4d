---------------------------- MODULE CapWordsProofs ----------------------------
(***************************************************************************)
(* CapWords, for words of every width, every set of names and every order  *)
(* of the calls.                                                           *)
(***************************************************************************)
EXTENDS CapWords, TLAPS

-----------------------------------------------------------------------------
(* The operators, capability by capability. *)

\* A value stays a value of 2W bits, whatever is edited.
LEMMA EditTypes ==
  ASSUME NEW value \in Value, NEW cap \in Known
  PROVE  add_to(cap, value) \in Value /\ remove_from(cap, value) \in Value
BY DEF add_to, remove_from, Or, And, Value

\* add_to adds one capability, remove_from takes one away.
LEMMA EditFacts ==
  ASSUME NEW value \in Value, NEW cap \in Known
  PROVE  /\ CapsIn(add_to(cap, value)) = CapsIn(value) \cup {cap}
         /\ CapsIn(remove_from(cap, value)) = CapsIn(value) \ {cap}
<1>1. cap \in 0 .. 2 * W - 1
  BY WidthAssumption
<1>2. ASSUME NEW n \in 0 .. 2 * W - 1
      PROVE  /\ add_to(cap, value)[n] <=> value[n] \/ n = cap
             /\ remove_from(cap, value)[n] <=> value[n] /\ n # cap
  BY <1>2 DEF add_to, remove_from, Or, And, Not, bit_mask
<1> QED BY <1>1, <1>2 DEF CapsIn

\* Two words become one value with the same capabilities.
LEMMA ToResult ==
  ASSUME NEW d \in Data, NEW s \in Sets
  PROVE  /\ cap_data_to_result(d)[s] \in Value
         /\ CapsIn(cap_data_to_result(d)[s]) = CapsOf(d[s])
<1> DEFINE low == d[s][1]
           high == d[s][2]
           value == cap_data_to_result(d)[s]
<1>1. d[s] \in Word \X Word /\ W \in Nat \ {0}
  BY WidthAssumption DEF Data
<1>2. value = Or(ShiftL(as_u64(high)), as_u64(low))
  BY DEF cap_data_to_result
<1>3. value \in Value
  BY <1>2 DEF Or, Value
<1>4. ASSUME NEW n \in 0 .. 2 * W - 1
      PROVE  value[n] <=> (n >= W /\ high[n - W]) \/ (n < W /\ low[n])
  <2>1. value[n] <=> ShiftL(as_u64(high))[n] \/ as_u64(low)[n]
    BY <1>2 DEF Or
  <2>2. as_u64(low)[n] <=> n < W /\ low[n]
    BY DEF as_u64
  <2>3. ShiftL(as_u64(high))[n] <=> n >= W /\ as_u64(high)[n - W]
    BY DEF ShiftL
  <2>4. n >= W => (as_u64(high)[n - W] <=> high[n - W])
    <3>1. n >= W => n - W \in 0 .. 2 * W - 1 /\ n - W < W
      BY <1>1
    <3> QED BY <3>1 DEF as_u64
  <2> QED BY <2>1, <2>2, <2>3, <2>4
<1> HIDE DEF value, low, high
<1>5. CapsIn(value) = {n \in 0 .. W - 1 : low[n]} \cup {n \in W .. 2 * W - 1 : high[n - W]}
  BY <1>1, <1>4 DEF CapsIn
<1>6. CapsIn(value) = CapsOf(d[s])
  BY <1>5 DEF CapsOf, low, high
<1> QED BY <1>3, <1>6 DEF value

\* One value becomes two words with the same capabilities: none is lost between
\* them, and none is in both.
LEMMA ToData ==
  ASSUME NEW c \in [Sets -> Value]
  PROVE  /\ cap_result_to_data(c) \in Data
         /\ \A s \in Sets : CapsOf(cap_result_to_data(c)[s]) = CapsIn(c[s])
<1>1. W \in Nat \ {0}
  BY WidthAssumption
<1>2. ASSUME NEW s \in Sets
      PROVE  /\ cap_result_to_data(c)[s] \in Word \X Word
             /\ CapsOf(cap_result_to_data(c)[s]) = CapsIn(c[s])
  <2> DEFINE value == c[s]
             low == as_u32(value)
             high == as_u32(ShiftR(value))
  <2>1. cap_result_to_data(c)[s] = <<low, high>>
    BY DEF cap_result_to_data
  <2>2. value \in Value
    OBVIOUS
  <2> HIDE DEF value
  <2>3. low \in Word
    BY <1>1, <2>2 DEF as_u32, Word, Value
  <2>4. ASSUME NEW n \in 0 .. W - 1 PROVE (low[n] <=> value[n]) /\ (high[n] <=> value[n + W])
    <3>1. n \in 0 .. 2 * W - 1 /\ n < W
      BY <1>1
    <3> QED BY <3>1 DEF as_u32, ShiftR
  <2>5. high \in Word
    <3>1. \A n \in 0 .. W - 1 : n \in 0 .. 2 * W - 1 /\ n + W \in 0 .. 2 * W - 1
      BY <1>1
    <3>2. ASSUME NEW n \in 0 .. W - 1 PROVE ShiftR(value)[n] \in BOOLEAN
      BY <3>1 DEF ShiftR
    <3> QED BY <3>2 DEF as_u32, Word
  <2> HIDE DEF low, high
  <2>6. CapsIn(value) = {n \in 0 .. W - 1 : low[n]} \cup {n \in W .. 2 * W - 1 : high[n - W]}
    <3>1. ASSUME NEW n \in W .. 2 * W - 1 PROVE high[n - W] <=> value[n]
      <4>1. n - W \in 0 .. W - 1 /\ (n - W) + W = n
        BY <1>1
      <4> QED BY <2>4, <4>1
    <3> QED BY <1>1, <2>4, <3>1 DEF CapsIn
  <2>7. CapsOf(<<low, high>>) = CapsIn(value)
    BY <2>6 DEF CapsOf
  <2> QED BY <2>1, <2>3, <2>5, <2>7 DEF value
<1> QED BY <1>2 DEF cap_result_to_data, Data

-----------------------------------------------------------------------------
(* The request. *)

\* What a name pushed to one of the lists does to the names of all of them.
LEMMA AddFacts ==
  ASSUME NEW list \in Lists, NEW name, config' = AddToCapList(config, list, name)
  PROVE  \A l \in Lists : Names(l)' = IF l = list THEN Append(Names(l), name) ELSE Names(l)
<1> DEFINE c == IF "capabilities" \in DOMAIN config THEN config.capabilities ELSE new
           b == Push(c, list, name)
<1>1. config' = Set(config, "capabilities", b)
  BY DEF AddToCapList
<1>2. ASSUME NEW l \in Lists PROVE Names(l) = ListOf(c, l)
  <2>1. CASE "capabilities" \in DOMAIN config
    BY <2>1 DEF Names
  <2>2. CASE "capabilities" \notin DOMAIN config
    <3>1. l \notin DOMAIN << >>
      BY DEF Lists
    <3> QED BY <2>2, <3>1 DEF Names, ListOf, new
  <2> QED BY <2>1, <2>2
<1> HIDE DEF c
<1>3. /\ ListOf(b, list) = Append(ListOf(c, list), name)
      /\ \A l \in Lists : l # list => ListOf(b, l) = ListOf(c, l)
  <2> DEFINE longer == Append(ListOf(c, list), name)
  <2>1. b = Set(c, list, longer)
    BY DEF Push
  <2> HIDE DEF b, longer
  <2>2. /\ DOMAIN b = DOMAIN c \cup {list} /\ b[list] = longer
        /\ \A f \in DOMAIN c \ {list} : b[f] = c[f]
    BY <2>1 DEF Set
  <2>3. ListOf(b, list) = longer /\ \A l \in Lists : l # list => ListOf(b, l) = ListOf(c, l)
    BY <2>2 DEF ListOf
  <2> QED BY <2>3 DEF longer
<1> HIDE DEF b
<1>4. "capabilities" \in DOMAIN config' /\ config'["capabilities"] = b
  BY <1>1 DEF Set
<1>5. ASSUME NEW l \in Lists PROVE Names(l)' = ListOf(b, l)
  BY <1>4 DEF Names, ListOf
<1> QED BY <1>2, <1>3, <1>5

\* What the request leaves alone, the names leave alone.
LEMMA NamesKept ==
  ASSUME IInv, UNCHANGED <<config, asked>>
  PROVE  NamesInv' /\ Asked("drop")' = Asked("drop") /\ Asked("raise")' = Asked("raise")
<1>1. \A list \in Lists : Names(list)' = Names(list)
  BY DEF Names, ListOf
<1> QED BY <1>1 DEF IInv, NamesInv, Asked

-----------------------------------------------------------------------------
(* One lemma per action. *)

\* push_*_capability
LEMMA PushStep ==
  ASSUME IInv, PushCapability
  PROVE  IInv'
<1>1. /\ pc = "build" /\ pc' = "build" /\ UNCHANGED <<given, data, drops, raises, caps, todo>>
  BY DEF PushCapability
<1>2. PICK list \in Lists, name \in DOMAIN NumbersOf :
        /\ config' = AddToCapList(config, list, name)
        /\ asked' = [asked EXCEPT ![list] = @ \cup {name}]
  BY DEF PushCapability
<1>3. TypeOK'
  BY <1>1, <1>2 DEF IInv, TypeOK
<1>4. NamesInv'
  <2> SUFFICES ASSUME NEW l \in Lists
               PROVE  /\ Names(l)' \in Seq(DOMAIN NumbersOf)
                      /\ asked'[l] = {Names(l)'[n] : n \in 1 .. Len(Names(l)')}
    BY DEF NamesInv
  <2>1. Names(l) \in Seq(DOMAIN NumbersOf) /\ Len(Names(l)) \in Nat
    BY DEF IInv, NamesInv
  <2>2. asked[l] = {Names(l)[n] : n \in 1 .. Len(Names(l))}
    BY DEF IInv, NamesInv
  <2>3. Names(l)' = IF l = list THEN Append(Names(l), name) ELSE Names(l)
    BY <1>2, AddFacts
  <2> DEFINE old == Names(l)
             longer == Append(old, name)
  <2> HIDE DEF old
  <2>4. CASE l = list
    <3>1. /\ longer \in Seq(DOMAIN NumbersOf) /\ Len(longer) = Len(old) + 1
          /\ \A n \in 1 .. Len(old) : longer[n] = old[n]
          /\ longer[Len(old) + 1] = name
      BY <2>1 DEF old
    <3>2. asked'[l] = asked[l] \cup {name}
      BY <1>2, <2>4 DEF IInv, TypeOK
    <3> HIDE DEF longer
    <3>3. {longer[n] : n \in 1 .. Len(longer)} = {old[n] : n \in 1 .. Len(old)} \cup {name}
      <4>1. Len(old) \in Nat
        BY <2>1 DEF old
      <4>2. 1 .. Len(longer) = 1 .. Len(old) \cup {Len(old) + 1}
        BY <3>1, <4>1
      <4> QED BY <3>1, <4>2
    <3>4. Names(l)' = longer
      BY <2>3, <2>4 DEF longer, old
    <3> QED BY <2>2, <3>1, <3>2, <3>3, <3>4 DEF old
  <2>5. CASE l # list
    BY <1>2, <2>1, <2>2, <2>3, <2>5 DEF IInv, TypeOK
  <2> QED BY <2>4, <2>5
<1> QED BY <1>1, <1>3, <1>4 DEF IInv, LookedUpInv, EditInv, Editing

\* get_caps
LEMMA GetStep ==
  ASSUME IInv, GetCaps
  PROVE  IInv'
<1>1. /\ pc = "build" /\ data = given /\ data \in Data
      /\ UNCHANGED <<given, data, config, asked, drops, raises, todo>>
  BY DEF GetCaps, IInv, LookedUpInv, TypeOK
<1>2. CASE pc' = "names" /\ caps' = cap_data_to_result(data)
  <2>1. caps' \in [Sets -> Value]
    BY <1>1, <1>2, ToResult DEF cap_data_to_result
  <2>2. CapsIn(caps'["effective"]) = CapsOf(given["effective"])
    BY <1>1, <1>2, ToResult DEF Sets
  <2>3. TypeOK'
    BY <1>1, <1>2, <2>1 DEF IInv, TypeOK
  <2> QED BY <1>1, <1>2, <2>2, <2>3, NamesKept DEF IInv, LookedUpInv, EditInv, Editing
<1>3. CASE pc' = "skipped" /\ UNCHANGED caps
  <2>1. TypeOK'
    BY <1>1, <1>3 DEF IInv, TypeOK
  <2> QED BY <1>1, <1>3, <2>1, NamesKept DEF IInv, LookedUpInv, EditInv, Editing
<1> QED BY <1>2, <1>3 DEF GetCaps

\* names_as_bits is what was asked for, and finds every name that is not known.
LEMMA NamesFacts ==
  ASSUME IInv, NEW list \in Lists
  PROVE  /\ names_as_bits(list) = Asked(list) /\ Asked(list) \subseteq Known
         /\ Unknown(list) <=> \E name \in asked[list] : NumbersOf[name] = {}
<1>1. /\ DOMAIN Names(list) = 1 .. Len(Names(list))
      /\ asked[list] = {Names(list)[n] : n \in 1 .. Len(Names(list))}
      /\ asked[list] \subseteq DOMAIN NumbersOf
  BY DEF IInv, NamesInv, TypeOK
<1>2. names_as_bits(list) = Asked(list)
  BY <1>1 DEF names_as_bits, Asked
<1>3. Asked(list) \subseteq Known
  BY <1>1, NamesAssumption DEF Asked
<1>4. Unknown(list) <=> \E name \in asked[list] : NumbersOf[name] = {}
  BY <1>1 DEF Unknown
<1> QED BY <1>2, <1>3, <1>4

\* names
LEMMA NamesStep ==
  ASSUME IInv, LookUpNames
  PROVE  IInv'
<1>1. pc = "names" /\ UNCHANGED <<given, data, config, asked, caps>>
  BY DEF LookUpNames
<1>2. CASE pc' = "failed" /\ UNCHANGED <<drops, raises, todo>>
  <2>1. TypeOK'
    BY <1>1, <1>2 DEF IInv, TypeOK
  <2> QED BY <1>1, <1>2, <2>1, NamesKept DEF IInv, LookedUpInv, EditInv, Editing
<1>3. CASE /\ ~\E list \in Lists : Unknown(list)
           /\ drops' = names_as_bits("drop") /\ raises' = names_as_bits("raise")
           /\ pc' = "clear" /\ todo' = drops'
  <2>1. /\ drops' = Asked("drop") /\ raises' = Asked("raise")
        /\ drops' \subseteq Known /\ raises' \subseteq Known
        /\ \A list \in Lists : \A name \in asked[list] : NumbersOf[name] # {}
    BY <1>3, NamesFacts DEF Lists
  <2>2. TypeOK'
    BY <1>1, <1>3, <2>1 DEF IInv, TypeOK
  <2>3. LookedUpInv'
    BY <1>1, <1>3, <2>1, NamesKept DEF IInv, LookedUpInv, Editing
  <2>4. EditInv'
    BY <1>1, <1>3 DEF IInv, EditInv
  <2> QED BY <1>1, <2>2, <2>3, <2>4, NamesKept DEF IInv
<1> QED BY <1>2, <1>3 DEF LookUpNames

\* clear_bits: one capability less in todo, one less in the value.
LEMMA ClearStep ==
  ASSUME IInv, ClearBits
  PROVE  IInv'
<1>1. pc = "clear" /\ UNCHANGED <<given, data, config, asked, drops, raises>>
  BY DEF ClearBits
<1>2. ASSUME NEW cap \in todo, caps' = [caps EXCEPT !.effective = remove_from(cap, @)],
             todo' = todo \ {cap}, pc' = pc
      PROVE  IInv'
  <2>1. /\ caps \in [Sets -> Value] /\ caps["effective"] \in Value /\ cap \in Known
        /\ caps'["effective"] = remove_from(cap, caps["effective"])
    BY <1>2 DEF IInv, TypeOK, Sets
  <2>2. remove_from(cap, caps["effective"]) \in Value
    BY <2>1, EditTypes
  <2>3. TypeOK'
    BY <1>1, <1>2, <2>1, <2>2 DEF IInv, TypeOK
  <2>4. CapsIn(caps'["effective"]) = CapsIn(caps["effective"]) \ {cap}
    BY <2>1, EditFacts
  <2>5. EditInv'
    BY <1>1, <1>2, <2>4 DEF IInv, EditInv
  <2>6. LookedUpInv'
    BY <1>1, <1>2, NamesKept DEF IInv, LookedUpInv, Editing
  <2> QED BY <1>1, <2>3, <2>5, <2>6, NamesKept DEF IInv
<1>3. ASSUME todo = {}, pc' = "set", todo' = raises, UNCHANGED caps
      PROVE  IInv'
  <2>1. TypeOK'
    BY <1>1, <1>3 DEF IInv, TypeOK
  <2>2. EditInv'
    BY <1>1, <1>3 DEF IInv, EditInv
  <2>3. LookedUpInv'
    BY <1>1, <1>3, NamesKept DEF IInv, LookedUpInv, Editing
  <2> QED BY <1>1, <2>1, <2>2, <2>3, NamesKept DEF IInv
<1> QED BY <1>2, <1>3 DEF ClearBits

\* set_bits: one capability less in todo, one more in the value.
LEMMA SetStep ==
  ASSUME IInv, SetBits
  PROVE  IInv'
<1>1. pc = "set" /\ UNCHANGED <<given, data, config, asked, drops, raises>>
  BY DEF SetBits
<1>2. ASSUME NEW cap \in todo, caps' = [caps EXCEPT !.effective = add_to(cap, @)],
             todo' = todo \ {cap}, pc' = pc
      PROVE  IInv'
  <2>1. /\ caps \in [Sets -> Value] /\ caps["effective"] \in Value /\ cap \in Known
        /\ caps'["effective"] = add_to(cap, caps["effective"])
    BY <1>2 DEF IInv, TypeOK, Sets
  <2>2. add_to(cap, caps["effective"]) \in Value
    BY <2>1, EditTypes
  <2>3. TypeOK'
    BY <1>1, <1>2, <2>1, <2>2 DEF IInv, TypeOK
  <2>4. CapsIn(caps'["effective"]) = CapsIn(caps["effective"]) \cup {cap}
    BY <2>1, EditFacts
  <2>5. EditInv'
    BY <1>1, <1>2, <2>4 DEF IInv, EditInv
  <2>6. LookedUpInv'
    BY <1>1, <1>2, NamesKept DEF IInv, LookedUpInv, Editing
  <2> QED BY <1>1, <2>3, <2>5, <2>6, NamesKept DEF IInv
<1>3. ASSUME todo = {}, pc' = "put", UNCHANGED <<caps, todo>>
      PROVE  IInv'
  <2>1. TypeOK'
    BY <1>1, <1>3 DEF IInv, TypeOK
  <2>2. EditInv'
    BY <1>1, <1>3 DEF IInv, EditInv
  <2>3. LookedUpInv'
    BY <1>1, <1>3, NamesKept DEF IInv, LookedUpInv, Editing
  <2> QED BY <1>1, <2>1, <2>2, <2>3, NamesKept DEF IInv
<1> QED BY <1>2, <1>3 DEF SetBits

\* set_caps
LEMMA PutStep ==
  ASSUME IInv, SetCaps
  PROVE  IInv'
<1>1. /\ pc = "put" /\ pc' = "done" /\ UNCHANGED <<given, config, asked, drops, raises, todo>>
      /\ caps' = [s \in Sets |-> caps.effective] /\ data' = cap_result_to_data(caps')
      /\ caps["effective"] \in Value
  BY DEF SetCaps, IInv, TypeOK, Sets
<1>2. caps' \in [Sets -> Value] /\ \A s \in Sets : caps'[s] = caps["effective"]
  BY <1>1
<1>3. data' \in Data /\ \A s \in Sets : CapsOf(data'[s]) = CapsIn(caps["effective"])
  BY <1>1, <1>2, ToData
<1>4. TypeOK'
  BY <1>1, <1>2, <1>3 DEF IInv, TypeOK
<1>5. EditInv'
  BY <1>1, <1>3 DEF IInv, EditInv
<1>6. LookedUpInv'
  BY <1>1, NamesKept DEF IInv, LookedUpInv, Editing
<1> QED BY <1>1, <1>4, <1>5, <1>6, NamesKept DEF IInv

-----------------------------------------------------------------------------
(* The theorems. *)

\* The value being edited is what set algebra says, at every step of both loops.
THEOREM Invariance == Spec => []IInv
<1>1. Init => IInv
  <2> SUFFICES ASSUME Init PROVE IInv
    OBVIOUS
  <2>1. TypeOK
    BY GivensAssumption DEF Init, TypeOK, Value
  <2>2. NamesInv
    <3>1. \A list \in Lists : Names(list) = << >>
      BY DEF Init, Names, new
    <3>2. << >> \in Seq(DOMAIN NumbersOf) /\ Len(<< >>) = 0
      OBVIOUS
    <3>3. \A list \in Lists : asked[list] = {}
      BY DEF Init
    <3>4. \A list \in Lists : {Names(list)[n] : n \in 1 .. Len(Names(list))} = {}
      BY <3>1, <3>2
    <3> QED BY <3>1, <3>2, <3>3, <3>4 DEF NamesInv
  <2> QED BY <2>1, <2>2 DEF Init, IInv, LookedUpInv, EditInv, Editing
<1>2. IInv /\ [Next]_vars => IInv'
  <2> SUFFICES ASSUME IInv, [Next]_vars PROVE IInv'
    OBVIOUS
  <2>1. CASE UNCHANGED vars
    <3>1. UNCHANGED <<given, data, config, asked, drops, raises, caps, todo, pc>>
      BY <2>1 DEF vars
    <3>2. TypeOK' /\ EditInv'
      BY <3>1 DEF IInv, TypeOK, EditInv
    <3>3. LookedUpInv'
      BY <3>1, NamesKept DEF IInv, LookedUpInv
    <3> QED BY <3>1, <3>2, <3>3, NamesKept DEF IInv
  <2>2. CASE Next
    BY <2>2, PushStep, GetStep, NamesStep, ClearStep, SetStep, PutStep DEF Next
  <2> QED BY <2>1, <2>2
<1> QED BY <1>1, <1>2, PTL DEF Spec

\* What the kernel is told is what the names say, in both words, for words of every
\* width.
THEOREM WordsAreSetsHolds == Spec => []WordsAreSets
<1>1. IInv => WordsAreSets
  BY DEF IInv, LookedUpInv, EditInv, Editing, WordsAreSets
<1> QED BY <1>1, Invariance, PTL

\* A name that is not known stops everything before the words are changed.
THEOREM UnknownNameHolds == Spec => []UnknownNameChangesNothing
<1>1. IInv => UnknownNameChangesNothing
  BY DEF IInv, LookedUpInv, Editing, UnknownNameChangesNothing
<1> QED BY <1>1, Invariance, PTL
=============================================================================
