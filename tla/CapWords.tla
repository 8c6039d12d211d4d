------------------------------- MODULE CapWords -------------------------------
(***************************************************************************)
(* Capability sets as the words they travel in (src/src/caps.rs): the      *)
(* kernel takes and gives two words of W bits per set, low word first, and *)
(* the program edits one word of 2W bits.  The names pushed to the builder *)
(* become numbers, and apply_capabilities (src/src/wrap.rs) reads, edits   *)
(* and writes the words back; it is the Capset step of module Preexec, one *)
(* bit at a time.                                                          *)
(***************************************************************************)
EXTENDS Integers, Builder

CONSTANTS
  W,          \* bits of a word (32)
  Givens,     \* what the kernel's words may be at first
  Known,      \* the numbers of the capabilities in CapabilityBit::ALL
  NumbersOf,  \* NumbersOf[name]: the capabilities a name stands for, {} if unknown
  MaxCalls    \* bound on the calls to the builder

ASSUME WidthAssumption == W \in Nat \ {0} /\ Known \subseteq 0 .. 2 * W - 1
ASSUME NamesAssumption == \A name \in DOMAIN NumbersOf : NumbersOf[name] \subseteq Known

\* A word, by its bits from the lowest on.
Word  == [0 .. W - 1 -> BOOLEAN]      \* u32
Value == [0 .. 2 * W - 1 -> BOOLEAN]  \* u64
Sets  == {"effective", "permitted", "inheritable"}

\* CapInternalData[2]: <<low, high>> per set; CapResult: one value per set.
Data == [Sets -> Word \X Word]

\* The operators of Rust: |, & and !, << W and >> W, `as u64` and `as u32`.
Or(a, b)  == [n \in 0 .. 2 * W - 1 |-> a[n] \/ b[n]]
And(a, b) == [n \in 0 .. 2 * W - 1 |-> a[n] /\ b[n]]
Not(a)    == [n \in 0 .. 2 * W - 1 |-> ~a[n]]
ShiftL(a) == [n \in 0 .. 2 * W - 1 |-> n >= W /\ a[n - W]]
ShiftR(a) == [n \in 0 .. 2 * W - 1 |-> n < W /\ a[n + W]]
as_u64(w) == [n \in 0 .. 2 * W - 1 |-> n < W /\ w[n]]
as_u32(a) == [n \in 0 .. W - 1 |-> a[n]]

bit_mask(cap) == [n \in 0 .. 2 * W - 1 |-> n = cap]
add_to(cap, value) == Or(value, bit_mask(cap))

remove_from(cap, value) == And(value, Not(bit_mask(cap)))

cap_data_to_result(d) == [s \in Sets |-> Or(ShiftL(as_u64(d[s][2])), as_u64(d[s][1]))]

cap_result_to_data(c) == [s \in Sets |-> <<as_u32(c[s]), as_u32(ShiftR(c[s]))>>]

ASSUME GivensAssumption == Givens \subseteq Data

Lists == {"drop", "raise", "raise_ambient"}

VARIABLES
  given,   \* the kernel's words at first, fixed
  data,    \* the kernel's words
  config,  \* the request, under construction or built
  asked,   \* asked[list]: the names pushed to it, a history variable
  drops, raises,  \* what the names of the request come to
  caps,    \* current_capabilities
  todo,    \* what is left of the loop
  pc

vars == <<given, data, config, asked, drops, raises, caps, todo, pc>>

Init ==
  /\ given \in Givens
  /\ data = given
  /\ config = new /\ asked = [list \in Lists |-> {}]
  /\ drops = {} /\ raises = {}
  /\ caps = [s \in Sets |-> [n \in 0 .. 2 * W - 1 |-> FALSE]]
  /\ todo = {}
  /\ pc = "build"

Names(list) == IF "capabilities" \in DOMAIN config THEN ListOf(config.capabilities, list)
                                                   ELSE << >>

\* push_raise_capability, push_raise_ambient_capability, push_drop_capability
PushCapability ==
  /\ pc = "build"
  /\ Len(Names("drop")) + Len(Names("raise")) + Len(Names("raise_ambient")) < MaxCalls
  /\ \E list \in Lists, name \in DOMAIN NumbersOf :
       /\ config' = AddToCapList(config, list, name)
       /\ asked' = [asked EXCEPT ![list] = @ \cup {name}]
  /\ UNCHANGED <<given, data, drops, raises, caps, todo, pc>>

\* A request without capabilities leaves everything alone.  get_caps.
GetCaps ==
  /\ pc = "build"
  /\ IF "capabilities" \in DOMAIN config
       THEN pc' = "names" /\ caps' = cap_data_to_result(data)
       ELSE pc' = "skipped" /\ UNCHANGED caps
  /\ UNCHANGED <<given, data, config, asked, drops, raises, todo>>

Unknown(list) == \E n \in DOMAIN Names(list) : NumbersOf[Names(list)[n]] = {}
names_as_bits(list) == UNION {NumbersOf[Names(list)[n]] : n \in DOMAIN Names(list)}

\* Mutated: the ambient names are looked up where they are used, at the end.
NamesOnUse ==
  /\ pc = "names"
  /\ IF Unknown("drop") \/ Unknown("raise")
       THEN pc' = "failed" /\ UNCHANGED <<drops, raises, todo>>
       ELSE /\ drops' = names_as_bits("drop") /\ raises' = names_as_bits("raise")
            /\ pc' = "clear" /\ todo' = drops'
  /\ UNCHANGED <<given, data, config, asked, caps>>

\* All three lists are looked up before anything is changed.
LookUpNames ==
  /\ pc = "names"
  /\ IF \E list \in Lists : Unknown(list)
       THEN pc' = "failed" /\ UNCHANGED <<drops, raises, todo>>
       ELSE /\ drops' = names_as_bits("drop") /\ raises' = names_as_bits("raise")
            /\ pc' = "clear" /\ todo' = drops'
  /\ UNCHANGED <<given, data, config, asked, caps>>

\* clear_bits, in the order of a HashSet.
ClearBits ==
  /\ pc = "clear"
  /\ \/ \E cap \in todo : /\ caps' = [caps EXCEPT !.effective = remove_from(cap, @)]
                          /\ todo' = todo \ {cap}
                          /\ UNCHANGED pc
     \/ todo = {} /\ pc' = "set" /\ todo' = raises /\ UNCHANGED caps
  /\ UNCHANGED <<given, data, config, asked, drops, raises>>

\* set_bits
SetBits ==
  /\ pc = "set"
  /\ \/ \E cap \in todo : /\ caps' = [caps EXCEPT !.effective = add_to(cap, @)]
                          /\ todo' = todo \ {cap}
                          /\ UNCHANGED pc
     \/ todo = {} /\ pc' = "put" /\ UNCHANGED <<caps, todo>>
  /\ UNCHANGED <<given, data, config, asked, drops, raises>>

\* The two assignments and set_caps.  What the kernel refuses is in Preexec.
SetCaps ==
  /\ pc = "put"
  /\ caps' = [s \in Sets |-> caps.effective]
  /\ data' = cap_result_to_data(caps')
  /\ pc' = "done"
  /\ UNCHANGED <<given, config, asked, drops, raises, todo>>

Next == PushCapability \/ GetCaps \/ LookUpNames \/ ClearBits \/ SetBits \/ SetCaps

Spec == Init /\ [][Next]_vars

-----------------------------------------------------------------------------
\* The capabilities that the kernel reads off its two words.
CapsOf(words) == {n \in 0 .. W - 1 : words[1][n]} \cup {n \in W .. 2 * W - 1 : words[2][n - W]}

\* Nothing leaves the width of a word.
TypeOK == /\ given \in Givens /\ data \in Data
          /\ drops \subseteq Known /\ raises \subseteq Known /\ todo \subseteq Known
          /\ caps \in [Sets -> Value]
          /\ asked \in [Lists -> SUBSET DOMAIN NumbersOf]
          /\ pc \in {"build", "skipped", "names", "failed", "clear", "set", "put", "done"}

\* The capabilities that were asked for by name.
Asked(list) == UNION {NumbersOf[name] : name \in asked[list]}

\* What the kernel is told is what set algebra says of the names pushed to the
\* builder, in both words, whatever the order of the calls and of the loops,
\* also of a capability named twice, in two spellings, by ALL, or both dropped
\* and raised; and what CapabilityBit does not know stays as it was.
WordsAreSets ==
  pc = "done" =>
    \A s \in Sets :
      CapsOf(data[s]) = (CapsOf(given["effective"]) \ Asked("drop")) \cup Asked("raise")

\* A name that is not known, in whichever list, stops everything before the
\* kernel's words are changed.
UnknownNameChangesNothing ==
  (\E list \in Lists : \E name \in asked[list] : NumbersOf[name] = {}) => data = given

-----------------------------------------------------------------------------
(* The invariant the proofs use. *)

\* The request holds the names that were pushed, and no others.
NamesInv ==
  \A list \in Lists : /\ Names(list) \in Seq(DOMAIN NumbersOf)
                      /\ asked[list] = {Names(list)[n] : n \in 1 .. Len(Names(list))}

Editing == {"clear", "set", "put", "done"}

\* Nothing is edited before all the names are known.
LookedUpInv ==
  /\ pc # "done" => data = given
  /\ pc \in Editing =>
       /\ \A list \in Lists : \A name \in asked[list] : NumbersOf[name] # {}
       /\ drops = Asked("drop") /\ raises = Asked("raise")

\* The capabilities in a value of 2W bits.
CapsIn(value) == {n \in 0 .. 2 * W - 1 : value[n]}

\* How far the loops have come with the effective set.
EditInv ==
  LET now == CapsIn(caps["effective"])
      was == CapsOf(given["effective"]) IN
  /\ pc = "names" => now = was
  /\ pc = "clear" => todo \subseteq drops /\ now = was \ (drops \ todo)
  /\ pc = "set"   => todo \subseteq raises /\ now = (was \ drops) \cup (raises \ todo)
  /\ pc = "put"   => now = (was \ drops) \cup raises
  /\ pc = "done"  => \A s \in Sets : CapsOf(data[s]) = (was \ drops) \cup raises

IInv == TypeOK /\ NamesInv /\ LookedUpInv /\ EditInv
=============================================================================
