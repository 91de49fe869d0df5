---------------------------- MODULE LayoutResolution ----------------------------
(***************************************************************************)
(* The static half of recovery: from a snapshot of steamclient64.dll, the  *)
(* layout of Steam's HID thread class is derived from its RTTI name, its    *)
(* vtables and the instructions of its worker, or refused.                  *)
(*                                                                         *)
(* An image has the bytes its RTTI names stand in, the words of its read-   *)
(* only data, and the instructions of its methods.  A byte has LaneBits     *)
(* bits here, and a machine word Lanes bytes, so that the word-at-a-time    *)
(* byte search keeps its carries.                                           *)
(***************************************************************************)
EXTENDS Naturals, FiniteSets, SequencesExt

CONSTANTS
    LaneBits, Lanes,    \* a byte's width, and the bytes in a machine word
    RttiName,           \* HID_THREAD_RTTI_NAME
    LookBehind,         \* how far before an increment its load is looked for
    LookAhead,          \* how far behind it its store is looked for
    MaxMethods          \* MAX_VTABLE_METHODS

\* The powers of two.
Power[n \in Nat] == IF n = 0 THEN 1 ELSE 2 * Power[n - 1]

Byte == 0..(Power[LaneBits] - 1)

ASSUME LanesAssumption == LaneBits \in Nat \ {0, 1} /\ Lanes \in Nat \ {0}
ASSUME NameAssumption == RttiName \in Seq(Byte) /\ RttiName # <<>>

-----------------------------------------------------------------------------
(* for_each_byte and find_unique                                            *)

\* The number with these n digits of so many bits each, the least significant first.
Number(digits, n, width) ==
    LET value[k \in 0..n] ==
            IF k = 0 THEN 0 ELSE value[k - 1] + digits[k] * Power[width * (k - 1)]
    IN value[n]
Packed(bytes) == Number(bytes, Lanes, LaneBits)

Bit(n, b) == (n \div Power[b]) % 2
Xor(m, n) ==
    Number([b \in 1..LaneBits |-> (Bit(m, b - 1) + Bit(n, b - 1)) % 2], LaneBits, 1)

\* The lanes a machine word's mask flags, by the top bit of each: every lane that
\* holds the needle, and some to which a subtraction has borrowed.
Flagged(chunk, needle) ==
    LET all == Power[LaneBits * Lanes]
        word == Packed([k \in 1..Lanes |-> Xor(chunk[k], needle)])
        less == (word + all - Packed([k \in 1..Lanes |-> 1])) % all
    IN {k \in 1..Lanes : Bit(less, LaneBits * k - 1) = 1 /\ Bit(word, LaneBits * k - 1) = 0}

\* The re-test of a flagged byte is what makes the search exact.
EveryFlagged(chunk, needle) == Flagged(chunk, needle)
Hits(chunk, needle) == {k \in Flagged(chunk, needle) : chunk[k] = needle}

ForEachByte(haystack, needle) ==
    LET chunks == Len(haystack) \div Lanes
        chunk(c) == SubSeq(haystack, c * Lanes + 1, (c + 1) * Lanes)
        hits == UNION {{c * Lanes + k : k \in Hits(chunk(c), needle)} : c \in 0..(chunks - 1)}
    IN hits \cup {i \in (chunks * Lanes + 1)..Len(haystack) : haystack[i] = needle}

\* Only the rest of the needle is compared at a hit.
Occurrences(haystack, needle) ==
    {i \in ForEachByte(haystack, needle[1]) :
        /\ i + Len(needle) - 1 <= Len(haystack)
        /\ \A j \in 2..Len(needle) : haystack[i + j - 1] = needle[j]}

FoundUnique(haystack, needle) == Cardinality(Occurrences(haystack, needle)) = 1

-----------------------------------------------------------------------------
(* Locators and vtables.  A word is <<"locator", o>> for a complete-object   *)
(* locator of the class with object offset o, <<"broken", o>> for one whose  *)
(* other fields do not confirm it, <<"ref", i>> for the address of word i,   *)
(* <<"code", m>> for that of method m, and anything else.                    *)

\* What an image is made of.
IsImage(image) ==
    /\ image = [bytes |-> image.bytes, words |-> image.words, bodies |-> image.bodies]
    /\ image.bytes \in Seq(Byte)
    /\ Len(image.words) \in Nat /\ DOMAIN image.words = 1..Len(image.words)
    /\ \A i \in DOMAIN image.words :
          image.words[i] = <<image.words[i][1], image.words[i][2]>>

\* A locator that ends with the image is passed over (offset >= limit).
Locators(words) == {i \in 1..(Len(words) - 1) : words[i][1] = "locator"}

IsCode(words, i) == i \in DOMAIN words /\ words[i][1] = "code"

\* A vtable begins behind a reference to a locator, with an executable entry.
Vtables(words) ==
    LET references(l) == {i \in DOMAIN words : words[i] = <<"ref", l>> /\ IsCode(words, i + 1)}
    IN UNION {{[offset |-> words[l][2], at |-> i + 1] : i \in references(l)} :
                 l \in Locators(words)}

Primaries(vtables) == {v \in vtables : v.offset = 0}

-----------------------------------------------------------------------------
(* analyze_scheduler_method.  An instruction is [op, base, field].          *)

\* What is decoded of a method: everything up to its first return.
Decoded(body) ==
    SelectInSeq(body, LAMBDA instruction : instruction.op = "ret")

Scheduling(body) ==
    LET end == IF Decoded(body) = 0 THEN Len(body) ELSE Decoded(body)
        increments == {i \in 1..end : body[i].op = "inc" /\ body[i].base # "none"}
        isAt(k, op, base) == body[k].op = op /\ body[k].base = base
        stores(i) == {s \in 1..end :
              /\ s \in (i + 1)..(i + LookAhead) /\ isAt(s, "store", body[i].base)
              /\ \E l \in 1..(i - 1) :
                    /\ l >= i - LookBehind /\ isAt(l, "load", body[i].base)
                    /\ body[l].field = body[s].field}
    IN UNION {{[counter |-> body[i].field, deadline |-> body[s].field] : s \in stores(i)} :
                 i \in increments}

\* A method that could mean several pairs of fields means none.
IsScheduler(body) == Cardinality(Scheduling(body)) = 1

\* find_scheduler_layouts: the first few words behind a secondary vtable's locator,
\* whether or not they are still the vtable's.
SchedulerLayouts(image) ==
    LET secondaries == {v \in Vtables(image.words) : v.offset # 0}
        schedulers(v) == {k \in v.at..(v.at + MaxMethods - 1) :
                            /\ IsCode(image.words, k)
                            /\ IsScheduler(image.bodies[image.words[k][2]])}
    IN UNION {{[offset |-> v.offset, secondary |-> v.at, method |-> image.words[k][2]] :
                  k \in schedulers(v)} : v \in secondaries}

\* resolve_recovery_layout: every step must leave exactly one possibility.
Resolves(image) ==
    /\ FoundUnique(image.bytes, RttiName)
    /\ Locators(image.words) # {}
    /\ Cardinality(Primaries(Vtables(image.words))) = 1
    /\ Cardinality(SchedulerLayouts(image)) = 1

Resolved(image) == CHOOSE layout \in SchedulerLayouts(image) : TRUE

================================================================================
