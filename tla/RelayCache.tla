----------------------------- MODULE RelayCache -----------------------------
(***************************************************************************)
(* The cache of exact frames that keeps a bridge from relaying what it has *)
(* just sent or relayed (RelayCache in protocol.h and protocol.cpp).  It   *)
(* has a fixed number of entries and a 32-bit clock: an entry's age is the *)
(* time since it was last admitted, modulo ClockSpan.                      *)
(***************************************************************************)
EXTENDS Integers

CONSTANTS Frames,         \* exact application frames
          CacheCapacity,  \* entries                              (64)
          SuppressTime,   \* an entry younger than this is live   (60 s)
          ClockSpan       \* the clock wraps                      (2^32 ms)

ASSUME CacheAssumption ==
  /\ CacheCapacity \in Nat /\ SuppressTime \in Nat \ {0}
  /\ ClockSpan \in Nat /\ SuppressTime < ClockSpan

Entries == 1 .. CacheCapacity
Ages    == 0 .. ClockSpan - 1

\* An entry, used or not.
Entry == [used : BOOLEAN, frame : Frames, age : Ages]
Cache == [Entries -> Entry]

Holds(cache, entry, frame) == cache[entry].used /\ cache[entry].frame = frame

Live(cache, entry) == cache[entry].used /\ cache[entry].age < SuppressTime

Known(cache, frame) == \E entry \in Entries : Holds(cache, entry, frame)

\* A slip: any other entry may be taken when the cache is full.
EvictableEntry(cache, entry) == TRUE

Available(cache, entry) == ~Live(cache, entry)

\* The answers of admit().
Duplicate(cache, frame) == \E entry \in Entries : Holds(cache, entry, frame) /\ Live(cache, entry)

Full(cache, frame) ==
  ~Known(cache, frame) /\ \A entry \in Entries : ~Available(cache, entry)

Eligible(cache, frame) == ~Duplicate(cache, frame) /\ ~Full(cache, frame)

Stamp(cache, entry, frame) ==
  [cache EXCEPT ![entry] = [used |-> TRUE, frame |-> frame, age |-> 0]]

\* What admit() leaves: the frame's entry stamped again, or the frame in an entry
\* that was free; which one does not matter.
Admitted(cache, frame) ==
  IF Known(cache, frame)
    THEN {Stamp(cache, entry, frame) : entry \in {e \in Entries : Holds(cache, e, frame)}}
    ELSE IF Full(cache, frame)
      THEN {cache}
      ELSE {Stamp(cache, entry, frame) : entry \in {e \in Entries : Available(cache, e)}}

\* A slip: the age is kept wider than the clock.
AgedUnwrapped(cache) ==
  [entry \in Entries |-> [cache[entry] EXCEPT !.age = @ + 1]]

AgedCache(cache) ==
  [entry \in Entries |-> [cache[entry] EXCEPT !.age = (@ + 1) % ClockSpan]]

=============================================================================
