----------------------------- MODULE ModuleScan -----------------------------
(***************************************************************************)
(* PeImage of crates/kg-capture-hook/src/lib.rs: how install_hooks finds a *)
(* class's update method in KSongsUI.dll, by the class's name in its type  *)
(* descriptor, a complete object locator that refers to that, and a vtable *)
(* that refers to the locator.                                             *)
(*                                                                         *)
(* Memory is counted in cells of four bytes, from address 1.  An image is  *)
(* its cells, the attribute of each page, and its section headers.         *)
(***************************************************************************)
EXTENDS Integers, Sequences, SequencesExt, FiniteSetsExt

CONSTANTS
  PageCells,    \* bound: cells of a page (1024)
  NameOffset,   \* bound: from a type descriptor to its name (2)
  TypeOffset,   \* bound: from a locator to its type descriptor's address (3)
  LocatorCells, \* bound: cells of a locator (5)
  Slot,         \* bound: the method's place in the vtable (4)
  NotFound      \* an address that no cell has

ASSUME ScanAssumption ==
  /\ {PageCells, LocatorCells} \subseteq Nat \ {0}
  /\ {NameOffset, Slot} \subseteq Nat
  /\ TypeOffset \in 0..LocatorCells - 1

\* No cell of an address has one of these.
ClassName == <<-1, -2>>     \* STANDARD_RTTI or LIVE_RTTI
UPDATE_PROLOGUE == <<-3>>

At(image, a) == image.memory[a]

ImageEnd(image) == Len(image.memory) + 1

CellsAt(image, a, n) == SubSeq(image.memory, a, a + n - 1)

PageAt(a) == (a - 1) \div PageCells + 1

\* VirtualQuery's region goes on while the pages' attributes are the same.
RegionEnd(image, a) ==
  LET last == Max({p \in PageAt(a)..Len(image.page) :
                     \A q \in PageAt(a)..p : image.page[q] = image.page[PageAt(a)]})
  IN  last * PageCells + 1

\* readable_prefix: 0 stands for None.
ReadablePrefix(image, a) ==
  IF a \in 1..Len(image.memory) /\ image.page[PageAt(a)] # "none"
  THEN RegionEnd(image, a) - a ELSE 0

ReadableRange(image, a, n) == ReadablePrefix(image, a) >= n

InImage(image, a, n) ==
  a >= 1 /\ a + n <= ImageEnd(image) /\ ReadableRange(image, a, n)

\* from_module drops what is empty or does not fit into the image.
Sections(image) ==
  SelectSeq(image.headers,
            LAMBDA s : s.length > 0 /\ s.first + s.length <= ImageEnd(image))

Executable(image, a) ==
  \E s \in ToSet(Sections(image)) : s.executable /\ a \in s.first..s.first + s.length - 1

------------------------------------------------------------------------------

\* The matches within length cells from cursor, in order, overlapping or not.
Matches(image, needle, cursor, length) ==
  SetToSortSeq({a \in cursor..cursor + length - Len(needle) :
                  CellsAt(image, a, Len(needle)) = needle}, <)

Mutant_NextPage(cursor, end) == end   \* break: the rest of the section is given up

\* Past a page that cannot be read.
NextPage(cursor, end) == Min({cursor + PageCells, end})

\* find_all_bytes in one section, region by region.
FindInSection(image, needle, s) ==
  LET end == s.first + s.length
      from[cursor \in s.first..end] ==
        LET length == Min({ReadablePrefix(image, cursor), end - cursor}) IN
        IF cursor = end THEN <<>>
        ELSE IF length = 0 THEN from[NextPage(cursor, end)]
        ELSE Matches(image, needle, cursor, length) \o from[cursor + length]
  IN  from[s.first]

FindAll(image, needle) ==
  LET readable == SelectSeq(Sections(image), LAMBDA s : s.readable)
  IN  FlattenSeq([i \in 1..Len(readable) |-> FindInSection(image, needle, readable[i])])

IsLocator(image, locator, descriptor) ==
  /\ InImage(image, locator, LocatorCells)
  /\ At(image, locator) = 0
  /\ At(image, locator + TypeOffset) = descriptor

\* The methods at Slot of the vtables behind a locator.
MethodsOf(image, locator) ==
  LET methods == [i \in DOMAIN FindAll(image, <<locator>>) |->
                    FindAll(image, <<locator>>)[i] + 1 + Slot]
      pointers == SelectSeq(methods, LAMBDA a :
                    InImage(image, a, 1) /\ Executable(image, At(image, a)))
  IN  [i \in DOMAIN pointers |-> At(image, pointers[i])]

MethodCandidates(image, descriptor) ==
  LET references == FindAll(image, <<descriptor>>)
      locators == SelectSeq([i \in DOMAIN references |-> references[i] - TypeOffset],
                            LAMBDA l : IsLocator(image, l, descriptor))
  IN  FlattenSeq([i \in DOMAIN locators |-> MethodsOf(image, locators[i])])

HasPrologue(image, a) ==
  /\ ReadableRange(image, a, Len(UPDATE_PROLOGUE))
  /\ CellsAt(image, a, Len(UPDATE_PROLOGUE)) = UPDATE_PROLOGUE

\* The first occurrence of the name is taken for the type descriptor's.
FindVirtualMethod(image) ==
  LET names == FindAll(image, ClassName) IN
  IF names = <<>> THEN NotFound
  ELSE LET candidates == MethodCandidates(image, names[1] - NameOffset)
           known == SelectSeq(candidates, LAMBDA a : HasPrologue(image, a))
       IN  IF known # <<>> THEN known[1]
           ELSE IF Cardinality(ToSet(candidates)) = 1 THEN candidates[1]
           ELSE NotFound

\* With verify_update_target, which a candidate without the prologue fails.
UpdateTarget(image) ==
  LET target == FindVirtualMethod(image)
  IN  IF target # NotFound /\ HasPrologue(image, target) THEN target ELSE NotFound

------------------------------------------------------------------------------
(* What the scan looks for, without saying how. *)

\* A whole needle in a readable section: no region ends within it.
Whole(image, needle) ==
  {a \in 1..Len(image.memory) :
     /\ \E s \in ToSet(Sections(image)) :
          s.readable /\ s.first <= a /\ a + Len(needle) <= s.first + s.length
     /\ ReadableRange(image, a, Len(needle))
     /\ CellsAt(image, a, Len(needle)) = needle}

\* The addresses of the update method, as any vtable of the class has it.
UpdateMethods(image) ==
  {a \in 1..Len(image.memory) :
     /\ Executable(image, a) /\ HasPrologue(image, a)
     /\ \E name \in Whole(image, ClassName) :
        \E l \in {r - TypeOffset : r \in Whole(image, <<name - NameOffset>>)} :
          /\ IsLocator(image, l, name - NameOffset)
          /\ \E v \in Whole(image, <<l>>) :
               InImage(image, v + 1 + Slot, 1) /\ At(image, v + 1 + Slot) = a}

=============================================================================
